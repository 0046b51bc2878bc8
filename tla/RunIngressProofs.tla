-------------------------- MODULE RunIngressProofs --------------------------
(***************************************************************************)
(* Proofs about RunIngress for every set of schedulers, requests,          *)
(* deliveries, jobs and events and every value of the bounds.              *)
(*                                                                         *)
(*   TypeCorrect       TypeOK, with what each session knows (Local)        *)
(*   OvershootBounded  QuotaOvershootIsBounded                             *)
(*   HandledOnce       EventHandledOnce                                    *)
(*   OneRunPerThread   ThreadHasOneRun                                     *)
(*   StrandedByFault   StrandedOnlyByFault                                 *)
(*   SlotsFireOnce     SlotFiresOncePerLeader                              *)
(*                                                                         *)
(* Most actions only move one session on (Quiet).  The effect lemmas say   *)
(* of these, once and together, what the theorems need; the proofs then    *)
(* look at the few steps that commit, publish or belong to the scheduler.  *)
(***************************************************************************)
EXTENDS RunIngress, TLAPS, FiniteSetTheorems

(* A scheduler between picking a job and firing it, and until it settles it *)
Firing == {"get", "insert", "commit"}
OnJob  == Firing \cup {"publish", "settle"}

(* What the locals x of creator c stand for: rows that are still there, a  *)
(* waiting run if its version is still the one that was seen, and slots    *)
(* that are due, one for a job.                                            *)
Local(c, x) ==
  /\ x.pc \in {"user", "thread", "append"} => c \in Delivery
  /\ c \in Delivery /\ x.pc \in Claiming => x.event \in Event
  /\ x.pc \in {"append", "publish"} => x.run \in Run /\ run[x.run] # NULL
  /\ x.pc = "append" /\ x.seen # NULL =>
       /\ x.seen <= run[x.run].version
       /\ x.seen = run[x.run].version => run[x.run].status = "waiting"
  /\ c \in Sched /\ x.pc \in OnJob => x.cur \in Due /\ job[x.cur.job] # NULL
  /\ c \in Sched /\ x.pc \in Firing => x.cur.slot <= now /\ \A d \in x.due : d.job # x.cur.job
  /\ \A d \in x.due : job[d.job] # NULL /\ d.slot <= now
  /\ \A d, e \in x.due : d.job = e.job => d = e
  /\ x.pc \in {"idle", "dead"} => x.due = {}

Locals == \A c \in Creator : Local(c, tx[c])

Mapped == \A t \in Thread : mapping[t] # NULL => run[mapping[t]] # NULL

TInv == TypeOK /\ now <= MaxTime /\ Mapped /\ Locals
-----------------------------------------------------------------------------
(* The locals x hold slot t of job j, which is going to be fired. *)
HeldBy(x, j, t) == \/ \E d \in x.due : d.job = j /\ d.slot = t
                   \/ x.pc \in Firing /\ x.cur.job = j /\ x.cur.slot = t

(* A step that only replaces the locals of c, by y.  An admission was      *)
(* counted, a claim is new only where there was none, a slot is not taken  *)
(* from anywhere.                                                          *)
Quiet(c, y) ==
  /\ y \in Session /\ tx' = [tx EXCEPT ![c] = y] /\ Local(c, y)
  /\ UNCHANGED <<now, run, published, job, leader, event, handled, mapping, lapses>>
  /\ tx[c].pc # "publish" /\ y.pc # "publish"
  /\ y.pc = "commit" => ~QuotaReached
  /\ c \in Delivery /\ y.pc \in Claiming =>
       \/ tx[c].pc \in Claiming /\ y.event = tx[c].event
       \/ Claimed(y.event) = {} /\ ~event[y.event]
  /\ c \in Sched => \A j \in Job, t \in Time : HeldBy(y, j, t) => HeldBy(tx[c], j, t)

LEMMA Disjoint ==
  /\ \A c \in Request : c \in Creator /\ c \notin Sched /\ c \notin Delivery
  /\ \A c \in Delivery : c \in Creator /\ c \notin Sched /\ c \notin Request
  /\ \A c \in Sched : c \in Creator /\ c \notin Delivery /\ c \notin Request
BY IngressAssumption DEF Creator

LEMMA IdleFacts ==
  ASSUME NEW p \in Phase
  PROVE  LET y == [Idle EXCEPT !.pc = p]
         IN /\ y \in Session /\ y.pc = p /\ y.due = {} /\ y.run = NULL /\ y.event = NULL
BY DEF Idle, Session

LEMMA IdleSession ==
  /\ Idle \in Session /\ Idle.pc = "idle" /\ Idle.due = {} /\ Idle.run = NULL
  /\ Idle.event = NULL
BY DEF Idle, Session, Phase

(* A session that has ended, or has not begun, stands for nothing. *)
LEMMA EndedLocal ==
  ASSUME NEW c \in Creator, NEW y \in Session, y.due = {},
         y.pc \in {"idle", "dead", "done", "failed"}
  PROVE  Local(c, y)
BY DEF Local, Claiming, OnJob, Firing

LEMMA EndedQuiet ==
  ASSUME TInv, NEW c \in Creator, NEW y \in Session, y.due = {},
         y.pc \in {"idle", "dead", "done", "failed"},
         tx[c].pc # "publish", tx' = [tx EXCEPT ![c] = y],
         UNCHANGED <<now, run, published, job, leader, event, handled, mapping, lapses>>
  PROVE  Quiet(c, y)
<1>1. Local(c, y)
  BY EndedLocal
<1>2. QED
  BY <1>1 DEF Quiet, HeldBy, Firing, Claiming

LEMMA SessionFacts ==
  ASSUME TInv, NEW c \in Creator
  PROVE  tx[c] \in Session /\ Local(c, tx[c])
BY DEF TInv, TypeOK, Locals

(* The exception that ends a session *)
LEMMA FailedQuiet ==
  ASSUME TInv, NEW c \in Creator, RaiseIntegrityError(c), tx[c].pc # "publish",
         UNCHANGED <<now, run, published, job, leader, event, handled, mapping, lapses>>
  PROVE  \E y : Quiet(c, y)
<1> DEFINE p == IF c \in Sched THEN "dead" ELSE "failed"
           y == [Idle EXCEPT !.pc = p]
<1>1. p \in Phase /\ p \in {"idle", "dead", "done", "failed"}
  BY DEF Phase
<1>2. y \in Session /\ y.pc = p /\ y.due = {}
  BY <1>1, IdleFacts
<1>3. tx' = [tx EXCEPT ![c] = y]
  BY DEF RaiseIntegrityError, TInv, TypeOK
<1> HIDE DEF y, p
<1>4. QED
  BY <1>1, <1>2, <1>3, EndedQuiet

(* StartRequest, RefuseDelivery, IgnorePayload, NextRequest, EndTick *)
LEMMA StartRequestQuiet == ASSUME TInv, NEW q \in Request, StartRequest(q) PROVE \E y : Quiet(q, y)
<1> DEFINE y == [tx[q] EXCEPT !.pc = "get"]
<1>1. tx[q] \in Session /\ Local(q, tx[q]) /\ tx[q].pc = "idle"
  BY Disjoint, SessionFacts DEF StartRequest
<1>2. y \in Session /\ y.pc = "get" /\ y.due = tx[q].due
  BY <1>1 DEF Session, Phase
<1>3. tx' = [tx EXCEPT ![q] = y]
  BY Disjoint DEF StartRequest, Goto, TInv, TypeOK
<1> HIDE DEF y
<1>4. Local(q, y)
  BY <1>1, <1>2, Disjoint DEF Local
<1>5. Quiet(q, y)
  BY <1>1, <1>2, <1>3, <1>4, Disjoint DEF Quiet, StartRequest, env, sched, slack, bounds
<1>6. QED
  BY <1>5

LEMMA RefuseQuiet ==
  ASSUME TInv, NEW d \in Delivery, RefuseDelivery(d) \/ IgnorePayload(d)
  PROVE  \E y : Quiet(d, y)
<1>1. PICK p \in {"failed", "done"} : Goto(d, p)
  BY DEF RefuseDelivery, IgnorePayload
<1> DEFINE y == [tx[d] EXCEPT !.pc = p]
<1>2. tx[d] \in Session /\ tx[d].pc = "idle" /\ tx[d].due = {}
  BY Disjoint, SessionFacts DEF RefuseDelivery, IgnorePayload, Local
<1>3. y \in Session /\ y.pc = p /\ y.due = {}
  BY <1>2 DEF Session, Phase
<1>4. tx' = [tx EXCEPT ![d] = y] /\ d \in Creator
  BY <1>1, Disjoint DEF Goto, TInv, TypeOK
<1> HIDE DEF y
<1>5. QED
  BY <1>2, <1>3, <1>4, EndedQuiet DEF RefuseDelivery, IgnorePayload, env, sched, slack, bounds

LEMMA RestartQuiet ==
  ASSUME TInv, NEW c \in Creator, NextRequest(c) \/ EndTick(c)
  PROVE  \E y : Quiet(c, y)
<1>1. tx' = [tx EXCEPT ![c] = Idle] /\ tx[c].pc # "publish"
  BY DEF NextRequest, EndTick
<1>2. QED
  BY <1>1, IdleSession, EndedQuiet DEF NextRequest, EndTick, env, sched, slack, bounds

LEMMA CrashQuiet ==
  ASSUME TInv, NEW c \in Creator, Crash(c), tx[c].pc # "publish"
  PROVE  \E y : Quiet(c, y)
BY FailedQuiet DEF Crash, env, sched, slack

(* The session goes on, with what it knows. *)
LEMMA AdvanceQuiet ==
  ASSUME TInv, NEW c \in Creator, NEW y \in Session,
         tx' = [tx EXCEPT ![c] = y],
         UNCHANGED <<now, run, published, job, leader, event, handled, mapping, lapses>>,
         tx[c].pc \in {"user", "thread", "get", "insert"},
         y.pc \in {"thread", "get", "insert", "commit"},
         y.due = tx[c].due, y.cur = tx[c].cur, y.event = tx[c].event,
         c \notin Delivery => tx[c].pc \in Firing /\ y.pc \in Firing,
         y.pc = "commit" => ~QuotaReached
  PROVE  Quiet(c, y)
<1>1. Local(c, tx[c])
  BY SessionFacts
<1>2. c \in Sched => c \notin Delivery
  BY Disjoint
<1>3. Local(c, y)
  BY <1>1, <1>2 DEF Local, Claiming, OnJob, Firing
<1>4. QED
  BY <1>2, <1>3 DEF Quiet, HeldBy, Claiming

LEMMA InsertQuiet ==
  ASSUME TInv, NEW c \in Creator, InsertUser(c) \/ InsertQuota(c)
  PROVE  \E y : Quiet(c, y)
<1> USE DEF InsertUser, InsertQuota
<1>1. PICK row \in FirstUse, p \in {"thread", "get"} :
        /\ InsertFirst(c, row, p)
        /\ tx[c].pc \in {"user", "insert"}
        /\ p = "thread" <=> tx[c].pc = "user"
  BY DEF FirstUse
<1>2. UNCHANGED <<now, run, published, job, leader, event, handled, mapping, lapses>>
  BY DEF env, sched, slack, bounds
<1>3. CASE RaiseIntegrityError(c)
  BY <1>1, <1>2, <1>3, FailedQuiet
<1>4. CASE tx' = [tx EXCEPT ![c].pc = p, ![c].new = @ \cup {row}]
  <2> DEFINE y == [tx[c] EXCEPT !.pc = p, !.new = @ \cup {row}]
  <2>1. tx[c] \in Session /\ Local(c, tx[c])
    BY SessionFacts
  <2>2. /\ y \in Session /\ y.pc = p /\ y.due = tx[c].due /\ y.cur = tx[c].cur
        /\ y.event = tx[c].event
    BY <2>1 DEF Session, Phase
  <2>3. tx' = [tx EXCEPT ![c] = y]
    BY <1>4 DEF TInv, TypeOK
  <2> HIDE DEF y
  <2>4. c \notin Delivery => tx[c].pc \in Firing /\ y.pc \in Firing
    BY <1>1, <2>1, <2>2 DEF Local, Firing
  <2>5. QED
    BY <1>1, <1>2, <2>2, <2>3, <2>4, AdvanceQuiet
<1>5. QED
  BY <1>1, <1>3, <1>4 DEF InsertFirst

LEMMA GetQuotaQuiet ==
  ASSUME TInv, NEW c \in Creator, GetQuota(c)
  PROVE  \E y : Quiet(c, y)
<1>1. /\ UNCHANGED <<now, run, published, job, leader, event, handled, mapping, lapses>>
      /\ tx[c].pc = "get"
  BY DEF GetQuota, env, sched, slack, bounds
<1>2. tx[c] \in Session /\ Local(c, tx[c])
  BY SessionFacts
<1>3. CASE Raise(c) /\ c \in Sched
  <2> DEFINE y == [tx[c] EXCEPT !.pc = "pick", !.cur = NULL]
  <2>1. y \in Session /\ y.pc = "pick" /\ y.due = tx[c].due
    BY <1>2 DEF Session, Phase
  <2>2. tx' = [tx EXCEPT ![c] = y]
    BY <1>3 DEF Raise, TInv, TypeOK
  <2> HIDE DEF y
  <2>3. Local(c, y)
    BY <1>2, <2>1 DEF Local, Claiming, OnJob, Firing
  <2>4. Quiet(c, y)
    BY <1>1, <2>1, <2>2, <2>3 DEF Quiet, HeldBy, Firing, Claiming
  <2>5. QED
    BY <2>4
<1>4. CASE Raise(c) /\ c \notin Sched
  <2> DEFINE y == [Idle EXCEPT !.pc = "failed"]
  <2>1. y \in Session /\ y.pc = "failed" /\ y.due = {}
    BY IdleFacts DEF Phase
  <2>2. tx' = [tx EXCEPT ![c] = y]
    BY <1>4 DEF Raise, TInv, TypeOK
  <2> HIDE DEF y
  <2>3. QED
    BY <1>1, <2>1, <2>2, EndedQuiet
<1>5. ASSUME NEW p \in {"commit", "insert"}, Goto(c, p), p = "commit" => ~QuotaReached
      PROVE  \E y : Quiet(c, y)
  <2> DEFINE y == [tx[c] EXCEPT !.pc = p]
  <2>1. /\ y \in Session /\ y.pc = p /\ y.due = tx[c].due /\ y.cur = tx[c].cur
        /\ y.event = tx[c].event
    BY <1>2 DEF Session, Phase
  <2>2. tx' = [tx EXCEPT ![c] = y]
    BY <1>5 DEF Goto, TInv, TypeOK
  <2> HIDE DEF y
  <2>3. QED
    BY <1>1, <1>5, <2>1, <2>2, AdvanceQuiet DEF Firing
<1>6. QED
  BY <1>3, <1>4, <1>5 DEF GetQuota, CountRuns

(* Deliver, where it does not record the event at once *)
LEMMA DeliverQuiet ==
  ASSUME TInv, NEW d \in Delivery, NEW e \in Event, Deliver(d, e), ~RecordOnly(d, e)
  PROVE  \E y : Quiet(d, y)
<1>0. d \in Creator /\ d \notin Sched
  BY Disjoint
<1>1. tx[d] \in Session /\ Local(d, tx[d]) /\ tx[d].pc = "idle" /\ tx[d].due = {}
  BY <1>0, SessionFacts DEF Deliver, Local
<1>2. UNCHANGED <<now, run, published, job, leader, event, handled, mapping, lapses>>
  BY DEF Deliver, env, sched, bounds
<1>3. CASE Goto(d, "done")
  <2> DEFINE y == [tx[d] EXCEPT !.pc = "done"]
  <2>1. y \in Session /\ y.pc = "done" /\ y.due = {}
    BY <1>1 DEF Session, Phase
  <2>2. tx' = [tx EXCEPT ![d] = y]
    BY <1>0, <1>3 DEF Goto, TInv, TypeOK
  <2> HIDE DEF y
  <2>3. QED
    BY <1>0, <1>1, <1>2, <2>1, <2>2, EndedQuiet
<1>4. CASE /\ ~event[e]
           /\ tx' = [tx EXCEPT ![d].pc = IF "user" \in rows THEN "thread" ELSE "user",
                               ![d].event = e]
  <2> DEFINE p == IF "user" \in rows THEN "thread" ELSE "user"
             y == [tx[d] EXCEPT !.pc = p, !.event = e]
  <2>1. p \in {"thread", "user"}
    OBVIOUS
  <2>2. tx' = [tx EXCEPT ![d] = y]
    BY <1>0, <1>4 DEF TInv, TypeOK
  <2> HIDE DEF p
  <2>3. y \in Session /\ y.pc = p /\ y.due = {} /\ y.event = e
    BY <1>1, <2>1 DEF Session, Phase
  <2> HIDE DEF y
  <2>4. Local(d, y)
    BY <1>0, <2>1, <2>3 DEF Local
  <2>5. Claimed(y.event) = {} /\ ~event[y.event]
    BY <1>4, <2>3 DEF Deliver, Blocked
  <2>6. Quiet(d, y)
    BY <1>0, <1>1, <1>2, <2>1, <2>2, <2>3, <2>4, <2>5 DEF Quiet
  <2>7. QED
    BY <2>6
<1>5. QED
  BY <1>3, <1>4 DEF Deliver

(* get_thread_mapping, where it does not record the event at once *)
LEMMA LookupThreadQuiet ==
  ASSUME TInv, NEW d \in Delivery, LookupThread(d), ~RecordOnly(d, tx[d].event)
  PROVE  \E y : Quiet(d, y)
<1> DEFINE e == tx[d].event
           r == mapping[ThreadOf[e]]
<1>0. d \in Creator /\ d \notin Sched
  BY Disjoint
<1>1. tx[d] \in Session /\ Local(d, tx[d]) /\ tx[d].pc = "thread"
  BY <1>0, SessionFacts DEF LookupThread
<1>2. UNCHANGED <<now, run, published, job, leader, event, handled, mapping, lapses>>
  BY DEF LookupThread, env, sched, bounds
<1>3. e \in Event /\ ThreadOf[e] \in Thread
  BY <1>1 DEF Local, Claiming, Thread
<1>4. CASE Goto(d, "get")
  <2> DEFINE y == [tx[d] EXCEPT !.pc = "get"]
  <2>1. /\ y \in Session /\ y.pc = "get" /\ y.due = tx[d].due /\ y.cur = tx[d].cur
        /\ y.event = tx[d].event
    BY <1>1 DEF Session, Phase
  <2>2. tx' = [tx EXCEPT ![d] = y]
    BY <1>0, <1>4 DEF Goto, TInv, TypeOK
  <2> HIDE DEF y
  <2>3. QED
    BY <1>0, <1>1, <1>2, <2>1, <2>2, AdvanceQuiet
<1>5. CASE /\ r # NULL
           /\ tx' = [tx EXCEPT ![d].pc = "append", ![d].run = r,
                               ![d].seen = IF run[r].status \in Waiting THEN run[r].version
                                           ELSE NULL]
  <2> DEFINE v == IF run[r].status \in Waiting THEN run[r].version ELSE NULL
             y == [tx[d] EXCEPT !.pc = "append", !.run = r, !.seen = v]
  <2>1. r \in Run /\ run[r] # NULL /\ run[r] \in RunRow
    BY <1>3, <1>5 DEF TInv, TypeOK, Mapped
  <2>2. /\ run[r].version \in 0 .. MaxMoves + 1
        /\ v \in 0 .. MaxMoves + 1 \cup {NULL}
        /\ v # NULL => v = run[r].version /\ run[r].status = "waiting"
    BY <2>1 DEF RunRow, Waiting
  <2>3. tx' = [tx EXCEPT ![d] = y]
    BY <1>0, <1>5 DEF TInv, TypeOK
  <2> HIDE DEF v, r
  <2>4. /\ y \in Session /\ y.pc = "append" /\ y.due = tx[d].due /\ y.event = tx[d].event
        /\ y.run = r /\ y.seen = v
    BY <1>1, <2>1, <2>2 DEF Session, Phase
  <2> HIDE DEF y
  <2>5. v # NULL => v <= run[r].version
    BY <2>2
  <2>6. Local(d, y)
    BY <1>0, <1>1, <1>3, <2>1, <2>2, <2>4, <2>5 DEF Local
  <2>7. Quiet(d, y)
    BY <1>0, <1>1, <1>2, <2>3, <2>4, <2>6 DEF Quiet, Claiming
  <2>8. QED
    BY <2>7
<1>6. QED
  BY <1>4, <1>5 DEF LookupThread

(* The unique mapping or the version fence refuses. *)
LEMMA RefusedQuiet ==
  ASSUME TInv, NEW d \in Delivery, CommitThread(d) \/ AppendMessage(d), UNCHANGED handled
  PROVE  \E y : Quiet(d, y)
<1> DEFINE y == [Idle EXCEPT !.pc = "failed"]
<1>0. d \in Creator /\ d \notin Sched
  BY Disjoint
<1>1. tx[d] \in Session /\ Local(d, tx[d]) /\ tx[d].pc \in {"commit", "append"}
  BY <1>0, SessionFacts DEF CommitThread, AppendMessage
<1>2. tx[d].event \in Event /\ handled[tx[d].event] \in Nat
  BY <1>1 DEF Local, Claiming, TInv, TypeOK
<1>3. ~Accept(d)
  BY <1>2 DEF Accept, TInv, TypeOK
<1>4. /\ RaiseIntegrityError(d) \/ Raise(d)
      /\ UNCHANGED <<now, run, published, job, leader, event, handled, mapping, lapses>>
  BY <1>3 DEF CommitThread, AppendMessage, env, sched, slack, bounds
<1>5. y \in Session /\ y.pc = "failed" /\ y.due = {}
  BY IdleFacts DEF Phase
<1>6. tx' = [tx EXCEPT ![d] = y]
  BY <1>0, <1>4 DEF RaiseIntegrityError, Raise, TInv, TypeOK
<1> HIDE DEF y
<1>7. QED
  BY <1>0, <1>1, <1>4, <1>5, <1>6, EndedQuiet

LEMMA PickJobQuiet ==
  ASSUME TInv, NEW s \in Sched, PickJob(s)
  PROVE  \E y : Quiet(s, y)
<1>0. s \in Creator /\ s \notin Delivery
  BY Disjoint
<1>1. PICK d \in tx[s].due : tx' = [tx EXCEPT ![s].pc = "get", ![s].cur = d, ![s].due = @ \ {d}]
  BY DEF PickJob
<1> DEFINE y == [tx[s] EXCEPT !.pc = "get", !.cur = d, !.due = @ \ {d}]
<1>2. tx[s] \in Session /\ Local(s, tx[s]) /\ tx[s].pc = "pick"
  BY <1>0, SessionFacts DEF PickJob
<1>3. d \in Due
  BY <1>2 DEF Session
<1>4. y \in Session /\ y.pc = "get" /\ y.cur = d /\ y.due = tx[s].due \ {d}
  BY <1>2, <1>3 DEF Session, Phase
<1>5. tx' = [tx EXCEPT ![s] = y]
  BY <1>0, <1>1 DEF TInv, TypeOK
<1> HIDE DEF y
<1>6. Local(s, y)
  BY <1>0, <1>2, <1>3, <1>4 DEF Local, Claiming, OnJob, Firing
<1>7. \A j \in Job, t \in Time : HeldBy(y, j, t) => HeldBy(tx[s], j, t)
  BY <1>4 DEF HeldBy
<1>8. Quiet(s, y)
  BY <1>0, <1>2, <1>4, <1>5, <1>6, <1>7 DEF Quiet, PickJob, env, sched, slack, bounds
<1>9. QED
  BY <1>8
-----------------------------------------------------------------------------
(* Rows are not deleted, a run that changes gets a new version, time does  *)
(* not go back: what sessions know stays true.                             *)
Kept == /\ \A r \in Run : run[r] # NULL =>
             /\ run'[r] # NULL /\ run[r].version <= run'[r].version
             /\ run'[r].version = run[r].version => run'[r] = run[r]
        /\ \A j \in Job : job[j] # NULL => job'[j] # NULL
        /\ now <= now'

LEMMA LocalKept ==
  ASSUME TInv, Kept, run' \in [Run -> RunRow \cup {NULL}], now' \in Nat,
         NEW c \in Creator, NEW x \in Session, Local(c, x)
  PROVE  Local(c, x)'
<1>1. ASSUME x.pc = "append", x.seen # NULL
      PROVE  /\ x.seen <= run'[x.run].version
             /\ x.seen = run'[x.run].version => run'[x.run].status = "waiting"
  <2>1. x.run \in Run /\ run[x.run] # NULL /\ run[x.run] \in RunRow
    BY <1>1 DEF Local, TInv, TypeOK
  <2>2. run'[x.run] \in RunRow
    BY <2>1 DEF Kept
  <2>3. run[x.run].version \in Nat /\ run'[x.run].version \in Nat /\ x.seen \in Nat
    BY <1>1, <2>1, <2>2 DEF RunRow, Session
  <2>4. QED
    BY <1>1, <2>1, <2>3 DEF Local, Kept
<1>2. \A d \in Due : d.slot \in Nat /\ d.job \in Job
  BY DEF Due, Time
<1>3. now \in Nat /\ x.due \subseteq Due
  BY DEF TInv, TypeOK, Time, Session
<1>4. QED
  BY <1>1, <1>2, <1>3 DEF Local, Kept, OnJob

(* One session is replaced. *)
LEMMA SessionStep ==
  ASSUME TInv, Kept, run' \in [Run -> RunRow \cup {NULL}], now' \in Nat,
         NEW c \in Creator, NEW y \in Session, tx' = [tx EXCEPT ![c] = y], Local(c, y)'
  PROVE  tx' \in [Creator -> Session] /\ Locals'
<1>1. /\ tx' \in [Creator -> Session] /\ tx'[c] = y
      /\ \A b \in Creator : b # c => tx'[b] = tx[b]
  BY DEF TInv, TypeOK
<1>2. ASSUME NEW b \in Creator PROVE Local(b, tx[b])'
  <2>1. PICK x \in Session : x = tx'[b] /\ (b = c => x = y) /\ (b # c => x = tx[b])
    BY <1>1
  <2>2. Local(b, x)'
    <3>1. CASE b = c
      BY <2>1, <3>1
    <3>2. CASE b # c
      <4>1. Local(b, x)
        BY <2>1, <3>2, SessionFacts
      <4>2. QED
        BY <4>1, LocalKept
    <3>3. QED
      BY <3>1, <3>2
  <2>3. QED
    BY <2>1, <2>2 DEF Local
<1>3. QED
  BY <1>1, <1>2 DEF Locals

(* The sessions stay as they are. *)
LEMMA SessionsKept ==
  ASSUME TInv, Kept, run' \in [Run -> RunRow \cup {NULL}], now' \in Nat, UNCHANGED tx
  PROVE  tx' \in [Creator -> Session] /\ Locals'
<1>1. ASSUME NEW b \in Creator PROVE Local(b, tx[b])'
  <2>1. PICK x \in Session : x = tx'[b] /\ x = tx[b] /\ Local(b, x)
    BY SessionFacts
  <2>2. Local(b, x)'
    BY <2>1, LocalKept
  <2>3. QED
    BY <2>1, <2>2 DEF Local
<1>2. QED
  BY <1>1 DEF Locals, TInv, TypeOK
-----------------------------------------------------------------------------
(* The steps that are not quiet.                                           *)
(*                                                                         *)
(* Delivery d ends with the event recorded; nobody else has claimed it.    *)
Recorded(d, e, y) ==
  /\ y \in Session /\ tx' = [tx EXCEPT ![d] = y] /\ y.pc = "done" /\ y.due = {}
  /\ tx[d].pc # "publish"
  /\ e \in Event /\ event' = [event EXCEPT ![e] = TRUE]
  /\ Claimed(e) = {} \/ (tx[d].pc \in Claiming /\ tx[d].event = e)
  /\ UNCHANGED <<now, run, published, job, leader, handled, mapping, lapses, faults>>

(* The text of the event that d has claimed reaches a run. *)
Accepted(d) ==
  /\ tx[d].pc \in Claiming
  /\ event' = [event EXCEPT ![tx[d].event] = TRUE]
  /\ handled' = [handled EXCEPT ![tx[d].event] = @ + 1]

(* Creator c commits run r and goes on to publish it. *)
Committed(c, y, r, origin) ==
  /\ y \in Session /\ tx' = [tx EXCEPT ![c] = y]
  /\ tx[c].pc = "commit" /\ y.pc = "publish" /\ y.run = r
  /\ y.due = tx[c].due /\ y.cur = tx[c].cur
  /\ r \in Run /\ origin \in Origin /\ NewRun(r, origin)
  /\ UNCHANGED <<now, published, leader, lapses, faults>>

LEMMA RecordOnlyEffect ==
  ASSUME TInv, NEW d \in Delivery, NEW e \in Event, RecordOnly(d, e),
         Deliver(d, e) \/ (LookupThread(d) /\ e = tx[d].event)
  PROVE  \E y : Recorded(d, e, y)
<1> DEFINE y == [Idle EXCEPT !.pc = "done"]
<1>1. y \in Session /\ y.pc = "done" /\ y.due = {}
  BY IdleFacts DEF Phase
<1>2. tx' = [tx EXCEPT ![d] = y] /\ event' = [event EXCEPT ![e] = TRUE]
  BY DEF RecordOnly
<1> HIDE DEF y
<1>3. Claimed(e) = {} \/ (tx[d].pc \in Claiming /\ tx[d].event = e)
  BY DEF Deliver, Blocked, LookupThread, Claiming
<1>4. Recorded(d, e, y)
  BY <1>1, <1>2, <1>3 DEF Recorded, Deliver, LookupThread, env, sched, bounds
<1>5. QED
  BY <1>4

LEMMA CommitRequestEffect ==
  ASSUME TInv, NEW q \in Request, CommitRequest(q)
  PROVE  /\ \E y, r : Committed(q, y, r, [kind |-> "api", of |-> q])
         /\ UNCHANGED <<job, event, handled, mapping>>
<1>0. q \in Creator /\ tx[q] \in Session /\ tx[q].pc = "commit"
  BY Disjoint, SessionFacts DEF CommitRequest
<1>1. PICK r \in Run : /\ NewRun(r, [kind |-> "api", of |-> q])
                       /\ tx' = [tx EXCEPT ![q].pc = "publish", ![q].run = r, ![q].new = {}]
  BY DEF CommitRequest
<1> DEFINE y == [tx[q] EXCEPT !.pc = "publish", !.run = r, !.new = {}]
<1>2. y \in Session /\ y.pc = "publish" /\ y.run = r /\ y.due = tx[q].due /\ y.cur = tx[q].cur
  BY <1>0 DEF Session, Phase
<1>3. tx' = [tx EXCEPT ![q] = y]
  BY <1>0, <1>1 DEF TInv, TypeOK
<1> HIDE DEF y
<1>4. [kind |-> "api", of |-> q] \in Origin
  BY DEF Origin
<1>5. Committed(q, y, r, [kind |-> "api", of |-> q])
  BY <1>0, <1>1, <1>2, <1>3, <1>4 DEF Committed, CommitRequest, env, sched, slack, bounds
<1>6. QED
  BY <1>5 DEF CommitRequest, sched, slack

LEMMA CommitThreadEffect ==
  ASSUME TInv, NEW d \in Delivery, CommitThread(d), ~UNCHANGED handled
  PROVE  LET t == ThreadOf[tx[d].event]
         IN \E y, r : /\ Committed(d, y, r, [kind |-> "slack", of |-> t])
                      /\ mapping' = [mapping EXCEPT ![t] = r]
                      /\ t \in Thread /\ mapping[t] = NULL
                      /\ Accepted(d) /\ UNCHANGED job
<1> DEFINE t == ThreadOf[tx[d].event]
<1>0. d \in Creator /\ tx[d] \in Session /\ Local(d, tx[d]) /\ tx[d].pc = "commit"
  BY Disjoint, SessionFacts DEF CommitThread
<1>1. tx[d].event \in Event /\ t \in Thread
  BY <1>0 DEF Local, Claiming, Thread
<1>2. PICK r \in Run :
         /\ NewRun(r, [kind |-> "slack", of |-> t])
         /\ mapping' = [mapping EXCEPT ![t] = r]
         /\ tx' = [tx EXCEPT ![d].pc = "publish", ![d].run = r, ![d].new = {}, ![d].event = NULL]
         /\ mapping[t] = NULL /\ Accept(d)
  BY DEF CommitThread, ThreadTaken, slack
<1> DEFINE y == [tx[d] EXCEPT !.pc = "publish", !.run = r, !.new = {}, !.event = NULL]
<1>3. y \in Session /\ y.pc = "publish" /\ y.run = r /\ y.due = tx[d].due /\ y.cur = tx[d].cur
  BY <1>0 DEF Session, Phase
<1>4. tx' = [tx EXCEPT ![d] = y]
  BY <1>0, <1>2 DEF TInv, TypeOK
<1> HIDE DEF y
<1>5. [kind |-> "slack", of |-> t] \in Origin
  BY <1>1 DEF Origin
<1>6. Committed(d, y, r, [kind |-> "slack", of |-> t])
  BY <1>0, <1>2, <1>3, <1>4, <1>5 DEF Committed, CommitThread, env, sched, bounds
<1>7. Accepted(d) /\ UNCHANGED job
  BY <1>0, <1>2 DEF Accepted, Accept, Claiming, CommitThread, sched
<1>8. QED
  BY <1>1, <1>2, <1>6, <1>7

LEMMA CommitJobEffect ==
  ASSUME TInv, NEW s \in Sched, CommitJob(s)
  PROVE  LET d == tx[s].cur
         IN /\ \E y, r : Committed(s, y, r, [kind |-> "job", of |-> <<d.job, d.slot>>])
            /\ d \in Due /\ d.job \in Job /\ d.slot \in Time /\ d.slot <= now
            /\ job' \in [Job -> JobRow \cup {NULL}]
            /\ job'[d.job] # NULL /\ job'[d.job].next = now + 1
            /\ \A j \in Job : j # d.job => job'[j] = job[j]
            /\ UNCHANGED <<event, handled, mapping>>
<1> DEFINE d == tx[s].cur
           origin == [kind |-> "job", of |-> <<d.job, d.slot>>]
<1>0. s \in Creator /\ tx[s] \in Session /\ Local(s, tx[s]) /\ tx[s].pc = "commit"
  BY Disjoint, SessionFacts DEF CommitJob
<1>1. d \in Due /\ job[d.job] # NULL /\ d.slot <= now
  BY <1>0 DEF Local, OnJob, Firing
<1>2. d.job \in Job /\ d.slot \in Time /\ job[d.job] \in JobRow
  BY <1>1 DEF Due, TInv, TypeOK
<1>3. PICK r \in Run : /\ NewRun(r, origin)
                       /\ tx' = [tx EXCEPT ![s].pc = "publish", ![s].run = r, ![s].new = {}]
  BY DEF CommitJob
<1> DEFINE y == [tx[s] EXCEPT !.pc = "publish", !.run = r, !.new = {}]
<1>4. y \in Session /\ y.pc = "publish" /\ y.run = r /\ y.due = tx[s].due /\ y.cur = tx[s].cur
  BY <1>0 DEF Session, Phase
<1>5. tx' = [tx EXCEPT ![s] = y]
  BY <1>0, <1>3 DEF TInv, TypeOK
<1>6. origin \in Origin
  BY <1>2 DEF Origin
<1> HIDE DEF y, origin
<1>7. Committed(s, y, r, origin)
  BY <1>0, <1>3, <1>4, <1>5, <1>6 DEF Committed, CommitJob, env, slack, bounds
<1> DEFINE row == [job[d.job] EXCEPT !.next = now + 1,
                                     !.status = IF d.status = "firing" THEN @ ELSE "firing"]
<1>8. now + 1 \in Time
  BY IngressAssumption DEF TInv, TypeOK, Time
<1>9. row \in JobRow /\ row.next = now + 1
  BY <1>2, <1>8 DEF JobRow
<1>10. job' = [job EXCEPT ![d.job] = row] /\ UNCHANGED <<event, handled, mapping>>
  BY <1>2 DEF CommitJob, NextRunTime, TInv, TypeOK, slack
<1>11. row # NULL
  BY <1>9, IngressAssumption
<1> HIDE DEF row
<1>12. /\ job' \in [Job -> JobRow \cup {NULL}]
       /\ job'[d.job] # NULL /\ job'[d.job].next = now + 1
       /\ \A j \in Job : j # d.job => job'[j] = job[j]
  BY <1>2, <1>9, <1>10, <1>11 DEF TInv, TypeOK
<1>13. QED
  BY <1>1, <1>2, <1>7, <1>10, <1>12 DEF origin

(* A message for a run that exists; a waiting run is resumed. *)
Appended(d, y) ==
  /\ y \in Session /\ tx' = [tx EXCEPT ![d] = y]
  /\ tx[d].pc = "append" /\ y.pc = "publish" /\ y.run = tx[d].run /\ y.due = tx[d].due
  /\ \/ UNCHANGED run
     \/ /\ run[y.run].status = "waiting" /\ run[y.run].version <= MaxMoves
        /\ run' = [run EXCEPT ![y.run].status = "running", ![y.run].version = @ + 1]
  /\ UNCHANGED <<now, published, job, leader, mapping, lapses, faults>>

LEMMA AppendEffect ==
  ASSUME TInv, NEW d \in Delivery, AppendMessage(d), ~UNCHANGED handled
  PROVE  (\E y : Appended(d, y)) /\ Accepted(d)
<1>0. d \in Creator /\ tx[d] \in Session /\ Local(d, tx[d]) /\ tx[d].pc = "append"
  BY Disjoint, SessionFacts DEF AppendMessage
<1> DEFINE r == tx[d].run
           y == [tx[d] EXCEPT !.pc = "publish", !.new = {}, !.seen = NULL, !.event = NULL]
<1>1. /\ tx[d].seen # NULL => run[r].version = tx[d].seen /\ run[r].version <= MaxMoves
      /\ run' = IF tx[d].seen # NULL
                THEN [run EXCEPT ![r].status = "running", ![r].version = @ + 1] ELSE run
      /\ tx' = [tx EXCEPT ![d].pc = "publish", ![d].new = {}, ![d].seen = NULL,
                          ![d].event = NULL]
      /\ Accept(d)
  BY DEF AppendMessage
<1>2. y \in Session /\ y.pc = "publish" /\ y.run = r /\ y.due = tx[d].due
  BY <1>0 DEF Session, Phase
<1>3. tx' = [tx EXCEPT ![d] = y]
  BY <1>0, <1>1 DEF TInv, TypeOK
<1> HIDE DEF y
<1>4. tx[d].seen # NULL => run[r].status = "waiting"
  BY <1>0, <1>1 DEF Local
<1>5. Appended(d, y)
  BY <1>0, <1>1, <1>2, <1>3, <1>4 DEF Appended, AppendMessage, env, sched, bounds
<1>6. Accepted(d)
  BY <1>0, <1>1 DEF Accepted, Accept, Claiming
<1>7. QED
  BY <1>5, <1>6

(* publish_run_standalone, or a crash before it: the run is on the queue   *)
(* or a fault was counted.                                                 *)
Sent(c, y) ==
  /\ y \in Session /\ tx' = [tx EXCEPT ![c] = y] /\ tx[c].pc = "publish"
  /\ y.pc \in {"done", "failed", "settle", "dead"}
  /\ y.pc = "settle" => c \in Sched /\ y.cur = tx[c].cur
  /\ y.due \subseteq tx[c].due /\ (y.pc = "dead" => y.due = {})
  /\ \/ published' = [published EXCEPT ![tx[c].run] = TRUE] /\ UNCHANGED faults
     \/ UNCHANGED published /\ faults' = faults + 1
  /\ UNCHANGED <<now, run, job, leader, event, handled, mapping, lapses>>

LEMMA PublishEffect ==
  ASSUME TInv, NEW c \in Creator,
         PublishRequest(c) \/ PublishSlack(c) \/ (PublishJob(c) /\ c \in Sched)
  PROVE  \E y : Sent(c, y)
<1>0. tx[c] \in Session
  BY SessionFacts
<1>1. PICK phase \in {"done", "settle"} : Publish(c, phase) /\ (phase = "settle" => c \in Sched)
  BY DEF PublishRequest, PublishSlack, PublishJob
<1>2. PICK p \in {"done", "failed", "settle"} :
         /\ tx' = [tx EXCEPT ![c].pc = p, ![c].run = NULL]
         /\ p = "settle" => c \in Sched
         /\ \/ published' = [published EXCEPT ![tx[c].run] = TRUE] /\ UNCHANGED faults
            \/ UNCHANGED published /\ faults' = faults + 1
  <2>1. CASE UNCHANGED faults /\ published' = [published EXCEPT ![tx[c].run] = TRUE]
             /\ tx' = [tx EXCEPT ![c].pc = phase, ![c].run = NULL]
    BY <1>1, <2>1
  <2>2. CASE /\ UNCHANGED published /\ faults' = faults + 1
             /\ tx' = [tx EXCEPT ![c].pc = IF c \in Sched THEN phase ELSE "failed", ![c].run = NULL]
    BY <1>1, <2>2
  <2>3. QED
    BY <1>1, <2>1, <2>2 DEF Publish
<1> DEFINE y == [tx[c] EXCEPT !.pc = p, !.run = NULL]
<1>3. y \in Session /\ y.pc = p /\ y.cur = tx[c].cur /\ y.due = tx[c].due
  BY <1>0, <1>2 DEF Session, Phase
<1>4. tx' = [tx EXCEPT ![c] = y]
  BY <1>2 DEF TInv, TypeOK
<1> HIDE DEF y
<1>5. UNCHANGED <<now, run, job, leader, event, handled, mapping, lapses>> /\ tx[c].pc = "publish"
  BY <1>1 DEF PublishRequest, PublishSlack, PublishJob, Publish, env, sched, slack
<1>6. Sent(c, y)
  BY <1>2, <1>3, <1>4, <1>5 DEF Sent
<1>7. QED
  BY <1>6

LEMMA CrashEffect ==
  ASSUME TInv, NEW c \in Creator, Crash(c), tx[c].pc = "publish"
  PROVE  \E y : Sent(c, y)
<1> DEFINE p == IF c \in Sched THEN "dead" ELSE "failed"
           y == [Idle EXCEPT !.pc = p]
<1>1. p \in Phase /\ p \in {"dead", "failed"}
  BY DEF Phase
<1>2. y \in Session /\ y.pc = p /\ y.due = {}
  BY <1>1, IdleFacts
<1>3. tx' = [tx EXCEPT ![c] = y]
  BY DEF Crash, RaiseIntegrityError
<1> HIDE DEF y, p
<1>4. Sent(c, y)
  BY <1>1, <1>2, <1>3 DEF Sent, Crash, env, sched, slack
<1>5. QED
  BY <1>4

(* The leader's tick begins with the slots that are due, and settles a job. *)
Elected(s, y) ==
  /\ y \in Session /\ tx' = [tx EXCEPT ![s] = y] /\ tx[s].pc = "idle"
  /\ y.pc = "pick" /\ y.due = DueJobs
  /\ leader = NULL /\ leader' = s
  /\ UNCHANGED <<now, run, published, job, event, handled, mapping, lapses, faults>>

Settled(s, y) ==
  /\ y \in Session /\ tx' = [tx EXCEPT ![s] = y] /\ tx[s].pc = "settle"
  /\ y.pc = "pick" /\ y.due = tx[s].due
  /\ job' \in [Job -> JobRow \cup {NULL}]
  /\ \A j \in Job : (job'[j] = NULL <=> job[j] = NULL) /\ job'[j].next = job[j].next
  /\ UNCHANGED <<now, run, published, leader, event, handled, mapping, lapses, faults>>

LEMMA AcquireEffect ==
  ASSUME TInv, NEW s \in Sched, AcquireLeader(s)
  PROVE  \E y : Elected(s, y)
<1> DEFINE y == [tx[s] EXCEPT !.pc = "pick", !.due = DueJobs]
<1>1. s \in Creator /\ tx[s] \in Session
  BY Disjoint, SessionFacts
<1>2. DueJobs \subseteq Due
  BY DEF DueJobs
<1>3. y \in Session /\ y.pc = "pick" /\ y.due = DueJobs
  BY <1>1, <1>2 DEF Session, Phase
<1>4. tx' = [tx EXCEPT ![s] = y]
  BY <1>1 DEF AcquireLeader, TInv, TypeOK
<1> HIDE DEF y
<1>5. Elected(s, y)
  BY <1>3, <1>4 DEF Elected, AcquireLeader, env, slack, bounds
<1>6. QED
  BY <1>5

LEMMA SettleEffect ==
  ASSUME TInv, NEW s \in Sched, SettleJob(s)
  PROVE  \E y : Settled(s, y)
<1> DEFINE y == [tx[s] EXCEPT !.pc = "pick", !.cur = NULL]
           k == tx[s].cur.job
           row == [job[k] EXCEPT !.status = "idle"]
<1>1. s \in Creator /\ tx[s] \in Session /\ Local(s, tx[s]) /\ tx[s].pc = "settle"
  BY Disjoint, SessionFacts DEF SettleJob
<1>2. y \in Session /\ y.pc = "pick" /\ y.due = tx[s].due
  BY <1>1 DEF Session, Phase
<1>3. tx' = [tx EXCEPT ![s] = y]
  BY <1>1 DEF SettleJob, TInv, TypeOK
<1> HIDE DEF y
<1>4. tx[s].cur \in Due /\ job[k] # NULL
  BY <1>1 DEF Local, OnJob
<1>5. k \in Job /\ job[k] \in JobRow
  BY <1>4 DEF Due, TInv, TypeOK
<1>6. row \in JobRow /\ row.next = job[k].next
  BY <1>5 DEF JobRow
<1>7. row # NULL /\ job' = [job EXCEPT ![k] = row]
  BY <1>5, <1>6, IngressAssumption DEF SettleJob, TInv, TypeOK
<1> HIDE DEF row, k
<1>8. /\ job' \in [Job -> JobRow \cup {NULL}]
      /\ \A j \in Job : (job'[j] = NULL <=> job[j] = NULL) /\ job'[j].next = job[j].next
  BY <1>4, <1>5, <1>6, <1>7 DEF TInv, TypeOK
<1>9. Settled(s, y)
  BY <1>1, <1>2, <1>3, <1>8 DEF Settled, SettleJob, env, slack, bounds
<1>10. QED
  BY <1>9

(* POST and PATCH of a job: its next slot is still to come. *)
LEMMA SaveJobEffect ==
  ASSUME TInv, NEW k \in Job, NEW enabled \in BOOLEAN, SaveJob(k, enabled)
  PROVE  /\ job' \in [Job -> JobRow \cup {NULL}]
         /\ \A j \in Job : job[j] # NULL => job'[j] # NULL
         /\ \A j \in Job : job'[j] # NULL =>
              \/ job[j] # NULL /\ job'[j].next = job[j].next
              \/ job'[j].next \in {now + 1, NULL}
<1>1. now + 1 \in Time
  BY IngressAssumption DEF TInv, TypeOK, Time
<1>2. RefreshedJob(enabled) \in JobRow /\ RefreshedJob(enabled).next \in {now + 1, NULL}
  BY <1>1 DEF RefreshedJob, JobRow, NextRunTime
<1>3. RefreshedJob(enabled) # NULL
  BY <1>2, IngressAssumption
<1>4. QED
  BY <1>2, <1>3 DEF SaveJob, TInv, TypeOK

(* Workers, users and the API: a new version with a status that follows. *)
LEMMA MoveRunEffect ==
  ASSUME TInv, NEW r \in Run, NEW status \in Status, MoveRun(r, status)
  PROVE  /\ run' \in [Run -> RunRow \cup {NULL}]
         /\ run[r] # NULL /\ run[r] \in RunRow /\ run'[r] \in RunRow
         /\ run'[r].version = run[r].version + 1 /\ run'[r].origin = run[r].origin
         /\ run[r].status # "terminal"
         /\ \A q \in Run : q # r => run'[q] = run[q]
<1> DEFINE row == [run[r] EXCEPT !.status = status, !.version = @ + 1]
<1>1. run[r] # NULL /\ run[r] \in RunRow /\ run[r].version < MaxMoves
  BY DEF MoveRun, TInv, TypeOK
<1>0. run[r].version + 1 \in 0 .. MaxMoves + 1
  <2>1. run[r].version \in 0 .. MaxMoves + 1
    BY <1>1 DEF RunRow
  <2>2. QED
    BY <1>1, <2>1, IngressAssumption
<1>2. /\ row \in RunRow /\ row.version = run[r].version + 1 /\ row.origin = run[r].origin
  BY <1>0, <1>1 DEF RunRow
<1>3. run' = [run EXCEPT ![r] = row] /\ run[r].status # "terminal"
  BY DEF MoveRun, TInv, TypeOK
<1> HIDE DEF row
<1>4. QED
  BY <1>1, <1>2, <1>3 DEF TInv, TypeOK
-----------------------------------------------------------------------------
(* Every step is quiet or one of the others. *)
LEMMA Cases ==
  ASSUME TInv, Next
  PROVE  \/ \E c \in Creator, y \in Session : Quiet(c, y)
         \/ \E d \in Delivery, e \in Event, y \in Session : Recorded(d, e, y)
         \/ \E q \in Request, y \in Session, r \in Run :
              /\ Committed(q, y, r, [kind |-> "api", of |-> q])
              /\ UNCHANGED <<job, event, handled, mapping>>
         \/ \E d \in Delivery : CommitThread(d) /\ ~UNCHANGED handled
         \/ \E s \in Sched : CommitJob(s)
         \/ \E d \in Delivery, y \in Session : Appended(d, y) /\ Accepted(d)
         \/ \E c \in Creator, y \in Session : Sent(c, y)
         \/ \E s \in Sched, y \in Session : Elected(s, y) \/ Settled(s, y)
         \/ LeaderExpires
         \/ \E j \in Job, enabled \in BOOLEAN : SaveJob(j, enabled)
         \/ \E r \in Run, status \in Status : MoveRun(r, status)
         \/ NewDay \/ TimePasses
<1>0. /\ \A c, y : Quiet(c, y) => y \in Session
      /\ \A c, y : Sent(c, y) => y \in Session
      /\ \A c, y : Elected(c, y) \/ Settled(c, y) => y \in Session
      /\ \A d, y : Appended(d, y) => y \in Session
      /\ \A d, e, y : Recorded(d, e, y) => y \in Session
      /\ \A c, y, r, o : Committed(c, y, r, o) => y \in Session /\ r \in Run
  BY DEF Quiet, Sent, Elected, Settled, Appended, Recorded, Committed
<1>1. CASE \E q \in Request : StartRequest(q) \/ ServeRequest(q)
  <2>1. PICK q \in Request : StartRequest(q) \/ ServeRequest(q)
    BY <1>1
  <2>2. q \in Creator
    BY Disjoint
  <2>3. CASE StartRequest(q) \/ GetQuota(q) \/ InsertQuota(q)
    BY <1>0, <2>2, <2>3, StartRequestQuiet, GetQuotaQuiet, InsertQuiet
  <2>4. CASE CommitRequest(q)
    BY <1>0, <2>4, CommitRequestEffect
  <2>5. CASE PublishRequest(q)
    BY <1>0, <2>2, <2>5, PublishEffect
  <2>6. QED
    BY <2>1, <2>3, <2>4, <2>5 DEF ServeRequest
<1>2. ASSUME NEW d \in Delivery, NEW e \in Event, Deliver(d, e)
      PROVE  \/ \E c \in Creator, y \in Session : Quiet(c, y)
             \/ \E b \in Delivery, f \in Event, y \in Session : Recorded(b, f, y)
  BY <1>0, <1>2, DeliverQuiet, RecordOnlyEffect, Disjoint
<1>3. ASSUME NEW d \in Delivery, RefuseDelivery(d) \/ IgnorePayload(d) \/ ServeDelivery(d)
      PROVE  \/ \E c \in Creator, y \in Session : Quiet(c, y)
             \/ \E b \in Delivery, f \in Event, y \in Session : Recorded(b, f, y)
             \/ \E b \in Delivery : CommitThread(b) /\ ~UNCHANGED handled
             \/ \E b \in Delivery, y \in Session : Appended(b, y) /\ Accepted(b)
             \/ \E c \in Creator, y \in Session : Sent(c, y)
  <2>1. d \in Creator
    BY Disjoint
  <2>2. CASE RefuseDelivery(d) \/ IgnorePayload(d) \/ InsertUser(d) \/ GetQuota(d) \/ InsertQuota(d)
    BY <1>0, <2>1, <2>2, RefuseQuiet, GetQuotaQuiet, InsertQuiet
  <2>3. CASE LookupThread(d)
    <3>1. tx[d].event \in Event
      BY <2>1, <2>3, SessionFacts DEF LookupThread, Local, Claiming
    <3>2. QED
      BY <1>0, <2>1, <2>3, <3>1, LookupThreadQuiet, RecordOnlyEffect
  <2>4. CASE (CommitThread(d) \/ AppendMessage(d)) /\ UNCHANGED handled
    BY <1>0, <2>1, <2>4, RefusedQuiet
  <2>5. CASE CommitThread(d) /\ ~UNCHANGED handled
    BY <2>5
  <2>6. CASE AppendMessage(d) /\ ~UNCHANGED handled
    BY <1>0, <2>6, AppendEffect
  <2>7. CASE PublishSlack(d)
    BY <1>0, <2>1, <2>7, PublishEffect
  <2>8. QED
    BY <1>3, <2>2, <2>3, <2>4, <2>5, <2>6, <2>7 DEF ServeDelivery
<1>4. ASSUME NEW s \in Sched, Scheduler(s)
      PROVE  \/ \E c \in Creator, y \in Session : Quiet(c, y)
             \/ \E b \in Sched : CommitJob(b)
             \/ \E c \in Creator, y \in Session : Sent(c, y)
             \/ \E b \in Sched, y \in Session : Elected(b, y) \/ Settled(b, y)
  <2>1. s \in Creator
    BY Disjoint
  <2>2. CASE PickJob(s) \/ EndTick(s) \/ GetQuota(s) \/ InsertQuota(s)
    BY <1>0, <2>1, <2>2, PickJobQuiet, RestartQuiet, GetQuotaQuiet, InsertQuiet
  <2>3. CASE AcquireLeader(s) \/ SettleJob(s)
    BY <1>0, <2>3, AcquireEffect, SettleEffect
  <2>4. CASE PublishJob(s)
    BY <1>0, <2>1, <2>4, PublishEffect
  <2>5. QED
    BY <1>4, <2>2, <2>3, <2>4 DEF Scheduler
<1>5. ASSUME NEW c \in Creator, Crash(c) \/ NextRequest(c)
      PROVE  \/ \E b \in Creator, y \in Session : Quiet(b, y)
             \/ \E b \in Creator, y \in Session : Sent(b, y)
  BY <1>0, <1>5, CrashQuiet, CrashEffect, RestartQuiet
<1>6. QED
  BY <1>1, <1>2, <1>3, <1>4, <1>5 DEF Next

(* Variables of simple types, and the bounds. *)
LEMMA Simple ==
  ASSUME TInv, Next
  PROVE  /\ spent' \in BOOLEAN /\ rows' \in SUBSET FirstUse /\ leader' \in Sched \cup {NULL}
         /\ now' \in Time /\ now' <= MaxTime /\ now <= now'
         /\ lapses' \in 0 .. MaxLapses /\ lapses <= lapses'
         /\ faults' \in 0 .. MaxFaults /\ faults <= faults'
         /\ patches' \in [Job -> 0 .. MaxPatches] /\ served' \in 0 .. MaxServed
<1>0. /\ spent \in BOOLEAN /\ rows \in SUBSET FirstUse /\ leader \in Sched \cup {NULL}
      /\ now \in Time /\ now <= MaxTime
      /\ lapses \in 0 .. MaxLapses /\ faults \in 0 .. MaxFaults
      /\ patches \in [Job -> 0 .. MaxPatches] /\ served \in 0 .. MaxServed
  BY DEF TInv, TypeOK
<1>1. /\ lapses' \in 0 .. MaxLapses /\ lapses <= lapses'
      /\ faults' \in 0 .. MaxFaults /\ faults <= faults' /\ served' \in 0 .. MaxServed
  <2>1. UNCHANGED lapses \/ (lapses < MaxLapses /\ lapses' = lapses + 1)
    BY ZenonT(40)
       DEF Next, StartRequest, ServeRequest, GetQuota, InsertQuota, CommitRequest, PublishRequest,
           Deliver, RefuseDelivery, IgnorePayload, ServeDelivery, InsertUser, LookupThread,
           CommitThread, AppendMessage, PublishSlack, Scheduler, AcquireLeader, PickJob, EndTick,
           CommitJob, PublishJob, SettleJob, LeaderExpires, SaveJob, Crash, NextRequest, MoveRun,
           NewDay, TimePasses, bounds
  <2>2. UNCHANGED faults \/ (faults < MaxFaults /\ faults' = faults + 1)
    BY ZenonT(40)
       DEF Next, StartRequest, ServeRequest, GetQuota, InsertQuota, CommitRequest, PublishRequest,
           Deliver, RefuseDelivery, IgnorePayload, ServeDelivery, InsertUser, LookupThread,
           CommitThread, AppendMessage, PublishSlack, Scheduler, AcquireLeader, PickJob, EndTick,
           CommitJob, PublishJob, SettleJob, LeaderExpires, SaveJob, Crash, NextRequest, MoveRun,
           NewDay, TimePasses, bounds, Publish
  <2>3. UNCHANGED served \/ (served < MaxServed /\ served' = served + 1)
    BY ZenonT(40)
       DEF Next, StartRequest, ServeRequest, GetQuota, InsertQuota, CommitRequest, PublishRequest,
           Deliver, RefuseDelivery, IgnorePayload, ServeDelivery, InsertUser, LookupThread,
           CommitThread, AppendMessage, PublishSlack, Scheduler, AcquireLeader, PickJob, EndTick,
           CommitJob, PublishJob, SettleJob, LeaderExpires, SaveJob, Crash, NextRequest, MoveRun,
           NewDay, TimePasses, bounds
  <2>4. QED
    BY <1>0, <2>1, <2>2, <2>3, IngressAssumption
<1>2. now' \in Time /\ now' <= MaxTime /\ now <= now' /\ spent' \in BOOLEAN
  <2>1. UNCHANGED now \/ (now < MaxTime /\ now' = now + 1)
    BY DEF Next, StartRequest, ServeRequest, GetQuota, InsertQuota, CommitRequest, PublishRequest,
           Deliver, RefuseDelivery, IgnorePayload, ServeDelivery, InsertUser, LookupThread,
           CommitThread, AppendMessage, PublishSlack, Scheduler, AcquireLeader, PickJob, EndTick,
           CommitJob, PublishJob, SettleJob, LeaderExpires, SaveJob, Crash, NextRequest, MoveRun,
           NewDay, TimePasses, env
  <2>2. UNCHANGED spent \/ spent' = TRUE \/ spent' = FALSE
    BY ZenonT(40)
       DEF Next, StartRequest, ServeRequest, GetQuota, InsertQuota, CommitRequest, PublishRequest,
           Deliver, RefuseDelivery, IgnorePayload, ServeDelivery, InsertUser, LookupThread,
           CommitThread, AppendMessage, PublishSlack, Scheduler, AcquireLeader, PickJob, EndTick,
           CommitJob, PublishJob, SettleJob, LeaderExpires, SaveJob, Crash, NextRequest, MoveRun,
           NewDay, TimePasses, env
  <2>3. spent' \in BOOLEAN
    BY <1>0, <2>2
  <2>4. QED
    BY <1>0, <2>1, <2>3, IngressAssumption DEF Time
<1>3. rows' \in SUBSET FirstUse /\ leader' \in Sched \cup {NULL}
  <2>1. UNCHANGED rows \/ \E c \in Creator : CommitRows(c)
    BY Disjoint, ZenonT(40)
       DEF Next, StartRequest, ServeRequest, GetQuota, InsertQuota, CommitRequest, PublishRequest,
           Deliver, RefuseDelivery, IgnorePayload, ServeDelivery, InsertUser, LookupThread,
           CommitThread, AppendMessage, PublishSlack, Scheduler, AcquireLeader, PickJob, EndTick,
           CommitJob, PublishJob, SettleJob, LeaderExpires, SaveJob, Crash, NextRequest, MoveRun,
           NewDay, TimePasses, RecordOnly, Accept
  <2>2. \A c \in Creator : tx[c].new \subseteq FirstUse
    BY SessionFacts DEF Session
  <2>3. UNCHANGED leader \/ leader' = NULL \/ \E s \in Sched : leader' = s
    BY ZenonT(40)
       DEF Next, StartRequest, ServeRequest, GetQuota, InsertQuota, CommitRequest, PublishRequest,
           Deliver, RefuseDelivery, IgnorePayload, ServeDelivery, InsertUser, LookupThread,
           CommitThread, AppendMessage, PublishSlack, Scheduler, AcquireLeader, PickJob, EndTick,
           CommitJob, PublishJob, SettleJob, LeaderExpires, SaveJob, Crash, NextRequest, MoveRun,
           NewDay, TimePasses, sched
  <2>4. QED
    BY <1>0, <2>1, <2>2, <2>3 DEF CommitRows
<1>4. patches' \in [Job -> 0 .. MaxPatches]
  <2>1. CASE UNCHANGED patches
    BY <1>0, <2>1
  <2>2. ASSUME NEW j \in Job, NEW enabled \in BOOLEAN, SaveJob(j, enabled)
        PROVE  patches' \in [Job -> 0 .. MaxPatches]
    BY <1>0, <2>2, IngressAssumption DEF SaveJob
  <2>3. QED
    BY <2>1, <2>2, ZenonT(40)
       DEF Next, StartRequest, ServeRequest, GetQuota, InsertQuota, CommitRequest, PublishRequest,
           Deliver, RefuseDelivery, IgnorePayload, ServeDelivery, InsertUser, LookupThread,
           CommitThread, AppendMessage, PublishSlack, Scheduler, AcquireLeader, PickJob, EndTick,
           CommitJob, PublishJob, SettleJob, LeaderExpires, Crash, NextRequest, MoveRun,
           NewDay, TimePasses, bounds
<1>5. QED
  BY <1>1, <1>2, <1>3, <1>4
-----------------------------------------------------------------------------
(* What a step does to agent_runs: one new row, or a new version of one    *)
(* that was not terminal.                                                  *)
Created(r, origin) ==
  /\ run' \in [Run -> RunRow \cup {NULL}]
  /\ run[r] = NULL /\ run'[r] # NULL /\ run'[r].origin = origin
  /\ \A q \in Run : q # r => run'[q] = run[q]

Updated ==
  /\ run' \in [Run -> RunRow \cup {NULL}]
  /\ \A q \in Run : \/ run'[q] = run[q]
                    \/ /\ run[q] # NULL /\ run'[q] # NULL
                       /\ run'[q].version = run[q].version + 1
                       /\ run'[q].origin = run[q].origin
                       /\ run[q].status # "terminal"

LEMMA NewRunEffect ==
  ASSUME TInv, NEW r \in Run, NEW origin \in Origin, NewRun(r, origin)
  PROVE  Created(r, origin)
<1> DEFINE row == [status |-> "pending", version |-> 0, origin |-> origin]
<1>1. row \in RunRow /\ row.origin = origin
  BY IngressAssumption DEF RunRow, Status
<1>2. row # NULL
  BY <1>1, IngressAssumption
<1>3. run[r] = NULL /\ run' = [run EXCEPT ![r] = row]
  BY DEF NewRun
<1> HIDE DEF row
<1>4. QED
  BY <1>1, <1>2, <1>3 DEF Created, TInv, TypeOK

LEMMA AppendedUpdates ==
  ASSUME TInv, NEW d \in Delivery, NEW y \in Session, Appended(d, y)
  PROVE  Updated /\ y.run \in Run /\ run[y.run] # NULL
<1> DEFINE r == y.run
           row == [run[r] EXCEPT !.status = "running", !.version = @ + 1]
<1>0. r \in Run /\ run[r] # NULL /\ run[r] \in RunRow
  BY Disjoint, SessionFacts DEF Appended, Local, TInv, TypeOK
<1>1. CASE UNCHANGED run
  BY <1>0, <1>1 DEF Updated, TInv, TypeOK
<1>2. CASE /\ run[y.run].status = "waiting" /\ run[y.run].version <= MaxMoves
           /\ run' = [run EXCEPT ![y.run].status = "running", ![y.run].version = @ + 1]
  <2>1. run[r].version + 1 \in 0 .. MaxMoves + 1
    <3>1. run[r].version \in 0 .. MaxMoves + 1
      BY <1>0 DEF RunRow
    <3>2. QED
      BY <1>2, <3>1, IngressAssumption
  <2>2. row \in RunRow /\ row.version = run[r].version + 1 /\ row.origin = run[r].origin
    BY <1>0, <2>1 DEF RunRow, Status
  <2>3. row # NULL
    BY <2>2, IngressAssumption
  <2>4. run' = [run EXCEPT ![r] = row]
    BY <1>0, <1>2 DEF TInv, TypeOK
  <2> HIDE DEF row
  <2>5. QED
    BY <1>0, <1>2, <2>2, <2>3, <2>4 DEF Updated, TInv, TypeOK
<1>3. QED
  BY <1>1, <1>2 DEF Appended

LEMMA MovedUpdates ==
  ASSUME TInv, NEW r \in Run, NEW status \in Status, MoveRun(r, status)
  PROVE  Updated
<1>1. run'[r] # NULL
  BY MoveRunEffect, IngressAssumption
<1>2. QED
  BY <1>1, MoveRunEffect DEF Updated

LEMMA SameRunsUpdates == ASSUME TInv, UNCHANGED run PROVE Updated
BY DEF Updated, TInv, TypeOK

LEMMA RunVersion ==
  ASSUME TInv, NEW r \in Run, run[r] # NULL
  PROVE  run[r] \in RunRow /\ run[r].version \in Nat
BY DEF TInv, TypeOK, RunRow

(* Either way what sessions and mappings know of runs stays true. *)
LEMMA UpdatedKept ==
  ASSUME TInv, Updated, now \in Nat, now <= now',
         \A j \in Job : job[j] # NULL => job'[j] # NULL
  PROVE  Kept /\ (UNCHANGED mapping => Mapped')
<1>1. \A r \in Run : run[r] # NULL => run[r].version \in Nat
  BY RunVersion
<1>2. Kept
  BY <1>1 DEF Updated, Kept
<1>3. UNCHANGED mapping => Mapped'
  BY DEF Updated, Mapped, TInv, TypeOK
<1>4. QED
  BY <1>2, <1>3

LEMMA CreatedKept ==
  ASSUME TInv, NEW r \in Run, NEW origin, Created(r, origin), now \in Nat, now <= now',
         \A j \in Job : job[j] # NULL => job'[j] # NULL
  PROVE  Kept /\ (UNCHANGED mapping => Mapped')
<1>1. \A q \in Run : run[q] # NULL => run[q].version \in Nat
  BY RunVersion
<1>2. Kept
  BY <1>1 DEF Created, Kept
<1>3. UNCHANGED mapping => Mapped'
  BY DEF Created, Mapped, TInv, TypeOK
<1>4. QED
  BY <1>2, <1>3
-----------------------------------------------------------------------------
(* The tables and the sessions after a step *)
Typed == /\ run \in [Run -> RunRow \cup {NULL}]
         /\ published \in [Run -> BOOLEAN]
         /\ job \in [Job -> JobRow \cup {NULL}]
         /\ event \in [Event -> BOOLEAN] /\ handled \in [Event -> Nat]
         /\ mapping \in [Thread -> Run \cup {NULL}]
         /\ tx \in [Creator -> Session]
         /\ Mapped /\ Locals

LEMMA NowFacts == ASSUME TInv PROVE now \in Nat /\ now \in Time /\ now <= MaxTime
BY DEF TInv, TypeOK, Time

LEMMA TypedNow == ASSUME TInv PROVE Typed
BY DEF TInv, TypeOK, Typed

(* What a session that goes on from tx[c] to y knows, if its run is there *)
LEMMA NextLocal ==
  ASSUME TInv, Kept, NEW c \in Creator, NEW y \in Session, now' \in Nat,
         y.due \subseteq tx[c].due, y.pc \in {"publish", "settle", "pick"},
         y.pc = "publish" => y.run \in Run /\ run'[y.run] # NULL,
         c \in Sched /\ y.pc \in OnJob => tx[c].pc \in OnJob /\ y.cur = tx[c].cur
  PROVE  Local(c, y)'
<1>1. Local(c, tx[c]) /\ tx[c] \in Session
  BY SessionFacts
<1>2. \A d \in y.due : d \in Due /\ d.job \in Job /\ d.slot \in Nat
  BY <1>1 DEF Session, Due, Time
<1>3. \A d \in y.due : job'[d.job] # NULL /\ d.slot <= now'
  BY <1>1, <1>2, NowFacts DEF Local, Kept
<1>4. \A d, e \in y.due : d.job = e.job => d = e
  BY <1>1 DEF Local
<1>5. c \in Sched /\ y.pc \in OnJob => y.cur \in Due /\ job'[y.cur.job] # NULL
  <2>1. SUFFICES ASSUME c \in Sched, y.pc \in OnJob
                 PROVE  y.cur \in Due /\ job'[y.cur.job] # NULL
    OBVIOUS
  <2>2. y.cur \in Due /\ job[y.cur.job] # NULL
    BY <1>1, <2>1 DEF Local
  <2>3. QED
    BY <2>2 DEF Due, Kept
<1>6. QED
  BY <1>3, <1>4, <1>5 DEF Local, Claiming, Firing

LEMMA CommittedTyped ==
  ASSUME TInv, NEW c \in Creator, NEW y \in Session, NEW r \in Run, NEW origin,
         Committed(c, y, r, origin), \A j \in Job : job[j] # NULL => job'[j] # NULL
  PROVE  /\ Created(r, origin) /\ Kept
         /\ UNCHANGED mapping => Mapped'
         /\ tx' \in [Creator -> Session] /\ Locals'
<1>1. Created(r, origin)
  BY NewRunEffect DEF Committed
<1>2. now' = now
  BY DEF Committed
<1>3. Kept /\ (UNCHANGED mapping => Mapped')
  BY <1>1, <1>2, NowFacts, CreatedKept
<1>4. Local(c, y)'
  BY <1>1, <1>2, <1>3, NowFacts, NextLocal DEF Committed, Created, OnJob, Firing
<1>5. QED
  BY <1>1, <1>2, <1>3, <1>4, NowFacts, SessionStep DEF Committed, Created

LEMMA AcceptedTyped ==
  ASSUME TInv, NEW d \in Delivery, Accepted(d)
  PROVE  event' \in [Event -> BOOLEAN] /\ handled' \in [Event -> Nat]
<1>1. tx[d].event \in Event
  BY Disjoint, SessionFacts DEF Accepted, Local
<1>2. QED
  BY <1>1 DEF Accepted, TInv, TypeOK

LEMMA QuietTyped ==
  ASSUME TInv, NEW c \in Creator, NEW y \in Session, Quiet(c, y)
  PROVE  Typed'
<1>1. UNCHANGED <<now, run, published, job, event, handled, mapping>>
  BY DEF Quiet
<1>2. Updated
  BY <1>1, SameRunsUpdates
<1>3. Kept /\ Mapped'
  BY <1>1, <1>2, NowFacts, UpdatedKept
<1>4. Local(c, y)'
  BY <1>1 DEF Quiet, Local
<1>5. tx' \in [Creator -> Session] /\ Locals'
  BY <1>1, <1>2, <1>3, <1>4, NowFacts, SessionStep DEF Quiet, Updated
<1>6. QED
  BY <1>1, <1>3, <1>5, TypedNow DEF Typed

LEMMA RecordedTyped ==
  ASSUME TInv, NEW d \in Delivery, NEW e \in Event, NEW y \in Session, Recorded(d, e, y)
  PROVE  Typed'
<1>1. UNCHANGED <<now, run, published, job, handled, mapping>>
  BY DEF Recorded
<1>2. Updated
  BY <1>1, SameRunsUpdates
<1>3. Kept /\ Mapped'
  BY <1>1, <1>2, NowFacts, UpdatedKept
<1>4. Local(d, y)'
  BY Disjoint DEF Recorded, Local, Claiming, OnJob, Firing
<1>5. tx' \in [Creator -> Session] /\ Locals'
  BY <1>1, <1>2, <1>3, <1>4, Disjoint, NowFacts, SessionStep DEF Recorded, Updated
<1>6. event' \in [Event -> BOOLEAN]
  BY DEF Recorded, TInv, TypeOK
<1>7. QED
  BY <1>1, <1>3, <1>5, <1>6, TypedNow DEF Typed

LEMMA SentTyped ==
  ASSUME TInv, NEW c \in Creator, NEW y \in Session, Sent(c, y)
  PROVE  Typed'
<1>1. UNCHANGED <<now, run, job, event, handled, mapping>>
  BY DEF Sent
<1>2. Updated
  BY <1>1, SameRunsUpdates
<1>3. Kept /\ Mapped'
  BY <1>1, <1>2, NowFacts, UpdatedKept
<1>4. Local(c, y)'
  <2>1. CASE y.pc = "settle"
    BY <1>1, <1>3, <2>1, NowFacts, NextLocal DEF Sent, OnJob
  <2>2. CASE y.pc # "settle"
    <3>1. Local(c, tx[c]) /\ tx[c] \in Session
      BY SessionFacts
    <3>2. \A d \in y.due : job'[d.job] # NULL /\ d.slot <= now'
      BY <1>1, <3>1 DEF Local, Sent
    <3>3. \A d, e \in y.due : d.job = e.job => d = e
      BY <3>1 DEF Local, Sent
    <3>4. y.pc \in {"done", "failed", "dead"} /\ (y.pc = "dead" => y.due = {})
      BY <2>2 DEF Sent
    <3>5. QED
      BY <3>2, <3>3, <3>4 DEF Local, Claiming, OnJob, Firing
  <2>3. QED
    BY <2>1, <2>2
<1>5. tx' \in [Creator -> Session] /\ Locals'
  BY <1>1, <1>2, <1>3, <1>4, NowFacts, SessionStep DEF Sent, Updated
<1>6. published' \in [Run -> BOOLEAN]
  BY DEF Sent, TInv, TypeOK
<1>7. QED
  BY <1>1, <1>3, <1>5, <1>6, TypedNow DEF Typed

LEMMA CommitRequestTyped ==
  ASSUME TInv, NEW q \in Request, NEW y \in Session, NEW r \in Run, NEW origin,
         Committed(q, y, r, origin), UNCHANGED <<job, event, handled, mapping>>
  PROVE  Typed'
<1>1. q \in Creator
  BY Disjoint
<1>2. /\ Created(r, origin) /\ Kept /\ Mapped'
      /\ tx' \in [Creator -> Session] /\ Locals'
  BY <1>1, CommittedTyped
<1>3. UNCHANGED published
  BY DEF Committed
<1>4. QED
  BY <1>2, <1>3, TypedNow DEF Typed, Created

LEMMA CommitThreadTyped ==
  ASSUME TInv, NEW d \in Delivery, CommitThread(d), ~UNCHANGED handled
  PROVE  Typed'
<1> DEFINE t == ThreadOf[tx[d].event]
<1>0. PICK y, r : /\ Committed(d, y, r, [kind |-> "slack", of |-> t])
                  /\ mapping' = [mapping EXCEPT ![t] = r]
                  /\ t \in Thread /\ mapping[t] = NULL
                  /\ Accepted(d) /\ UNCHANGED job
  BY CommitThreadEffect
<1> DEFINE origin == [kind |-> "slack", of |-> t]
<1> HIDE DEF t, origin
<1>1. d \in Creator /\ y \in Session /\ r \in Run /\ Committed(d, y, r, origin)
  BY <1>0, Disjoint DEF Committed, origin
<1>2. /\ Created(r, origin) /\ Kept /\ tx' \in [Creator -> Session] /\ Locals'
  BY <1>0, <1>1, CommittedTyped
<1>3. UNCHANGED <<published, job>>
  BY <1>0, <1>1 DEF Committed
<1>4. mapping' \in [Thread -> Run \cup {NULL}]
  BY <1>0, <1>1 DEF TInv, TypeOK
<1>5. Mapped'
  BY <1>0, <1>1, <1>2 DEF Mapped, Created, TInv, TypeOK
<1>6. QED
  BY <1>0, <1>2, <1>3, <1>4, <1>5, AcceptedTyped, TypedNow DEF Typed, Created

LEMMA CommitJobTyped ==
  ASSUME TInv, NEW s \in Sched, CommitJob(s)
  PROVE  Typed'
<1> DEFINE origin == [kind |-> "job", of |-> <<tx[s].cur.job, tx[s].cur.slot>>]
<1>0. PICK y, r : Committed(s, y, r, origin)
  BY CommitJobEffect
<1> HIDE DEF origin
<1>1. s \in Creator /\ y \in Session /\ r \in Run
  BY <1>0, Disjoint DEF Committed
<1>2. /\ job' \in [Job -> JobRow \cup {NULL}] /\ UNCHANGED <<event, handled, mapping>>
      /\ \A j \in Job : job[j] # NULL => job'[j] # NULL
  BY CommitJobEffect
<1>3. Created(r, origin) /\ Mapped' /\ tx' \in [Creator -> Session] /\ Locals'
  BY <1>0, <1>1, <1>2, CommittedTyped
<1>4. UNCHANGED published
  BY <1>0 DEF Committed
<1>5. QED
  BY <1>2, <1>3, <1>4, TypedNow DEF Typed, Created

LEMMA AppendedTyped ==
  ASSUME TInv, NEW d \in Delivery, NEW y \in Session, Appended(d, y), Accepted(d)
  PROVE  Typed'
<1>1. d \in Creator /\ d \notin Sched
  BY Disjoint
<1>2. UNCHANGED <<now, published, job, mapping>>
  BY DEF Appended
<1>3. Updated /\ y.run \in Run /\ run[y.run] # NULL
  BY AppendedUpdates
<1>4. Kept /\ Mapped'
  BY <1>2, <1>3, NowFacts, UpdatedKept
<1>5. Local(d, y)'
  BY <1>1, <1>2, <1>3, <1>4, NowFacts, NextLocal DEF Appended, Kept
<1>6. tx' \in [Creator -> Session] /\ Locals'
  BY <1>1, <1>2, <1>3, <1>4, <1>5, NowFacts, SessionStep DEF Appended, Updated
<1>7. QED
  BY <1>2, <1>3, <1>4, <1>6, AcceptedTyped, TypedNow DEF Typed, Updated

(* list_due_jobs: one slot of a job, and it has come *)
LEMMA DueJobsFacts ==
  ASSUME TInv
  PROVE  /\ DueJobs \subseteq Due
         /\ \A d \in DueJobs : job[d.job] # NULL /\ d.slot <= now /\ d.slot = job[d.job].next
         /\ \A d, e \in DueJobs : d.job = e.job => d = e
BY DEF DueJobs, Due

LEMMA ElectedTyped ==
  ASSUME TInv, NEW s \in Sched, NEW y \in Session, Elected(s, y)
  PROVE  Typed'
<1>1. s \in Creator
  BY Disjoint
<1>2. UNCHANGED <<now, run, published, job, event, handled, mapping>>
  BY DEF Elected
<1>3. Updated
  BY <1>2, SameRunsUpdates
<1>4. Kept /\ Mapped'
  BY <1>2, <1>3, NowFacts, UpdatedKept
<1>5. /\ \A d \in y.due : job[d.job] # NULL /\ d.slot <= now
      /\ \A d, e \in y.due : d.job = e.job => d = e
      /\ y.pc = "pick"
  BY DueJobsFacts DEF Elected
<1>6. Local(s, y)'
  BY <1>2, <1>5 DEF Local, Claiming, OnJob, Firing
<1>7. tx' \in [Creator -> Session] /\ Locals'
  BY <1>1, <1>2, <1>3, <1>4, <1>6, NowFacts, SessionStep DEF Elected, Updated
<1>8. QED
  BY <1>2, <1>4, <1>7, TypedNow DEF Typed

LEMMA SettledTyped ==
  ASSUME TInv, NEW s \in Sched, NEW y \in Session, Settled(s, y)
  PROVE  Typed'
<1>1. s \in Creator
  BY Disjoint
<1>2. UNCHANGED <<now, run, published, event, handled, mapping>>
  BY DEF Settled
<1>3. Updated
  BY <1>2, SameRunsUpdates
<1>4. Kept /\ Mapped'
  BY <1>2, <1>3, NowFacts, UpdatedKept DEF Settled
<1>5. Local(s, y)'
  BY <1>1, <1>2, <1>4, NowFacts, NextLocal DEF Settled, OnJob, Firing
<1>6. tx' \in [Creator -> Session] /\ Locals'
  BY <1>1, <1>2, <1>3, <1>4, <1>5, NowFacts, SessionStep DEF Settled, Updated
<1>7. QED
  BY <1>2, <1>4, <1>6, TypedNow DEF Typed, Settled

(* LeaderExpires, SaveJob, MoveRun, NewDay, TimePasses *)
LEMMA RestTyped ==
  ASSUME TInv, Updated, job' \in [Job -> JobRow \cup {NULL}], now' \in Nat, now <= now',
         \A j \in Job : job[j] # NULL => job'[j] # NULL,
         UNCHANGED <<published, event, handled, mapping, tx>>
  PROVE  Typed'
<1>1. Kept /\ Mapped'
  BY NowFacts, UpdatedKept
<1>2. tx' \in [Creator -> Session] /\ Locals'
  BY <1>1, SessionsKept DEF Updated
<1>3. QED
  BY <1>1, <1>2, TypedNow DEF Typed, Updated

LEMMA TypedStep == ASSUME TInv, Next PROVE Typed'
<1>0. now' \in Nat /\ now <= now'
  BY Simple DEF Time
<1>1. CASE LeaderExpires \/ NewDay \/ TimePasses
  <2>1. UNCHANGED <<published, event, handled, mapping, tx, run, job>>
    BY <1>1 DEF LeaderExpires, NewDay, TimePasses, sched, slack
  <2>2. QED
    BY <1>0, <2>1, SameRunsUpdates, RestTyped, TypedNow DEF Typed
<1>2. ASSUME NEW j \in Job, NEW enabled \in BOOLEAN, SaveJob(j, enabled) PROVE Typed'
  <2>1. UNCHANGED <<published, event, handled, mapping, tx, run>>
    BY <1>2 DEF SaveJob, slack
  <2>2. QED
    BY <1>0, <1>2, <2>1, SaveJobEffect, SameRunsUpdates, RestTyped
<1>3. ASSUME NEW r \in Run, NEW status \in Status, MoveRun(r, status) PROVE Typed'
  <2>1. UNCHANGED <<published, event, handled, mapping, tx, job>>
    BY <1>3 DEF MoveRun, slack, sched
  <2>2. QED
    BY <1>0, <1>3, <2>1, MovedUpdates, RestTyped, TypedNow DEF Typed
<1>4. QED
  BY <1>1, <1>2, <1>3, Cases, QuietTyped, RecordedTyped, CommitRequestTyped, CommitThreadTyped,
     CommitJobTyped, AppendedTyped, SentTyped, ElectedTyped, SettledTyped

LEMMA TypeInit == Init => TInv
<1> SUFFICES ASSUME Init PROVE TInv
  OBVIOUS
<1>1. \A c \in Creator : Local(c, Idle)
  BY IdleSession, EndedLocal
<1>2. TypeOK
  <2>1. /\ now \in Time /\ lapses \in 0 .. MaxLapses /\ faults \in 0 .. MaxFaults
        /\ patches \in [Job -> 0 .. MaxPatches] /\ served \in 0 .. MaxServed
        /\ handled \in [Event -> Nat]
    BY IngressAssumption DEF Init, Time
  <2>2. /\ run \in [Run -> RunRow \cup {NULL}] /\ job \in [Job -> JobRow \cup {NULL}]
        /\ mapping \in [Thread -> Run \cup {NULL}] /\ leader \in Sched \cup {NULL}
    BY DEF Init
  <2>3. published \in [Run -> BOOLEAN] /\ event \in [Event -> BOOLEAN] /\ spent \in BOOLEAN
    BY DEF Init
  <2>4. tx \in [Creator -> Session] /\ rows \in SUBSET FirstUse
    BY IdleSession DEF Init
  <2>5. QED
    BY <2>1, <2>2, <2>3, <2>4 DEF TypeOK
<1>3. Locals
  BY <1>1 DEF Locals, Init
<1>4. Mapped /\ now <= MaxTime
  BY IngressAssumption DEF Mapped, Init
<1>5. QED
  BY <1>2, <1>3, <1>4 DEF TInv

LEMMA TypeStep == TInv /\ [Next]_vars => TInv'
<1>1. ASSUME TInv, Next PROVE TInv'
  BY <1>1, TypedStep, Simple DEF TInv, TypeOK, Typed
<1>2. ASSUME TInv, UNCHANGED vars PROVE TInv'
  <2>1. Updated
    BY <1>2, SameRunsUpdates DEF vars
  <2>2. Typed'
    BY <1>2, <2>1, NowFacts, RestTyped, TypedNow DEF vars, Typed
  <2>3. QED
    BY <1>2, <2>2 DEF TInv, TypeOK, Typed, vars
<1>3. QED
  BY <1>1, <1>2

(* Every variable keeps its type, and every session knows rows that exist, *)
(* versions that were current and slots that are due, whatever the other   *)
(* sessions, the workers and the admin API commit in the meantime.         *)
THEOREM TypeCorrect == Spec => [](TypeOK /\ Locals)
<1>1. TInv => TypeOK /\ Locals
  BY DEF TInv
<1>2. QED
  BY <1>1, TypeInit, TypeStep, PTL DEF Spec
-----------------------------------------------------------------------------
(* A step commits a new run or leaves their number alone. *)
LEMMA RunSteps ==
  ASSUME TInv, Next
  PROVE  \/ Updated /\ UNCHANGED mapping
         \/ \E q \in Request, y \in Session, r \in Run :
              /\ Committed(q, y, r, [kind |-> "api", of |-> q])
              /\ UNCHANGED <<job, event, handled, mapping>>
         \/ \E d \in Delivery : CommitThread(d) /\ ~UNCHANGED handled
         \/ \E s \in Sched : CommitJob(s)
<1>1. ASSUME NEW d \in Delivery, NEW y \in Session, Appended(d, y)
      PROVE  Updated /\ UNCHANGED mapping
  BY <1>1, AppendedUpdates DEF Appended
<1>2. ASSUME NEW r \in Run, NEW status \in Status, MoveRun(r, status)
      PROVE  Updated /\ UNCHANGED mapping
  BY <1>2, MovedUpdates DEF MoveRun, slack
<1>3. CASE UNCHANGED <<run, mapping>>
  BY <1>3, SameRunsUpdates
<1>4. QED
  BY <1>1, <1>2, <1>3, Cases
     DEF Quiet, Recorded, Sent, Elected, Settled, LeaderExpires, SaveJob, NewDay, TimePasses, slack

LEMMA OriginKept ==
  ASSUME TInv, Updated, NEW origin
  PROVE  RunsOf(origin)' = RunsOf(origin)
BY DEF Updated, RunsOf

LEMMA OriginCreated ==
  ASSUME TInv, NEW r \in Run, NEW o, Created(r, o), NEW origin
  PROVE  /\ origin = o => RunsOf(origin)' = RunsOf(origin) \cup {r}
         /\ origin # o => RunsOf(origin)' = RunsOf(origin)
BY DEF Created, RunsOf

LEMMA CommittedCreates ==
  ASSUME TInv, NEW c \in Creator, NEW y, NEW r, NEW o, Committed(c, y, r, o)
  PROVE  Created(r, o) /\ r \in Run /\ y \in Session
BY NewRunEffect DEF Committed

LEMMA ThreadStep == ASSUME TInv, ThreadHasOneRun, Next PROVE ThreadHasOneRun'
<1> DEFINE O(t) == [kind |-> "slack", of |-> t]
<1>1. CASE Updated /\ UNCHANGED mapping
  BY <1>1, OriginKept DEF ThreadHasOneRun
<1>2. ASSUME NEW q \in Request, NEW y \in Session, NEW r \in Run,
             Committed(q, y, r, [kind |-> "api", of |-> q]), UNCHANGED mapping
      PROVE  ThreadHasOneRun'
  <2>1. Created(r, [kind |-> "api", of |-> q])
    BY <1>2, CommittedCreates, Disjoint
  <2>2. \A t \in Thread : O(t) # [kind |-> "api", of |-> q]
    OBVIOUS
  <2>3. \A t \in Thread : RunsOf(O(t))' = RunsOf(O(t))
    BY <2>1, <2>2, OriginCreated
  <2>4. QED
    BY <1>2, <2>3 DEF ThreadHasOneRun
<1>3. ASSUME NEW d \in Delivery, CommitThread(d), ~UNCHANGED handled
      PROVE  ThreadHasOneRun'
  <2>1. PICK u, y, r : /\ u \in Thread /\ Committed(d, y, r, O(u))
                       /\ mapping' = [mapping EXCEPT ![u] = r]
                       /\ mapping[u] = NULL
    BY <1>3, CommitThreadEffect
  <2>2. Created(r, O(u)) /\ r \in Run
    BY <2>1, CommittedCreates, Disjoint
  <2>3. \A t \in Thread : t # u => O(t) # O(u)
    <3>1. \A t \in Thread : O(t).of = t
      OBVIOUS
    <3>2. QED
      BY <2>1, <3>1
  <2>4. RunsOf(O(u))' = RunsOf(O(u)) \cup {r}
    BY <2>2, OriginCreated
  <2>5. \A t \in Thread : t # u => RunsOf(O(t))' = RunsOf(O(t))
    BY <2>2, <2>3, OriginCreated
  <2>6. r # NULL
    BY <2>2, IngressAssumption DEF Run
  <2>7. mapping'[u] = r /\ \A t \in Thread : t # u => mapping'[t] = mapping[t]
    BY <2>1 DEF TInv, TypeOK
  <2>8. RunsOf(O(u))' = {r}
    BY <2>1, <2>4 DEF ThreadHasOneRun
  <2>9. QED
    BY <2>5, <2>6, <2>7, <2>8 DEF ThreadHasOneRun
<1>4. ASSUME NEW s \in Sched, CommitJob(s) PROVE ThreadHasOneRun'
  <2> DEFINE o == [kind |-> "job", of |-> <<tx[s].cur.job, tx[s].cur.slot>>]
  <2>1. PICK y, r : Committed(s, y, r, o)
    BY <1>4, CommitJobEffect
  <2>2. \A t \in Thread : O(t) # o
    OBVIOUS
  <2>3. UNCHANGED mapping
    BY <1>4, CommitJobEffect
  <2> HIDE DEF o
  <2>4. Created(r, o) /\ r \in Run
    BY <2>1, CommittedCreates, Disjoint
  <2>5. \A t \in Thread : RunsOf(O(t))' = RunsOf(O(t))
    BY <2>2, <2>4, OriginCreated
  <2>6. QED
    BY <2>3, <2>5 DEF ThreadHasOneRun
<1>5. QED
  BY <1>1, <1>2, <1>3, <1>4, RunSteps

(* However many mentions of a thread are delivered together, the unique    *)
(* slack_thread_mappings row lets one of them commit its run.              *)
THEOREM OneRunPerThread == Spec => []ThreadHasOneRun
<1>1. Init => ThreadHasOneRun
  BY DEF Init, ThreadHasOneRun, RunsOf
<1>2. TInv /\ ThreadHasOneRun /\ [Next]_vars => ThreadHasOneRun'
  <2>1. ASSUME ThreadHasOneRun, UNCHANGED vars PROVE ThreadHasOneRun'
    BY <2>1 DEF ThreadHasOneRun, RunsOf, vars
  <2>2. QED
    BY <2>1, ThreadStep
<1>3. QED
  BY <1>1, <1>2, TypeInit, TypeStep, PTL DEF Spec
-----------------------------------------------------------------------------
(* A text that reached a run belongs to an event whose row is committed; a *)
(* delivery that works on an event has seen no row, and it is alone.       *)
ClaimsEvent(d, e) == tx[d].pc \in Claiming /\ tx[d].event = e

Claims ==
  /\ \A e \in Event : handled[e] \in {0, 1} /\ (handled[e] = 1 => event[e])
  /\ \A d \in Delivery, e \in Event : ClaimsEvent(d, e) => ~event[e]
  /\ \A b, d \in Delivery, e \in Event : ClaimsEvent(b, e) /\ ClaimsEvent(d, e) => b = d

(* A session that was replaced and claims nothing, or what it did before *)
LEMMA ClaimsShrink ==
  ASSUME TInv, Claims, UNCHANGED <<event, handled>>,
         \A d \in Delivery, e \in Event : ClaimsEvent(d, e)' => ClaimsEvent(d, e)
  PROVE  Claims'
BY DEF Claims

LEMMA ReplacedClaims ==
  ASSUME TInv, NEW c \in Creator, NEW y \in Session, tx' = [tx EXCEPT ![c] = y]
  PROVE  /\ \A d \in Delivery, e \in Event : d # c => (ClaimsEvent(d, e)' <=> ClaimsEvent(d, e))
         /\ \A e : ClaimsEvent(c, e)' <=> y.pc \in Claiming /\ y.event = e
BY Disjoint DEF ClaimsEvent, TInv, TypeOK

LEMMA EventEnds ==
  ASSUME TInv, Claims, NEW d \in Delivery, NEW y \in Session, NEW e \in Event,
         tx' = [tx EXCEPT ![d] = y], y.pc \notin Claiming,
         event' = [event EXCEPT ![e] = TRUE],
         Claimed(e) = {} \/ ClaimsEvent(d, e),
         \/ UNCHANGED handled
         \/ ClaimsEvent(d, e) /\ handled' = [handled EXCEPT ![e] = @ + 1]
  PROVE  Claims'
<1>1. /\ \A b \in Delivery, f \in Event : b # d => (ClaimsEvent(b, f)' <=> ClaimsEvent(b, f))
      /\ \A f : ~ClaimsEvent(d, f)'
  BY ReplacedClaims, Disjoint
<1>2. \A b \in Delivery, f \in Event : ClaimsEvent(b, f)' => ClaimsEvent(b, f) /\ f # e
  BY <1>1 DEF Claims, Claimed, ClaimsEvent
<1>3. /\ event'[e] /\ \A f \in Event : f # e => (event'[f] <=> event[f])
  BY DEF TInv, TypeOK
<1>4. \A f \in Event : handled'[f] \in {0, 1} /\ (handled'[f] = 1 => event'[f])
  <2>1. CASE UNCHANGED handled
    BY <1>3, <2>1 DEF Claims
  <2>2. CASE ClaimsEvent(d, e) /\ handled' = [handled EXCEPT ![e] = @ + 1]
    <3>1. ~event[e] /\ handled[e] = 0
      BY <2>2 DEF Claims
    <3>2. handled'[e] = 1 /\ \A f \in Event : f # e => handled'[f] = handled[f]
      BY <2>2, <3>1 DEF TInv, TypeOK
    <3>3. QED
      BY <1>3, <3>2 DEF Claims
  <2>3. QED
    BY <2>1, <2>2
<1>5. \A b \in Delivery, f \in Event : ClaimsEvent(b, f)' => ~event'[f]
  BY <1>2, <1>3 DEF Claims
<1>6. \A a, b \in Delivery, f \in Event : ClaimsEvent(a, f)' /\ ClaimsEvent(b, f)' => a = b
  BY <1>2 DEF Claims
<1>7. QED
  BY <1>4, <1>5, <1>6 DEF Claims

LEMMA QuietClaims ==
  ASSUME TInv, Claims, NEW c \in Creator, NEW y \in Session, Quiet(c, y)
  PROVE  Claims'
<1>1. UNCHANGED <<event, handled>> /\ tx' = [tx EXCEPT ![c] = y]
  BY DEF Quiet
<1>2. /\ \A d \in Delivery, e \in Event : d # c => (ClaimsEvent(d, e)' <=> ClaimsEvent(d, e))
      /\ \A e : ClaimsEvent(c, e)' <=> y.pc \in Claiming /\ y.event = e
  BY <1>1, ReplacedClaims
<1>3. CASE c \notin Delivery \/ y.pc \notin Claiming
           \/ (tx[c].pc \in Claiming /\ y.event = tx[c].event)
  <2>1. \A d \in Delivery, e \in Event : ClaimsEvent(d, e)' => ClaimsEvent(d, e)
    BY <1>2, <1>3 DEF ClaimsEvent
  <2>2. QED
    BY <1>1, <2>1, ClaimsShrink
<1>4. CASE Claimed(y.event) = {} /\ ~event[y.event]
  <2>1. \A d \in Delivery : ~ClaimsEvent(d, y.event)
    BY <1>4 DEF Claimed, ClaimsEvent
  <2>2. \A d \in Delivery, e \in Event : ClaimsEvent(d, e)' =>
          (ClaimsEvent(d, e) /\ e # y.event) \/ (d = c /\ e = y.event)
    BY <1>2, <2>1 DEF ClaimsEvent
  <2>3. /\ \A d \in Delivery, e \in Event : ClaimsEvent(d, e)' => ~event[e]
        /\ \A b, d \in Delivery, e \in Event : ClaimsEvent(b, e)' /\ ClaimsEvent(d, e)' => b = d
    BY <1>4, <2>2 DEF Claims
  <2>4. QED
    BY <1>1, <2>3 DEF Claims
<1>5. QED
  BY <1>3, <1>4 DEF Quiet

LEMMA ClaimsStep == ASSUME TInv, Claims, Next PROVE Claims'
<1>1. ASSUME NEW c \in Creator, NEW y \in Session, tx' = [tx EXCEPT ![c] = y],
             c \notin Delivery \/ y.pc \notin Claiming, UNCHANGED <<event, handled>>
      PROVE  Claims'
  <2>1. \A d \in Delivery, e \in Event : ClaimsEvent(d, e)' => ClaimsEvent(d, e)
    BY <1>1, ReplacedClaims
  <2>2. QED
    BY <1>1, <2>1, ClaimsShrink
<1>2. ASSUME NEW d \in Delivery, NEW e \in Event, NEW y \in Session, Recorded(d, e, y)
      PROVE  Claims'
  BY <1>2, EventEnds DEF Recorded, ClaimsEvent, Claiming
<1>3. ASSUME NEW d \in Delivery, NEW y \in Session, tx' = [tx EXCEPT ![d] = y],
             y.pc = "publish", Accepted(d)
      PROVE  Claims'
  <2>1. tx[d].event \in Event
    BY <1>3, Disjoint, SessionFacts DEF Accepted, Local
  <2>2. QED
    BY <1>3, <2>1, EventEnds DEF Accepted, ClaimsEvent, Claiming
<1>4. ASSUME NEW q \in Request, NEW y \in Session, NEW r \in Run,
             Committed(q, y, r, [kind |-> "api", of |-> q]), UNCHANGED <<event, handled>>
      PROVE  Claims'
  BY <1>1, <1>4, Disjoint DEF Committed
<1>5. ASSUME NEW d \in Delivery, CommitThread(d), ~UNCHANGED handled PROVE Claims'
  BY <1>3, <1>5, CommitThreadEffect DEF Committed
<1>6. ASSUME NEW s \in Sched, CommitJob(s) PROVE Claims'
  <2>1. PICK y, r, o : Committed(s, y, r, o) /\ UNCHANGED <<event, handled>>
    BY <1>6, CommitJobEffect
  <2>2. y \in Session /\ tx' = [tx EXCEPT ![s] = y]
    BY <2>1 DEF Committed
  <2>3. QED
    BY <1>1, <2>1, <2>2, Disjoint
<1>7. ASSUME NEW d \in Delivery, NEW y \in Session, Appended(d, y), Accepted(d) PROVE Claims'
  BY <1>3, <1>7 DEF Appended
<1>8. ASSUME NEW c \in Creator, NEW y \in Session, Sent(c, y) PROVE Claims'
  BY <1>1, <1>8 DEF Sent, Claiming
<1>9. ASSUME NEW s \in Sched, NEW y \in Session, Elected(s, y) \/ Settled(s, y) PROVE Claims'
  BY <1>1, <1>9, Disjoint DEF Elected, Settled
<1>10. CASE UNCHANGED <<event, handled, tx>>
  BY <1>10, ClaimsShrink DEF ClaimsEvent
<1>11. QED
  BY <1>2, <1>4, <1>5, <1>6, <1>7, <1>8, <1>9, <1>10, Cases, QuietClaims
     DEF LeaderExpires, SaveJob, MoveRun, NewDay, TimePasses, slack

(* Whatever Slack delivers twice or at the same time, the unique           *)
(* slack_events row hands the text of an event to one run, once.           *)
THEOREM HandledOnce == Spec => []EventHandledOnce
<1>1. Init => Claims
  <2> SUFFICES ASSUME Init PROVE Claims
    OBVIOUS
  <2>1. \A e \in Event : handled[e] = 0
    BY DEF Init
  <2>2. \A d \in Delivery : tx[d].pc \notin Claiming
    BY IdleSession, Disjoint DEF Init, Claiming
  <2>3. QED
    BY <2>1, <2>2 DEF Claims, ClaimsEvent
<1>2. TInv /\ Claims /\ [Next]_vars => Claims'
  <2>1. ASSUME Claims, UNCHANGED vars PROVE Claims'
    BY <2>1 DEF Claims, ClaimsEvent, vars
  <2>2. QED
    BY <2>1, ClaimsStep
<1>3. Claims => EventHandledOnce
  BY DEF Claims, EventHandledOnce
<1>4. QED
  BY <1>1, <1>2, <1>3, TypeInit, TypeStep, PTL DEF Spec
-----------------------------------------------------------------------------
(* enforce_tenant_run_quota.  A creator that passes has seen a free place, *)
(* a commit turns an admission into a run, and nothing else adds to either *)
(* side.                                                                   *)
LEMMA ActiveShrinks == ASSUME TInv, Updated PROVE Active' \subseteq Active
BY DEF Updated, Active, Terminal

LEMMA FiniteCounts ==
  /\ IsFiniteSet(Active) /\ IsFiniteSet(Admitted)
  /\ Cardinality(Active) \in Nat /\ Cardinality(Admitted) \in Nat /\ Cardinality(Creator) \in Nat
  /\ Cardinality(Admitted) <= Cardinality(Creator)
<1>1. IsFiniteSet(Run)
  BY FS_Interval, IngressAssumption DEF Run
<1>2. Active \subseteq Run /\ Admitted \subseteq Creator
  BY DEF Active, Admitted
<1>3. QED
  BY <1>1, <1>2, FS_Subset, FS_CardinalityType, IngressAssumption

LEMMA FiniteCountsNext ==
  /\ IsFiniteSet(Active') /\ IsFiniteSet(Admitted')
  /\ Cardinality(Active') \in Nat /\ Cardinality(Admitted') \in Nat
  /\ Cardinality(Admitted') <= Cardinality(Creator)
<1>1. IsFiniteSet(Run)
  BY FS_Interval, IngressAssumption DEF Run
<1>2. Active' \subseteq Run /\ Admitted' \subseteq Creator
  BY DEF Active, Admitted
<1>3. QED
  BY <1>1, <1>2, FS_Subset, FS_CardinalityType, IngressAssumption

LEMMA CountsShrink ==
  ASSUME TInv, QuotaOvershootIsBounded, Active' \subseteq Active, Admitted' \subseteq Admitted
  PROVE  QuotaOvershootIsBounded'
<1>1. /\ Cardinality(Active') <= Cardinality(Active)
      /\ Cardinality(Admitted') <= Cardinality(Admitted)
  BY FiniteCounts, FS_Subset
<1>2. QED
  BY <1>1, FiniteCounts, FiniteCountsNext, IngressAssumption DEF QuotaOvershootIsBounded

LEMMA CommitCounts ==
  ASSUME TInv, QuotaOvershootIsBounded, NEW c \in Creator, NEW y, NEW r, NEW o,
         Committed(c, y, r, o)
  PROVE  QuotaOvershootIsBounded'
<1>1. Created(r, o) /\ r \in Run
  BY CommittedCreates
<1>2. Active' \subseteq Active \cup {r}
  BY <1>1 DEF Created, Active
<1>3. c \in Admitted /\ Admitted' = Admitted \ {c}
  BY DEF Committed, Admitted, TInv, TypeOK
<1>4. Cardinality(Admitted') = Cardinality(Admitted) - 1
  BY <1>3, FiniteCounts, FS_RemoveElement
<1>5. Cardinality(Active') <= Cardinality(Active) + 1
  <2>1. /\ IsFiniteSet(Active \cup {r})
        /\ Cardinality(Active \cup {r}) \in {Cardinality(Active), Cardinality(Active) + 1}
    BY FiniteCounts, FS_AddElement
  <2>2. Cardinality(Active') <= Cardinality(Active \cup {r})
    BY <1>2, <2>1, FS_Subset
  <2>3. QED
    BY <2>1, <2>2, FiniteCounts, FiniteCountsNext
<1>6. QED
  BY <1>4, <1>5, FiniteCounts, FiniteCountsNext, IngressAssumption DEF QuotaOvershootIsBounded

LEMMA AdmittedStep ==
  ASSUME TInv, NEW c \in Creator, NEW y \in Session, tx' = [tx EXCEPT ![c] = y], y.pc # "commit"
  PROVE  Admitted' \subseteq Admitted
BY DEF Admitted, TInv, TypeOK

LEMMA QuotaStep == ASSUME TInv, QuotaOvershootIsBounded, Next PROVE QuotaOvershootIsBounded'
<1>1. ASSUME NEW c \in Creator, NEW y \in Session, Quiet(c, y) PROVE QuotaOvershootIsBounded'
  <2>1. Active' = Active
    BY <1>1 DEF Quiet, Active
  <2>2. CASE y.pc # "commit"
    BY <1>1, <2>1, <2>2, AdmittedStep, CountsShrink DEF Quiet
  <2>3. CASE y.pc = "commit"
    <3>1. ~(Cardinality(Active) >= MaxActive)
      BY <1>1, <2>3 DEF Quiet, QuotaReached
    <3>2. QED
      BY <2>1, <3>1, FiniteCounts, FiniteCountsNext, IngressAssumption DEF QuotaOvershootIsBounded
  <2>4. QED
    BY <2>2, <2>3
<1>2. ASSUME NEW c \in Creator, NEW y \in Session, tx' = [tx EXCEPT ![c] = y], y.pc # "commit",
             Updated
      PROVE  QuotaOvershootIsBounded'
  BY <1>2, ActiveShrinks, AdmittedStep, CountsShrink
<1>3. ASSUME Updated, UNCHANGED tx PROVE QuotaOvershootIsBounded'
  <2>1. Admitted' = Admitted
    BY <1>3 DEF Admitted
  <2>2. QED
    BY <1>3, <2>1, ActiveShrinks, CountsShrink
<1>4. ASSUME NEW d \in Delivery, NEW e \in Event, NEW y \in Session, Recorded(d, e, y)
      PROVE  QuotaOvershootIsBounded'
  BY <1>2, <1>4, SameRunsUpdates, Disjoint DEF Recorded
<1>5. ASSUME NEW q \in Request, NEW y \in Session, NEW r \in Run,
             Committed(q, y, r, [kind |-> "api", of |-> q])
      PROVE  QuotaOvershootIsBounded'
  BY <1>5, CommitCounts, Disjoint
<1>6. ASSUME NEW d \in Delivery, CommitThread(d), ~UNCHANGED handled
      PROVE  QuotaOvershootIsBounded'
  BY <1>6, CommitThreadEffect, CommitCounts, Disjoint
<1>7. ASSUME NEW s \in Sched, CommitJob(s) PROVE QuotaOvershootIsBounded'
  BY <1>7, CommitJobEffect, CommitCounts, Disjoint
<1>8. ASSUME NEW d \in Delivery, NEW y \in Session, Appended(d, y) PROVE QuotaOvershootIsBounded'
  BY <1>2, <1>8, AppendedUpdates, Disjoint DEF Appended
<1>9. ASSUME NEW c \in Creator, NEW y \in Session, Sent(c, y) PROVE QuotaOvershootIsBounded'
  BY <1>2, <1>9, SameRunsUpdates DEF Sent
<1>10. ASSUME NEW s \in Sched, NEW y \in Session, Elected(s, y) \/ Settled(s, y)
       PROVE  QuotaOvershootIsBounded'
  BY <1>2, <1>10, SameRunsUpdates, Disjoint DEF Elected, Settled
<1>11. ASSUME NEW r \in Run, NEW status \in Status, MoveRun(r, status)
       PROVE  QuotaOvershootIsBounded'
  BY <1>3, <1>11, MovedUpdates DEF MoveRun
<1>12. CASE UNCHANGED <<run, tx>>
  BY <1>3, <1>12, SameRunsUpdates
<1>13. QED
  BY <1>1, <1>4, <1>5, <1>6, <1>7, <1>8, <1>9, <1>10, <1>11, <1>12, Cases
     DEF LeaderExpires, SaveJob, NewDay, TimePasses

(* The quota is counted before the insert and nothing locks in between;    *)
(* still, active runs never exceed max_active_runs by as many as there are *)
(* creators, whatever the interleaving.                                    *)
THEOREM OvershootBounded == Spec => []QuotaOvershootIsBounded
<1>1. Init => QuotaOvershootIsBounded
  <2> SUFFICES ASSUME Init PROVE QuotaOvershootIsBounded
    OBVIOUS
  <2>1. Active = {} /\ Admitted = {}
    BY DEF Init, Active, Admitted, Idle
  <2>2. Cardinality(Creator) # 0
    BY FS_EmptySet, IngressAssumption
  <2>3. QED
    BY <2>1, <2>2, FS_EmptySet, FiniteCounts, IngressAssumption DEF QuotaOvershootIsBounded
<1>2. TInv /\ QuotaOvershootIsBounded /\ [Next]_vars => QuotaOvershootIsBounded'
  <2>1. ASSUME QuotaOvershootIsBounded, UNCHANGED vars PROVE QuotaOvershootIsBounded'
    BY <2>1 DEF QuotaOvershootIsBounded, Active, Admitted, vars
  <2>2. QED
    BY <2>1, QuotaStep
<1>3. QED
  BY <1>1, <1>2, TypeInit, TypeStep, PTL DEF Spec
-----------------------------------------------------------------------------
(* Publish after commit.  A commit hands its run to the publish that       *)
(* follows; only a publish that fails, or a crash before it, lets go of a  *)
(* run, and it counts as a fault.                                          *)
Stranded == {r \in Run : run[r] # NULL /\ ~published[r] /\ r \notin Publishing}

LEMMA StrandedFinite == IsFiniteSet(Stranded) /\ Cardinality(Stranded) \in Nat
<1>1. IsFiniteSet(Run) /\ Stranded \subseteq Run
  BY FS_Interval, IngressAssumption DEF Run, Stranded
<1>2. QED
  BY <1>1, FS_Subset, FS_CardinalityType

LEMMA StrandedShrinks ==
  ASSUME TInv, Cardinality(Stranded) <= faults, Next, Stranded' \subseteq Stranded
  PROVE  Cardinality(Stranded') <= faults'
<1>1. Cardinality(Stranded') <= Cardinality(Stranded) /\ IsFiniteSet(Stranded')
  BY StrandedFinite, FS_Subset
<1>2. faults \in Nat /\ faults' \in Nat /\ faults <= faults'
  BY Simple DEF TInv, TypeOK
<1>3. QED
  BY <1>1, <1>2, StrandedFinite, FS_CardinalityType

LEMMA PublishingReplaced ==
  ASSUME TInv, NEW c \in Creator, NEW y \in Session, tx' = [tx EXCEPT ![c] = y]
  PROVE  /\ \A b \in Creator : b # c /\ tx[b].pc = "publish" => tx[b].run \in Publishing'
         /\ y.pc = "publish" => y.run \in Publishing'
         /\ tx[c].pc # "publish" => Publishing \subseteq Publishing'
<1>1. tx'[c] = y /\ \A b \in Creator : b # c => tx'[b] = tx[b]
  BY DEF TInv, TypeOK
<1>2. QED
  BY <1>1 DEF Publishing

LEMMA StrandedStep ==
  ASSUME TInv, Cardinality(Stranded) <= faults, Next
  PROVE  Cardinality(Stranded') <= faults'
<1>0. \A r \in Run : Updated /\ run'[r] # NULL => run[r] # NULL
  BY DEF Updated
<1>1. ASSUME NEW c \in Creator, NEW y \in Session, tx' = [tx EXCEPT ![c] = y],
             tx[c].pc # "publish", Updated, UNCHANGED published
      PROVE  Cardinality(Stranded') <= faults'
  <2>1. Publishing \subseteq Publishing'
    BY <1>1, PublishingReplaced
  <2>2. Stranded' \subseteq Stranded
    BY <1>0, <1>1, <2>1 DEF Stranded
  <2>3. QED
    BY <2>2, StrandedShrinks
<1>2. ASSUME Updated, UNCHANGED <<published, tx>> PROVE Cardinality(Stranded') <= faults'
  <2>1. Stranded' \subseteq Stranded
    BY <1>0, <1>2 DEF Stranded, Publishing
  <2>2. QED
    BY <2>1, StrandedShrinks
<1>3. ASSUME NEW c \in Creator, NEW y, NEW r, NEW o, Committed(c, y, r, o)
      PROVE  Cardinality(Stranded') <= faults'
  <2>1. Created(r, o) /\ r \in Run /\ y \in Session
    BY <1>3, CommittedCreates
  <2>2. Publishing \subseteq Publishing' /\ r \in Publishing' /\ UNCHANGED published
    BY <1>3, <2>1, PublishingReplaced DEF Committed
  <2>3. Stranded' \subseteq Stranded
    BY <2>1, <2>2 DEF Stranded, Created
  <2>4. QED
    BY <2>3, StrandedShrinks
<1>4. ASSUME NEW c \in Creator, NEW y \in Session, Sent(c, y)
      PROVE  Cardinality(Stranded') <= faults'
  <2>1. UNCHANGED run /\ tx' = [tx EXCEPT ![c] = y] /\ tx[c].pc = "publish"
    BY <1>4 DEF Sent
  <2>2. tx[c].run \in Run
    BY <2>1, SessionFacts DEF Local
  <2>3. Publishing \subseteq Publishing' \cup {tx[c].run}
    BY <2>1, PublishingReplaced DEF Publishing
  <2>4. CASE published' = [published EXCEPT ![tx[c].run] = TRUE]
    <3>1. published'[tx[c].run] /\ \A r \in Run : r # tx[c].run => published'[r] = published[r]
      BY <2>2, <2>4 DEF TInv, TypeOK
    <3>2. Stranded' \subseteq Stranded
      BY <2>1, <2>3, <3>1 DEF Stranded
    <3>3. QED
      BY <3>2, StrandedShrinks
  <2>5. CASE UNCHANGED published /\ faults' = faults + 1
    <3>1. Stranded' \subseteq Stranded \cup {tx[c].run}
      BY <2>1, <2>3, <2>5 DEF Stranded
    <3>2. /\ IsFiniteSet(Stranded \cup {tx[c].run})
          /\ Cardinality(Stranded \cup {tx[c].run}) \in
               {Cardinality(Stranded), Cardinality(Stranded) + 1}
      BY StrandedFinite, FS_AddElement
    <3>3. /\ Cardinality(Stranded') <= Cardinality(Stranded \cup {tx[c].run})
          /\ Cardinality(Stranded') \in Nat
      BY <3>1, <3>2, FS_Subset, FS_CardinalityType
    <3>4. faults \in Nat
      BY DEF TInv, TypeOK
    <3>5. QED
      BY <2>5, <3>2, <3>3, <3>4, StrandedFinite
  <2>6. QED
    BY <1>4, <2>4, <2>5 DEF Sent
<1>5. ASSUME NEW c \in Creator, NEW y \in Session, Quiet(c, y)
      PROVE  Cardinality(Stranded') <= faults'
  BY <1>1, <1>5, SameRunsUpdates DEF Quiet
<1>6. ASSUME NEW d \in Delivery, NEW e \in Event, NEW y \in Session, Recorded(d, e, y)
      PROVE  Cardinality(Stranded') <= faults'
  BY <1>1, <1>6, SameRunsUpdates, Disjoint DEF Recorded
<1>7. ASSUME NEW q \in Request, NEW y \in Session, NEW r \in Run,
             Committed(q, y, r, [kind |-> "api", of |-> q])
      PROVE  Cardinality(Stranded') <= faults'
  BY <1>3, <1>7, Disjoint
<1>8. ASSUME NEW d \in Delivery, CommitThread(d), ~UNCHANGED handled
      PROVE  Cardinality(Stranded') <= faults'
  BY <1>3, <1>8, CommitThreadEffect, Disjoint
<1>9. ASSUME NEW s \in Sched, CommitJob(s) PROVE Cardinality(Stranded') <= faults'
  BY <1>3, <1>9, CommitJobEffect, Disjoint
<1>10. ASSUME NEW d \in Delivery, NEW y \in Session, Appended(d, y)
       PROVE  Cardinality(Stranded') <= faults'
  BY <1>1, <1>10, AppendedUpdates, Disjoint DEF Appended
<1>11. ASSUME NEW s \in Sched, NEW y \in Session, Elected(s, y) \/ Settled(s, y)
       PROVE  Cardinality(Stranded') <= faults'
  BY <1>1, <1>11, SameRunsUpdates, Disjoint DEF Elected, Settled
<1>12. ASSUME NEW r \in Run, NEW status \in Status, MoveRun(r, status)
       PROVE  Cardinality(Stranded') <= faults'
  BY <1>2, <1>12, MovedUpdates DEF MoveRun
<1>13. CASE UNCHANGED <<run, published, tx>>
  BY <1>2, <1>13, SameRunsUpdates
<1>14. QED
  BY <1>4, <1>5, <1>6, <1>7, <1>8, <1>9, <1>10, <1>11, <1>12, <1>13, Cases
     DEF LeaderExpires, SaveJob, NewDay, TimePasses

(* Healthy creators strand no run: each one that waits for a first message *)
(* nobody is going to send is accounted for by a failed publish or a crash.*)
THEOREM StrandedByFault == Spec => []StrandedOnlyByFault
<1>1. Init => Cardinality(Stranded) <= faults
  <2> SUFFICES ASSUME Init PROVE Cardinality(Stranded) <= faults
    OBVIOUS
  <2>1. Stranded = {} /\ faults = 0
    BY DEF Init, Stranded
  <2>2. QED
    BY <2>1, FS_EmptySet
<1>2. ASSUME TInv, Cardinality(Stranded) <= faults, [Next]_vars
      PROVE  (Cardinality(Stranded) <= faults)'
  <2>1. ASSUME UNCHANGED vars PROVE (Cardinality(Stranded) <= faults)'
    BY <1>2, <2>1 DEF Stranded, Publishing, vars
  <2>2. QED
    BY <1>2, <2>1, StrandedStep
<1>3. Cardinality(Stranded) <= faults <=> StrandedOnlyByFault
  BY DEF Stranded, StrandedOnlyByFault
<1>4. QED
  BY <1>1, <1>2, <1>3, TypeInit, TypeStep, PTL DEF Spec
-----------------------------------------------------------------------------
(* A cron instant is fired once for each claim on it.  A slot that is      *)
(* still to come, that the job's row names, or that the leader has taken   *)
(* is open: that is one claim, however it is passed on.  A scheduler that  *)
(* lost the lock during its tick keeps the slots it has read: each of      *)
(* these is a further claim, and the lapse has been counted.               *)
Holds(s, j, t)  == HeldBy(tx[s], j, t)
Fired(j, t)     == RunsOf([kind |-> "job", of |-> <<j, t>>])
Overtaken(j, t) == {s \in Sched : s # leader /\ Holds(s, j, t)}
Open(j, t)      == \/ t > now
                   \/ job[j] # NULL /\ job[j].next = t
                   \/ leader # NULL /\ Holds(leader, j, t)

SlotClaims(j, t) ==
  Cardinality(Fired(j, t)) + Cardinality(Overtaken(j, t)) + (IF Open(j, t) THEN 1 ELSE 0)

Slots == \A j \in Job, t \in Time : SlotClaims(j, t) <= 1 + lapses

LEMMA SlotsFinite ==
  ASSUME NEW j \in Job, NEW t \in Time
  PROVE  /\ IsFiniteSet(Fired(j, t)) /\ Cardinality(Fired(j, t)) \in Nat
         /\ IsFiniteSet(Overtaken(j, t)) /\ Cardinality(Overtaken(j, t)) \in Nat
         /\ IsFiniteSet(Fired(j, t)') /\ Cardinality(Fired(j, t)') \in Nat
         /\ IsFiniteSet(Overtaken(j, t)') /\ Cardinality(Overtaken(j, t)') \in Nat
<1>0. IsFiniteSet(Run)
  BY FS_Interval, IngressAssumption DEF Run
<1>1. IsFiniteSet(Sched)
  <2>1. Sched \subseteq Creator
    BY DEF Creator
  <2>2. QED
    BY <2>1, FS_Subset, IngressAssumption
<1>2. /\ Fired(j, t) \subseteq Run /\ Fired(j, t)' \subseteq Run
      /\ Overtaken(j, t) \subseteq Sched /\ Overtaken(j, t)' \subseteq Sched
  BY DEF Fired, RunsOf, Overtaken
<1>3. QED
  BY <1>0, <1>1, <1>2, FS_Subset, FS_CardinalityType

LEMMA LapsesNat == ASSUME TInv, Next PROVE lapses \in Nat /\ lapses' \in Nat /\ lapses <= lapses'
BY Simple DEF TInv, TypeOK

LEMMA SlotShrinks ==
  ASSUME TInv, Next, Slots, NEW j \in Job, NEW t \in Time,
         Fired(j, t)' = Fired(j, t), Overtaken(j, t)' \subseteq Overtaken(j, t),
         Open(j, t)' => Open(j, t)
  PROVE  SlotClaims(j, t)' <= 1 + lapses'
<1>1. Cardinality(Overtaken(j, t)') <= Cardinality(Overtaken(j, t))
  BY SlotsFinite, FS_Subset
<1>2. SlotClaims(j, t) <= 1 + lapses
  BY DEF Slots
<1>3. QED
  BY <1>1, <1>2, SlotsFinite, LapsesNat DEF SlotClaims

LEMMA HoldsReplaced ==
  ASSUME TInv, NEW c \in Creator, NEW y \in Session, tx' = [tx EXCEPT ![c] = y],
         NEW j \in Job, NEW t \in Time
  PROVE  /\ \A s \in Sched : s # c => (Holds(s, j, t)' <=> Holds(s, j, t))
         /\ Holds(c, j, t)' <=> HeldBy(y, j, t)
<1>1. tx'[c] = y /\ \A b \in Creator : b # c => tx'[b] = tx[b]
  BY DEF TInv, TypeOK
<1>2. QED
  BY <1>1, Disjoint DEF Holds, HeldBy

(* A session gives slots up, and everything else that matters is as it was. *)
LEMMA SlotReleased ==
  ASSUME TInv, Next, Slots, NEW c \in Creator, NEW y \in Session, tx' = [tx EXCEPT ![c] = y],
         NEW j \in Job, NEW t \in Time, c \in Sched /\ HeldBy(y, j, t) => HeldBy(tx[c], j, t),
         Fired(j, t)' = Fired(j, t), UNCHANGED <<now, leader>>,
         job'[j] # NULL /\ job'[j].next = t => t > now \/ (job[j] # NULL /\ job[j].next = t)
  PROVE  SlotClaims(j, t)' <= 1 + lapses'
<1>1. \A s \in Sched : Holds(s, j, t)' => Holds(s, j, t)
  BY HoldsReplaced DEF Holds
<1>2. leader \in Sched \cup {NULL}
  BY DEF TInv, TypeOK
<1>3. Overtaken(j, t)' \subseteq Overtaken(j, t)
  BY <1>1 DEF Overtaken
<1>4. Open(j, t)' => Open(j, t)
  BY <1>1, <1>2 DEF Open, Holds
<1>5. QED
  BY <1>3, <1>4, SlotShrinks

LEMMA JobOrigin ==
  ASSUME NEW j, NEW t, NEW k, NEW u,
         [kind |-> "job", of |-> <<j, t>>] = [kind |-> "job", of |-> <<k, u>>]
  PROVE  j = k /\ t = u
<1>1. <<j, t>> = <<k, u>>
  <2>1. [kind |-> "job", of |-> <<j, t>>].of = [kind |-> "job", of |-> <<k, u>>].of
    OBVIOUS
  <2>2. QED
    BY <2>1
<1>2. QED
  BY <1>1

LEMMA FiredKept ==
  ASSUME TInv, Updated, NEW j, NEW t
  PROVE  Fired(j, t)' = Fired(j, t)
BY OriginKept DEF Fired

LEMMA FiredOther ==
  ASSUME TInv, NEW c \in Creator, NEW y, NEW r, NEW o, Committed(c, y, r, o),
         NEW j, NEW t, o # [kind |-> "job", of |-> <<j, t>>]
  PROVE  Fired(j, t)' = Fired(j, t)
BY CommittedCreates, OriginCreated DEF Fired

(* The commit that fires the slot: the run takes the place of the claim. *)
LEMMA SlotFires ==
  ASSUME TInv, Next, Slots, NEW s \in Sched, CommitJob(s),
         NEW j \in Job, NEW t \in Time, tx[s].cur.job = j, tx[s].cur.slot = t
  PROVE  SlotClaims(j, t)' <= 1 + lapses'
<1>0. s \in Creator /\ Local(s, tx[s]) /\ tx[s] \in Session /\ tx[s].pc = "commit"
  BY Disjoint, SessionFacts DEF CommitJob
<1>1. PICK y, r : Committed(s, y, r, [kind |-> "job", of |-> <<j, t>>])
  BY CommitJobEffect
<1>2. r \in Run /\ y \in Session /\ Created(r, [kind |-> "job", of |-> <<j, t>>])
  BY <1>0, <1>1, CommittedCreates
<1>3. /\ tx' = [tx EXCEPT ![s] = y] /\ y.pc = "publish" /\ y.due = tx[s].due
      /\ UNCHANGED <<now, leader, lapses>>
  BY <1>1 DEF Committed
<1>4. Fired(j, t)' = Fired(j, t) \cup {r}
  BY <1>2, OriginCreated DEF Fired
<1>5. Cardinality(Fired(j, t)') <= Cardinality(Fired(j, t)) + 1
  <2>1. Cardinality(Fired(j, t) \cup {r}) \in {Cardinality(Fired(j, t)), Cardinality(Fired(j, t)) + 1}
    BY SlotsFinite, FS_AddElement
  <2>2. QED
    BY <1>4, <2>1, SlotsFinite
<1>6. Holds(s, j, t)
  BY <1>0 DEF Holds, HeldBy, Firing
<1>7. ~HeldBy(y, j, t)
  BY <1>0, <1>3 DEF HeldBy, Local, Firing
<1>8. \A b \in Sched : b # s => (Holds(b, j, t)' <=> Holds(b, j, t))
  BY <1>0, <1>2, <1>3, HoldsReplaced
<1>9. ~Holds(s, j, t)'
  BY <1>0, <1>2, <1>3, <1>7, HoldsReplaced
<1>10. ~(t > now) /\ ~(job'[j] # NULL /\ job'[j].next = t)
  <2>1. t <= now /\ job'[j].next = now + 1
    BY CommitJobEffect
  <2>2. t \in Nat /\ now \in Nat
    BY NowFacts DEF Time
  <2>3. QED
    BY <2>1, <2>2
<1>11. leader \in Sched \cup {NULL}
  BY DEF TInv, TypeOK
<1>12. SlotClaims(j, t) <= 1 + lapses
  BY DEF Slots
<1>13. CASE s = leader
  <2>1. Open(j, t)
    BY <1>6, <1>13, IngressAssumption, <1>0 DEF Open
  <2>2. ~Open(j, t)'
    BY <1>3, <1>9, <1>10, <1>13 DEF Open, Holds
  <2>3. Overtaken(j, t)' = Overtaken(j, t)
    BY <1>3, <1>8, <1>13 DEF Overtaken
  <2>4. QED
    BY <1>3, <1>5, <1>12, <2>1, <2>2, <2>3, SlotsFinite, LapsesNat DEF SlotClaims
<1>14. CASE s # leader
  <2>1. s \in Overtaken(j, t) /\ Overtaken(j, t)' = Overtaken(j, t) \ {s}
    BY <1>3, <1>6, <1>8, <1>9, <1>14 DEF Overtaken
  <2>2. Cardinality(Overtaken(j, t)') = Cardinality(Overtaken(j, t)) - 1
    <3>1. IsFiniteSet(Overtaken(j, t)) /\ Cardinality(Overtaken(j, t)) \in Nat
      BY SlotsFinite
    <3>2. Cardinality(Overtaken(j, t) \ {s}) = Cardinality(Overtaken(j, t)) - 1
      BY <2>1, <3>1, FS_RemoveElement
    <3>3. QED
      BY <2>1, <3>2
  <2>3. Open(j, t)' => Open(j, t)
    BY <1>3, <1>8, <1>10, <1>11, <1>14 DEF Open, Holds
  <2>4. QED
    BY <1>3, <1>5, <1>12, <2>2, <2>3, SlotsFinite, LapsesNat DEF SlotClaims
<1>15. QED
  BY <1>13, <1>14

LEMMA CommitJobSlots ==
  ASSUME TInv, Next, Slots, NEW s \in Sched, CommitJob(s), NEW j \in Job, NEW t \in Time
  PROVE  SlotClaims(j, t)' <= 1 + lapses'
<1> DEFINE k == tx[s].cur.job
           u == tx[s].cur.slot
<1>1. CASE k = j /\ u = t
  BY <1>1, SlotFires
<1>2. CASE ~(k = j /\ u = t)
  <2>0. s \in Creator /\ tx[s].pc = "commit"
    BY Disjoint DEF CommitJob
  <2>1. PICK y, r : Committed(s, y, r, [kind |-> "job", of |-> <<k, u>>])
    BY CommitJobEffect
  <2>2. /\ y \in Session /\ tx' = [tx EXCEPT ![s] = y] /\ y.pc = "publish" /\ y.due = tx[s].due
        /\ UNCHANGED <<now, leader>>
    BY <2>1 DEF Committed
  <2>3. job'[k].next = now + 1 /\ \A i \in Job : i # k => job'[i] = job[i]
    BY CommitJobEffect
  <2>4. now \in Nat /\ t \in Nat
    BY NowFacts DEF Time
  <2> HIDE DEF k, u
  <2>5. [kind |-> "job", of |-> <<k, u>>] # [kind |-> "job", of |-> <<j, t>>]
    BY <1>2, JobOrigin
  <2>6. Fired(j, t)' = Fired(j, t)
    BY <2>0, <2>1, <2>5, FiredOther
  <2>7. HeldBy(y, j, t) => HeldBy(tx[s], j, t)
    BY <2>2 DEF HeldBy, Firing
  <2>8. job'[j] # NULL /\ job'[j].next = t => t > now \/ (job[j] # NULL /\ job[j].next = t)
    BY <2>3, <2>4
  <2>9. QED
    BY <2>0, <2>2, <2>6, <2>7, <2>8, SlotReleased
<1>3. QED
  BY <1>1, <1>2

LEMMA ElectedSlots ==
  ASSUME TInv, Next, Slots, NEW s \in Sched, NEW y \in Session, Elected(s, y),
         NEW j \in Job, NEW t \in Time
  PROVE  SlotClaims(j, t)' <= 1 + lapses'
<1>1. /\ tx' = [tx EXCEPT ![s] = y] /\ y.pc = "pick" /\ y.due = DueJobs
      /\ leader = NULL /\ leader' = s /\ UNCHANGED <<now, run, job>>
  BY DEF Elected
<1>2. s \in Creator
  BY Disjoint
<1>3. \A b \in Sched : b # s => (Holds(b, j, t)' <=> Holds(b, j, t))
  BY <1>1, <1>2, HoldsReplaced
<1>4. Holds(s, j, t)' => job[j] # NULL /\ job[j].next = t
  <2>1. Holds(s, j, t)' => HeldBy(y, j, t)
    BY <1>1, <1>2, HoldsReplaced
  <2>2. HeldBy(y, j, t) => job[j] # NULL /\ job[j].next = t
    BY <1>1, DueJobsFacts DEF HeldBy, Firing
  <2>3. QED
    BY <2>1, <2>2
<1>5. \A b \in Sched : b # NULL
  BY IngressAssumption DEF Creator
<1>6. Overtaken(j, t)' \subseteq Overtaken(j, t)
  BY <1>1, <1>3, <1>5 DEF Overtaken
<1>7. Open(j, t)' => Open(j, t)
  BY <1>1, <1>4 DEF Open, Holds
<1>8. Fired(j, t)' = Fired(j, t)
  BY <1>1, SameRunsUpdates, FiredKept
<1>9. QED
  BY <1>6, <1>7, <1>8, SlotShrinks

(* The lock expires; if its holder is in a tick, this is a lapse. *)
LEMMA ExpiredSlots ==
  ASSUME TInv, Next, Slots, LeaderExpires, NEW j \in Job, NEW t \in Time
  PROVE  SlotClaims(j, t)' <= 1 + lapses'
<1>1. leader # NULL /\ leader \in Sched /\ leader' = NULL /\ UNCHANGED <<now, run, job, tx>>
  BY DEF LeaderExpires, TInv, TypeOK, env
<1>2. \A b \in Sched : Holds(b, j, t)' <=> Holds(b, j, t)
  BY <1>1 DEF Holds, HeldBy
<1>3. Fired(j, t)' = Fired(j, t)
  BY <1>1, SameRunsUpdates, FiredKept
<1>4. Open(j, t)' => Open(j, t)
  BY <1>1 DEF Open
<1>5. Overtaken(j, t)' \subseteq Overtaken(j, t) \cup {leader}
  BY <1>1, <1>2 DEF Overtaken
<1>6. CASE Ticking(leader)
  <2>1. lapses' = lapses + 1
    BY <1>6 DEF LeaderExpires
  <2>2. /\ IsFiniteSet(Overtaken(j, t) \cup {leader})
        /\ Cardinality(Overtaken(j, t) \cup {leader}) \in
             {Cardinality(Overtaken(j, t)), Cardinality(Overtaken(j, t)) + 1}
    BY SlotsFinite, FS_AddElement
  <2>3. Cardinality(Overtaken(j, t)') <= Cardinality(Overtaken(j, t) \cup {leader})
    BY <1>5, <2>2, FS_Subset
  <2>4. SlotClaims(j, t) <= 1 + lapses
    BY DEF Slots
  <2>5. QED
    BY <1>3, <1>4, <2>1, <2>2, <2>3, <2>4, SlotsFinite, LapsesNat DEF SlotClaims
<1>7. CASE ~Ticking(leader)
  <2>1. tx[leader].pc \in {"idle", "dead"} /\ tx[leader].due = {}
    BY <1>1, <1>7, Disjoint, SessionFacts DEF Ticking, Local
  <2>2. ~Holds(leader, j, t)
    BY <2>1 DEF Holds, HeldBy, Firing
  <2>3. Overtaken(j, t)' \subseteq Overtaken(j, t)
    BY <1>1, <1>2, <2>2 DEF Overtaken
  <2>4. QED
    BY <1>3, <1>4, <2>3, SlotShrinks
<1>8. QED
  BY <1>6, <1>7

(* SaveJob, MoveRun, NewDay, TimePasses *)
LEMMA OtherSlots ==
  ASSUME TInv, Next, Slots, Updated, UNCHANGED <<tx, leader>>, now' \in Nat, now <= now',
         NEW j \in Job, NEW t \in Time,
         job'[j] # NULL /\ job'[j].next = t => t > now \/ (job[j] # NULL /\ job[j].next = t)
  PROVE  SlotClaims(j, t)' <= 1 + lapses'
<1>1. \A b : Holds(b, j, t)' <=> Holds(b, j, t)
  BY DEF Holds, HeldBy
<1>2. Overtaken(j, t)' \subseteq Overtaken(j, t)
  BY <1>1 DEF Overtaken
<1>3. t \in Nat /\ now \in Nat
  BY NowFacts DEF Time
<1>4. Open(j, t)' => Open(j, t)
  BY <1>1, <1>3 DEF Open, Holds
<1>5. QED
  BY <1>2, <1>4, FiredKept, SlotShrinks

LEMMA SlotsStep == ASSUME TInv, Slots, Next PROVE Slots'
<1>0. now' \in Nat /\ now <= now'
  BY Simple DEF Time
<1>1. SUFFICES ASSUME NEW j \in Job, NEW t \in Time
               PROVE  SlotClaims(j, t)' <= 1 + lapses'
  BY DEF Slots
<1>2. ASSUME NEW c \in Creator, NEW y \in Session, tx' = [tx EXCEPT ![c] = y],
             c \in Sched /\ HeldBy(y, j, t) => HeldBy(tx[c], j, t),
             Fired(j, t)' = Fired(j, t), UNCHANGED <<now, leader, job>>
      PROVE  SlotClaims(j, t)' <= 1 + lapses'
  BY <1>2, SlotReleased
<1>3. ASSUME NEW c \in Creator, NEW y \in Session, Quiet(c, y)
      PROVE  SlotClaims(j, t)' <= 1 + lapses'
  BY <1>2, <1>3, SameRunsUpdates, FiredKept DEF Quiet
<1>4. ASSUME NEW d \in Delivery, NEW e \in Event, NEW y \in Session, Recorded(d, e, y)
      PROVE  SlotClaims(j, t)' <= 1 + lapses'
  BY <1>2, <1>4, SameRunsUpdates, FiredKept, Disjoint DEF Recorded
<1>5. ASSUME NEW q \in Request, NEW y \in Session, NEW r \in Run,
             Committed(q, y, r, [kind |-> "api", of |-> q]), UNCHANGED job
      PROVE  SlotClaims(j, t)' <= 1 + lapses'
  <2>1. [kind |-> "api", of |-> q] # [kind |-> "job", of |-> <<j, t>>]
    OBVIOUS
  <2>2. Fired(j, t)' = Fired(j, t)
    BY <1>5, <2>1, FiredOther, Disjoint
  <2>3. QED
    BY <1>2, <1>5, <2>2, Disjoint DEF Committed
<1>6. ASSUME NEW d \in Delivery, CommitThread(d), ~UNCHANGED handled
      PROVE  SlotClaims(j, t)' <= 1 + lapses'
  <2>1. PICK u, y, r : Committed(d, y, r, [kind |-> "slack", of |-> u]) /\ UNCHANGED job
    BY <1>6, CommitThreadEffect
  <2>2. [kind |-> "slack", of |-> u] # [kind |-> "job", of |-> <<j, t>>]
    OBVIOUS
  <2>3. Fired(j, t)' = Fired(j, t)
    BY <2>1, <2>2, FiredOther, Disjoint
  <2>4. QED
    BY <1>2, <2>1, <2>3, Disjoint DEF Committed
<1>7. ASSUME NEW s \in Sched, CommitJob(s) PROVE SlotClaims(j, t)' <= 1 + lapses'
  BY <1>7, CommitJobSlots
<1>8. ASSUME NEW d \in Delivery, NEW y \in Session, Appended(d, y)
      PROVE  SlotClaims(j, t)' <= 1 + lapses'
  BY <1>2, <1>8, AppendedUpdates, FiredKept, Disjoint DEF Appended
<1>9. ASSUME NEW c \in Creator, NEW y \in Session, Sent(c, y)
      PROVE  SlotClaims(j, t)' <= 1 + lapses'
  <2>1. HeldBy(y, j, t) => HeldBy(tx[c], j, t)
    BY <1>9 DEF Sent, HeldBy, Firing
  <2>2. QED
    BY <1>2, <1>9, <2>1, SameRunsUpdates, FiredKept DEF Sent
<1>10. ASSUME NEW s \in Sched, NEW y \in Session, Elected(s, y)
       PROVE  SlotClaims(j, t)' <= 1 + lapses'
  BY <1>10, ElectedSlots
<1>11. ASSUME NEW s \in Sched, NEW y \in Session, Settled(s, y)
       PROVE  SlotClaims(j, t)' <= 1 + lapses'
  <2>1. HeldBy(y, j, t) => HeldBy(tx[s], j, t)
    BY <1>11 DEF Settled, HeldBy, Firing
  <2>2. job'[j] # NULL /\ job'[j].next = t => job[j] # NULL /\ job[j].next = t
    BY <1>11 DEF Settled
  <2>3. UNCHANGED <<now, leader, run>> /\ tx' = [tx EXCEPT ![s] = y]
    BY <1>11 DEF Settled
  <2>4. QED
    BY <2>1, <2>2, <2>3, SameRunsUpdates, FiredKept, SlotReleased, Disjoint
<1>12. CASE LeaderExpires
  BY <1>12, ExpiredSlots
<1>13. ASSUME NEW k \in Job, NEW enabled \in BOOLEAN, SaveJob(k, enabled)
       PROVE  SlotClaims(j, t)' <= 1 + lapses'
  <2>1. UNCHANGED <<tx, leader, run>>
    BY <1>13 DEF SaveJob
  <2>2. t \in Nat /\ t # NULL /\ now \in Nat
    BY NowFacts, IngressAssumption DEF Time
  <2>3. job'[j] # NULL /\ job'[j].next = t => t > now \/ (job[j] # NULL /\ job[j].next = t)
    BY <1>13, <2>2, SaveJobEffect
  <2>4. QED
    BY <1>0, <2>1, <2>3, SameRunsUpdates, OtherSlots
<1>14. ASSUME NEW r \in Run, NEW status \in Status, MoveRun(r, status)
       PROVE  SlotClaims(j, t)' <= 1 + lapses'
  BY <1>0, <1>14, MovedUpdates, OtherSlots DEF MoveRun, sched
<1>15. CASE NewDay \/ TimePasses
  BY <1>0, <1>15, SameRunsUpdates, OtherSlots DEF NewDay, TimePasses, sched
<1>16. QED
  BY <1>3, <1>4, <1>5, <1>6, <1>7, <1>8, <1>9, <1>10, <1>11, <1>12, <1>13, <1>14, <1>15, Cases

(* A cron instant of a job makes one run, and one more for each time that  *)
(* a leader lock expired during a tick: patches, crashes, failed publishes *)
(* and refused quotas add none, for any number of schedulers.              *)
THEOREM SlotsFireOnce == Spec => []SlotFiresOncePerLeader
<1>1. Init => Slots
  <2> SUFFICES ASSUME Init, NEW j \in Job, NEW t \in Time PROVE SlotClaims(j, t) <= 1 + lapses
    BY DEF Slots
  <2>1. Fired(j, t) = {} /\ lapses = 0
    BY DEF Init, Fired, RunsOf
  <2>2. Overtaken(j, t) = {}
    BY IdleSession, Disjoint DEF Init, Overtaken, Holds, HeldBy, Firing
  <2>3. QED
    BY <2>1, <2>2, FS_EmptySet DEF SlotClaims
<1>2. TInv /\ Slots /\ [Next]_vars => Slots'
  <2>1. ASSUME Slots, UNCHANGED vars PROVE Slots'
    BY <2>1 DEF Slots, SlotClaims, Fired, RunsOf, Overtaken, Open, Holds, HeldBy, vars
  <2>2. QED
    BY <2>1, SlotsStep
<1>3. TInv /\ Slots => SlotFiresOncePerLeader
  <2> SUFFICES ASSUME TInv, Slots, NEW j \in Job, NEW t \in Time
               PROVE  Cardinality(Fired(j, t)) <= 1 + lapses
    BY DEF SlotFiresOncePerLeader, Fired
  <2>1. lapses \in Nat
    BY DEF TInv, TypeOK
  <2>2. SlotClaims(j, t) <= 1 + lapses
    BY DEF Slots
  <2>3. QED
    BY <2>1, <2>2, SlotsFinite DEF SlotClaims
<1>4. QED
  BY <1>1, <1>2, <1>3, TypeInit, TypeStep, PTL DEF Spec
=============================================================================
