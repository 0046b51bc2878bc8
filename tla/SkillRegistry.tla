--------------------------- MODULE SkillRegistry ---------------------------
(***************************************************************************)
(* Skills and their revisions (skills/registry.py, api/routes/skills.py),  *)
(* the runs that apply them (runtime/engine.py, runtime/context.py) and    *)
(* the usage rows that judge them (skills/usage.py).                       *)
(*                                                                         *)
(* An administrator's request works on copies that it read earlier in its  *)
(* own session and writes, when it commits, only the columns in which the  *)
(* copy was changed.  There is no version column; what keeps revisions     *)
(* consistent is the lifecycle and the trigger on published rows.          *)
(***************************************************************************)
EXTENDS Naturals, FiniteSets

CONSTANTS Skill,       \* skill names, numbered in the order of their names
          Admin,       \* concurrent administrative requests
          Run,
          NULL,
          Terms,       \* Terms[s]: words that the runs' goal shares with the skill
          MaxVersion,  \* bound: revisions of a skill
          MaxRequests, \* bound: administrative requests
          MaxCalls     \* bound: skills that one run looks up

Version  == 1 .. MaxVersion
Revision == Skill \X Version

(* Rows of skills, skill_revisions and skill_usage *)
SkillRow    == [status : {"draft", "published", "deprecated"}, active : Version \cup {NULL}]
RevisionRow == [status : {"draft", "approved", "published"}, evaluation : {"passed", "failed", NULL}]
UsageRow    == [success : BOOLEAN, feedback : BOOLEAN]

(* Requests: decisions about a revision, and about the skill *)
Decision  == {"approve", "publish", "passed", "failed"}
Operation == Decision \cup {"create", "deprecate"}

ASSUME SkillAssumption ==
  /\ Skill \subseteq Nat /\ IsFiniteSet(Skill) /\ Terms \in [Skill -> Nat]
  /\ NULL \notin Nat /\ NULL \notin Operation /\ NULL \notin Revision
  /\ NULL \notin SkillRow \cup RevisionRow \cup UsageRow
  /\ MaxVersion \in Nat /\ MaxRequests \in Nat /\ MaxCalls \in Nat

VARIABLES skill,    \* skills: status (draft, published, deprecated) and the version of
                    \* active_revision_id or NULL; NULL if there is no such skill
          rev,      \* skill_revisions: status (draft, approved, published) and
                    \* evaluation_status (passed, failed or NULL); NULL if there is none
          req,      \* req[a]: the open request of administrator a and its copies
          run,      \* agent_runs: status and active_skill_revision_id
          found,    \* found[r]: the revision that the engine looked up and has not applied
          usage,    \* skill_usage, by revision and run
          passed,   \* history: revisions that passed an evaluation
          requests, calls

vars     == <<skill, rev, req, run, found, usage, passed, requests, calls>>
registry == <<skill, rev, req, passed, requests>>
runs     == <<run, found, usage, calls>>

Success  == {"completed"}
Failure  == {"failed", "cancelled", "timed_out"}
Terminal == Success \cup Failure

NoRequest == [op |-> NULL, skill |-> NULL, version |-> NULL, row |-> NULL, old |-> NULL]

Init ==
  /\ skill = [s \in Skill |-> NULL]
  /\ rev = [r \in Revision |-> NULL]
  /\ req = [a \in Admin |-> NoRequest]
  /\ run = [r \in Run |-> [status |-> "running", skill |-> NULL]]
  /\ found = [r \in Run |-> NULL]
  /\ usage = [k \in Revision \X Run |-> NULL]
  /\ passed = {} /\ requests = 0 /\ calls = [r \in Run |-> 0]
-----------------------------------------------------------------------------
Request == requests < MaxRequests /\ requests' = requests + 1

Draft == [status |-> "draft", evaluation |-> NULL]

NewSkill == [status |-> "draft", active |-> NULL]

(* A new catalog entry and its first n revisions in one transaction; names *)
(* are unique in the tenant.                                               *)
InsertSkill(s, n) ==
  /\ Request
  /\ skill[s] = NULL
  /\ skill' = [skill EXCEPT ![s] = NewSkill]
  /\ rev' = [k \in Revision |-> IF k[1] = s /\ k[2] <= n THEN Draft ELSE rev[k]]
  /\ UNCHANGED <<req, passed, runs>>

(* POST /v1/skills and POST /v1/skills/import *)
CreateSkill(s) == InsertSkill(s, 0)
ImportSkill(s) == \E n \in Version : InsertSkill(s, n)

Open(a, request) == /\ req[a] = NoRequest
                    /\ req' = [req EXCEPT ![a] = request]

(* The request ends, committed or not. *)
Close(a) == req' = [req EXCEPT ![a] = NoRequest]

(* Mutant: the row is read without the lock. *)
NeverLocked(s) == FALSE

(* SELECT ... FOR UPDATE of the skill row, held until the request ends *)
Locked(s) == \E a \in Admin : req[a].op = "create" /\ req[a].skill = s

Versions(s) == {v \in Version : rev[<<s, v>>] # NULL}

(* create_revision up to the allocation of max(version) + 1 *)
AllocateVersion(a, s, v) ==
  /\ Request
  /\ skill[s] # NULL /\ ~Locked(s)
  /\ v \notin Versions(s) /\ \A w \in Version : w < v => w \in Versions(s)
  /\ Open(a, [NoRequest EXCEPT !.op = "create", !.skill = s, !.version = v])
  /\ UNCHANGED <<skill, rev, passed, runs>>

(* The insert and the commit; the unique (skill_id, version) may refuse. *)
InsertRevision(a) ==
  LET k == <<req[a].skill, req[a].version>>
  IN /\ req[a].op = "create"
     /\ rev' = IF rev[k] = NULL THEN [rev EXCEPT ![k] = Draft] ELSE rev
     /\ Close(a)
     /\ UNCHANGED <<skill, passed, requests, runs>>

(* get_revision *)
Found(s, v) == skill[s] # NULL /\ rev[<<s, v>>] # NULL

(* The handlers that decide about a revision begin with the copy that they *)
(* work on; 404 if there is none.                                          *)
ReadRevision(a, op, s, v) ==
  /\ Request
  /\ Found(s, v)
  /\ Open(a, [op |-> op, skill |-> s, version |-> v, row |-> rev[<<s, v>>], old |-> NULL])
  /\ UNCHANGED <<skill, rev, passed, runs>>

(* Mutant: without the trigger. *)
NothingImmutable(row) == FALSE

(* BEFORE UPDATE ON skill_revisions *)
Immutable(row) == row.status = "published"

(* An update of the revision, or the exception of the trigger *)
UpdateRevision(k, row) ==
  IF Immutable(rev[k]) THEN UNCHANGED rev ELSE rev' = [rev EXCEPT ![k] = row]

(* approve_revision; a revision that is not a draft is returned as it is. *)
ApproveRevision(a) ==
  LET k == <<req[a].skill, req[a].version>>
  IN /\ req[a].op = "approve"
     /\ IF req[a].row.status = "draft"
        THEN UpdateRevision(k, [rev[k] EXCEPT !.status = "approved"]) ELSE UNCHANGED rev
     /\ Close(a)
     /\ UNCHANGED <<skill, passed, requests, runs>>

(* record_evaluation.  revision.skill is loaded lazily; where the async    *)
(* session refuses that, the request fails, like one that is never sent.   *)
EvaluateRevision(a) ==
  LET k == <<req[a].skill, req[a].version>>
      verdict == req[a].op
  IN /\ verdict \in {"passed", "failed"}
     /\ IF req[a].row.evaluation # verdict
        THEN UpdateRevision(k, [rev[k] EXCEPT !.evaluation = verdict]) ELSE UNCHANGED rev
     /\ passed' = IF rev'[k].evaluation = "passed" THEN passed \cup {k} ELSE passed
     /\ Close(a)
     /\ UNCHANGED <<skill, requests, runs>>

(* Mutant: the evaluation is not looked at. *)
ApprovalSuffices(row) == row.status \in {"approved", "published"}

(* The two checks of publish_revision, on the copy *)
MayPublish(row) == row.status \in {"approved", "published"} /\ row.evaluation = "passed"

(* get_skill of publish_revision and deprecate_skill: a later read *)
ReadSkill(a) ==
  /\ req[a].op = "publish" /\ req[a].old = NULL
  /\ IF MayPublish(req[a].row)
     THEN req' = [req EXCEPT ![a].old = skill[req[a].skill]]
     ELSE Close(a)
  /\ UNCHANGED <<skill, rev, passed, requests, runs>>

(* Only the columns that differ from the copy are written. *)
WriteSkill(s, old, new) ==
  skill' = [skill EXCEPT ![s] =
              [status |-> IF new.status # old.status THEN new.status ELSE @.status,
               active |-> IF new.active # old.active THEN new.active ELSE @.active]]

(* publish_revision and rollback: both rows or, if the trigger refuses,    *)
(* neither.                                                                *)
PublishRevision(a) ==
  LET s == req[a].skill
      k == <<s, req[a].version>>
      publishes == req[a].row.status = "approved"
  IN /\ req[a].op = "publish" /\ req[a].old # NULL /\ ~Locked(s)
     /\ \/ publishes /\ Immutable(rev[k]) /\ UNCHANGED <<rev, skill>>
        \/ /\ publishes => ~Immutable(rev[k])
           /\ rev' = IF publishes THEN [rev EXCEPT ![k].status = "published"] ELSE rev
           /\ WriteSkill(s, req[a].old, [status |-> "published", active |-> req[a].version])
     /\ Close(a)
     /\ UNCHANGED <<passed, requests, runs>>

OpenDeprecate(a, s) ==
  /\ Request
  /\ skill[s] # NULL
  /\ Open(a, [NoRequest EXCEPT !.op = "deprecate", !.skill = s, !.old = skill[s]])
  /\ UNCHANGED <<skill, rev, passed, runs>>

DeprecateSkill(a) ==
  /\ req[a].op = "deprecate" /\ ~Locked(req[a].skill)
  /\ WriteSkill(req[a].skill, req[a].old, [status |-> "deprecated", active |-> NULL])
  /\ Close(a)
  /\ UNCHANGED <<rev, passed, requests, runs>>
-----------------------------------------------------------------------------
(* list_published_skills, get_active_revision_by_skill_name: neither looks *)
(* at the revision's own status.                                           *)
Published(s) == skill[s] # NULL /\ skill[s].status = "published" /\ skill[s].active # NULL
Active(s)    == <<s, skill[s].active>>
Offered      == {s \in Skill : Published(s)}

(* build_skill_context: the catalog and the run's active skill *)
InPrompt(r) == {Active(s) : s \in Offered} \cup {run[r].skill}

(* The success rate of an active revision as a fraction; 0 without rows *)
Rows(k)      == {r \in Run : usage[<<k, r>>] # NULL}
Successes(k) == Cardinality({r \in Rows(k) : usage[<<k, r>>].success})
Total(k)     == IF Rows(k) = {} THEN 1 ELSE Cardinality(Rows(k))

(* rate(s) - rate(t) >= 1 / n *)
Better(s, t, n) ==
  n * (Successes(Active(s)) * Total(Active(t)))
    >= n * (Successes(Active(t)) * Total(Active(s))) + Total(Active(s)) * Total(Active(t))

RateGreater(s, t) ==
  Successes(Active(s)) * Total(Active(t)) > Successes(Active(t)) * Total(Active(s))

(* Ranked by shared terms, success rate and name *)
Before(s, t) ==
  \/ Terms[s] > Terms[t]
  \/ Terms[s] = Terms[t] /\ RateGreater(s, t)
  \/ Terms[s] = Terms[t] /\ ~RateGreater(t, s) /\ s < t

(* select_skill_candidate: the first is compared with the second only. *)
Dominant(s) ==
  /\ s \in Offered /\ Terms[s] >= 3
  /\ \A t \in Offered \ {s} : Before(s, t)
  /\ \A t \in Offered \ {s} : (\A u \in Offered \ {s, t} : Before(t, u)) =>
       \/ Terms[s] >= Terms[t] + 2
       \/ Terms[s] = Terms[t] /\ Better(s, t, 5)

LookUp(r) == /\ run[r].status = "running" /\ found[r] = NULL
             /\ calls[r] < MaxCalls /\ calls' = [calls EXCEPT ![r] = @ + 1]

(* select_skill_candidate, for a run without a skill *)
SelectSkill(r) ==
  /\ LookUp(r)
  /\ run[r].skill = NULL
  /\ \E s \in Skill : Dominant(s) /\ found' = [found EXCEPT ![r] = Active(s)]
  /\ UNCHANGED <<registry, run, usage>>

(* The handler of use_skill; its recorded result survives a crash. *)
UseSkill(r, s) ==
  /\ LookUp(r)
  /\ Published(s)
  /\ found' = [found EXCEPT ![r] = Active(s)]
  /\ UNCHANGED <<registry, run, usage>>

(* Mutant: the checkpoint that follows is not fenced by the version. *)
AnyStatus(r) == TRUE

(* The version fence of RunDispatch: a checkpoint that succeeds was        *)
(* prepared on the current row, here a running one.                        *)
FenceAllows(r) == run[r].status = "running"

(* The engine's checkpoint of active_skill_revision_id *)
ApplySkill(r) ==
  /\ found[r] # NULL
  /\ FenceAllows(r)
  /\ run' = [run EXCEPT ![r].skill = found[r]]
  /\ found' = [found EXCEPT ![r] = NULL]
  /\ UNCHANGED <<registry, usage, calls>>

(* A crash before the checkpoint; the result of use_skill, if it was not   *)
(* recorded, and a selection are lost.                                     *)
Crash(r) ==
  /\ found[r] # NULL
  /\ found' = [found EXCEPT ![r] = NULL]
  /\ UNCHANGED <<registry, run, usage, calls>>

(* A row of skill_usage; feedback_score is NULL or a score. *)
NewUsage(status, feedback) == [success |-> status \in Success, feedback |-> feedback]

(* record_skill_usage_for_run: an upsert that keeps the feedback *)
RecordUsage(r, k, status) ==
  usage' = IF k = NULL THEN usage
           ELSE [usage EXCEPT ![<<k, r>>] = NewUsage(status, @ # NULL /\ @.feedback)]

(* The engine's terminal checkpoint, with the usage in its transaction *)
EndRun(r, status) ==
  /\ run[r].status = "running" /\ (status = "completed" => found[r] = NULL)
  /\ run' = [run EXCEPT ![r].status = status]
  /\ RecordUsage(r, run[r].skill, status)
  /\ UNCHANGED <<registry, found, calls>>

(* A run parks (ask_user, approval) and is resumed by a message. *)
ParkRun(r) ==
  /\ run[r].status \in {"running", "waiting"} /\ found[r] = NULL
  /\ run' = [run EXCEPT ![r].status = IF @ = "running" THEN "waiting" ELSE "running"]
  /\ UNCHANGED <<registry, found, usage, calls>>

(* cancel_run of a waiting run *)
CancelRun(r) ==
  /\ run[r].status = "waiting"
  /\ run' = [run EXCEPT ![r].status = "cancelled"]
  /\ RecordUsage(r, run[r].skill, "cancelled")
  /\ UNCHANGED <<registry, found, calls>>

(* reap_expired_approvals records no usage. *)
ExpireRun(r) ==
  /\ run[r].status = "waiting"
  /\ run' = [run EXCEPT ![r].status = "timed_out"]
  /\ UNCHANGED <<registry, found, usage, calls>>

(* POST /v1/runs/{id}/feedback: the upsert, then the row of the run; it is *)
(* rolled back if there is none, and fails if there are two.               *)
RowsOf(r) == {k \in Revision : usage[<<k, r>>] # NULL}

Feedback(r) ==
  LET k == run[r].skill
  IN /\ run[r].status \in Terminal
     /\ k # NULL /\ RowsOf(r) \subseteq {k}
     /\ usage' = [usage EXCEPT ![<<k, r>>] = NewUsage(run[r].status, TRUE)]
     /\ UNCHANGED <<registry, run, found, calls>>

RegistryStep ==
  \/ \E s \in Skill : CreateSkill(s) \/ ImportSkill(s)
  \/ \E a \in Admin, s \in Skill : OpenDeprecate(a, s)
  \/ \E a \in Admin, s \in Skill, v \in Version : AllocateVersion(a, s, v)
  \/ \E a \in Admin, op \in Decision, s \in Skill, v \in Version : ReadRevision(a, op, s, v)
  \/ \E a \in Admin : \/ InsertRevision(a) \/ ApproveRevision(a) \/ EvaluateRevision(a)
                      \/ ReadSkill(a) \/ PublishRevision(a) \/ DeprecateSkill(a)

RunStep(r) ==
  \/ SelectSkill(r) \/ ApplySkill(r) \/ Crash(r) \/ ParkRun(r) \/ CancelRun(r) \/ ExpireRun(r)
  \/ \E s \in Skill : UseSkill(r, s)
  \/ \E status \in Terminal : EndRun(r, status)
  \/ Feedback(r)

Next == RegistryStep \/ \E r \in Run : RunStep(r)

Spec == Init /\ [][Next]_vars
-----------------------------------------------------------------------------
(* REVIEWED: whatever requests overlap, the revision a catalog offers, and *)
(* every revision that an engine has found or a run has applied, is a      *)
(* published one that passed an evaluation at some time, as                *)
(* publish_revision demands and idea.md:658 asks.  (The tests of the       *)
(* registry publish approved revisions that nobody evaluated and expect to *)
(* succeed: they contradict the code.  And that a published revision is    *)
(* evaluated as passed now does not hold: an evaluation that fails between *)
(* publish_revision's read and its write is published all the same.)       *)
InUse == UNION {InPrompt(r) \cup {found[r]} : r \in Run}

AppliedSkillWasReviewed ==
  \A k \in InUse \ {NULL} : rev[k].status = "published" /\ k \in passed

(* FROZEN: no request, late or concurrent, changes a published revision;   *)
(* a run keeps the instruction it started with.                            *)
PublishedIsFrozen ==
  [][\A k \in Revision : rev[k] # NULL /\ rev[k].status = "published" => rev'[k] = rev[k]]_vars

(* VERSIONS: the lock serialises the allocation, so the unique constraint  *)
(* that backs it up never refuses a revision.                              *)
NoVersionConflict ==
  \A a \in Admin : req[a].op = "create" => rev[<<req[a].skill, req[a].version>>] = NULL

(* USAGE: a run has one usage row at most, for the skill it ended with,    *)
(* and the row agrees with how it ended; a run that used a skill lacks the *)
(* row only if the approval reaper ended it.                               *)
UsageAgreesWithRun ==
  \A r \in Run :
    /\ \A k \in RowsOf(r) : /\ k = run[r].skill /\ run[r].status \in Terminal
                            /\ usage[<<k, r>>].success = (run[r].status = "completed")
    /\ run[r].status \in Terminal /\ run[r].skill # NULL /\ RowsOf(r) = {} =>
         run[r].status = "timed_out"
=============================================================================
