------------------------ MODULE SkillRegistryProofs ------------------------
(***************************************************************************)
(* Proofs about SkillRegistry for every set of skills, administrators and  *)
(* runs and every value of the bounds.                                     *)
(*                                                                         *)
(*   VersionsSerialised  NoVersionConflict                                 *)
(*   RevisionsFrozen     PublishedIsFrozen                                 *)
(*   SkillsReviewed      AppliedSkillWasReviewed                           *)
(*   UsageCorrect        UsageAgreesWithRun                                *)
(*                                                                         *)
(* The invariant has a half about the catalog and the requests' copies     *)
(* (Catalog) and a half about the runs (Runs); a step of a request leaves  *)
(* the runs alone and a step of a run leaves the catalog alone.            *)
(***************************************************************************)
EXTENDS SkillRegistry, TLAPS

Copies == [op : Operation \cup {NULL}, skill : Skill \cup {NULL},
           version : Version \cup {NULL}, row : RevisionRow \cup {NULL},
           old : SkillRow \cup {NULL}]

RunRow == [status : {"running", "waiting"} \cup Terminal, skill : Revision \cup {NULL}]

CatalogTypes ==
  /\ skill \in [Skill -> SkillRow \cup {NULL}]
  /\ rev \in [Revision -> RevisionRow \cup {NULL}]
  /\ req \in [Admin -> Copies]
  /\ passed \subseteq Revision

RunTypes ==
  /\ run \in [Run -> RunRow]
  /\ found \in [Run -> Revision \cup {NULL}]
  /\ usage \in [Revision \X Run -> UsageRow \cup {NULL}]

IsPublished(k) == k \in Revision /\ rev[k] # NULL /\ rev[k].status = "published"

(* What a revision's row says of its review was true once. *)
Reviewed ==
  \A k \in Revision : rev[k] # NULL =>
    /\ skill[k[1]] # NULL
    /\ rev[k].evaluation = "passed" \/ rev[k].status = "published" => k \in passed

(* A request is about rows that exist, and what its copy of a revision     *)
(* says of the review was true once; publication lasts.                    *)
Sound(q) ==
  LET k == <<q.skill, q.version>>
  IN /\ q.op # NULL => q.skill \in Skill /\ skill[q.skill] # NULL
     /\ q.op = "create" => k \in Revision
     /\ q.op = "deprecate" => q.old # NULL
     /\ q.op \in Decision =>
          /\ k \in Revision /\ rev[k] # NULL /\ q.row # NULL
          /\ q.row.evaluation = "passed" => k \in passed
          /\ q.row.status = "published" => IsPublished(k)
     /\ q.op = "publish" /\ q.old # NULL => MayPublish(q.row)

(* The lock on the skill's row: one allocation at a time, of a free version *)
Serialised ==
  /\ NoVersionConflict
  /\ \A a, b \in Admin : /\ req[a].op = "create" /\ req[b].op = "create"
                         /\ req[a].skill = req[b].skill
                         => a = b

ActiveIsPublished ==
  \A s \in Skill : skill[s] # NULL /\ skill[s].active # NULL => IsPublished(Active(s))

Catalog == /\ CatalogTypes /\ Reviewed /\ Serialised /\ ActiveIsPublished
           /\ \A a \in Admin : Sound(req[a])

InUseIsPublished ==
  \A r \in Run : /\ found[r] # NULL => IsPublished(found[r])
                 /\ run[r].skill # NULL => IsPublished(run[r].skill)

Runs == RunTypes /\ InUseIsPublished /\ UsageAgreesWithRun

IInv == Catalog /\ Runs

(* What no step takes back *)
Kept == /\ \A s \in Skill : skill[s] # NULL => skill'[s] # NULL
        /\ \A k \in Revision : rev[k] # NULL => rev'[k] # NULL
        /\ \A k \in Revision : IsPublished(k) => rev'[k] = rev[k]
        /\ passed \subseteq passed'
-----------------------------------------------------------------------------
LEMMA Constants ==
  /\ Draft \in RevisionRow /\ Draft # NULL /\ Draft.status = "draft" /\ Draft.evaluation = NULL
  /\ NewSkill \in SkillRow /\ NewSkill # NULL /\ NewSkill.active = NULL
  /\ NoRequest \in Copies /\ NoRequest.op = NULL
  /\ NULL # "passed" /\ NULL \notin Operation
  /\ "create" \in Operation \ Decision /\ "deprecate" \in Operation \ Decision
  /\ Decision \subseteq Operation
<1>1. Draft \in RevisionRow /\ NewSkill \in SkillRow
  BY DEF Draft, NewSkill, RevisionRow, SkillRow
<1>2. Draft # NULL /\ NewSkill # NULL
  BY <1>1, SkillAssumption
<1>3. NoRequest \in Copies
  BY DEF NoRequest, Copies
<1>4. /\ Draft.status = "draft" /\ Draft.evaluation = NULL
      /\ NewSkill.active = NULL /\ NoRequest.op = NULL
  BY DEF Draft, NewSkill, NoRequest
<1>6. NULL # "passed" /\ NULL \notin Operation
  BY SkillAssumption DEF Operation, Decision
<1>7. /\ "create" \in Operation \ Decision /\ "deprecate" \in Operation \ Decision
      /\ Decision \subseteq Operation
  BY DEF Decision, Operation
<1>8. QED
  BY <1>1, <1>2, <1>3, <1>4, <1>6, <1>7

LEMMA InitInv == Init => IInv
<1> SUFFICES ASSUME Init PROVE IInv
  OBVIOUS
<1>1. /\ \A s \in Skill : skill[s] = NULL
      /\ \A k \in Revision : rev[k] = NULL
      /\ \A a \in Admin : req[a].op = NULL
      /\ \A r \in Run : found[r] = NULL /\ run[r].skill = NULL /\ run[r].status = "running"
      /\ \A k \in Revision, r \in Run : usage[<<k, r>>] = NULL
  BY Constants DEF Init
<1>2. CatalogTypes
  BY Constants DEF Init, CatalogTypes
<1>3. Reviewed /\ Serialised /\ ActiveIsPublished
  BY <1>1, Constants DEF Reviewed, Serialised, NoVersionConflict, ActiveIsPublished
<1>4. \A a \in Admin : Sound(req[a])
  BY <1>1, Constants DEF Sound, Operation, Decision
<1>6. RunTypes
  BY DEF Init, RunTypes, RunRow
<1>7. InUseIsPublished
  BY <1>1 DEF InUseIsPublished
<1>8. UsageAgreesWithRun
  BY <1>1 DEF UsageAgreesWithRun, RowsOf, Terminal, Success, Failure
<1>9. QED
  BY <1>2, <1>3, <1>4, <1>6, <1>7, <1>8 DEF IInv, Catalog, Runs
-----------------------------------------------------------------------------
(* A request that is sound stays so. *)
LEMMA KeptSound ==
  ASSUME NEW q \in Copies, Kept, Sound(q)
  PROVE  Sound(q)'
<1>1. \A k : IsPublished(k) => IsPublished(k)'
  BY DEF IsPublished, Kept
<1>2. QED
  BY <1>1 DEF Sound, Kept

LEMMA NoRequestSound == Sound(NoRequest) /\ Sound(NoRequest)'
BY Constants DEF Sound, Operation, Decision

(* One request is replaced by a sound one. *)
LEMMA RequestStep ==
  ASSUME Catalog, Kept, NEW a \in Admin, NEW q \in Copies, Sound(q),
         req' = [req EXCEPT ![a] = q]
  PROVE  /\ req' \in [Admin -> Copies]
         /\ req'[a] = q
         /\ \A b \in Admin : b # a => req'[b] = req[b]
         /\ \A b \in Admin : Sound(req[b])'
<1>1. /\ req' \in [Admin -> Copies]
      /\ req'[a] = q
      /\ \A b \in Admin : b # a => req'[b] = req[b]
  BY DEF Catalog, CatalogTypes
<1>2. ASSUME NEW c \in Copies, Sound(c) PROVE Sound(c)'
  BY <1>2, KeptSound
<1>3. ASSUME NEW b \in Admin PROVE Sound(req[b])'
  <2>1. \E c \in Copies : Sound(c) /\ c = req'[b]
    BY <1>1 DEF Catalog, CatalogTypes
  <2>2. PICK c \in Copies : Sound(c) /\ c = req'[b]
    BY <2>1
  <2>3. Sound(c)'
    BY <2>2, <1>2
  <2>4. QED
    BY <2>2, <2>3 DEF Sound, IsPublished
<1>4. QED
  BY <1>1, <1>3

(* A request ends: nothing of it is left. *)
LEMMA CloseStep ==
  ASSUME Catalog, Kept, NEW a \in Admin, Close(a)
  PROVE  /\ req' \in [Admin -> Copies]
         /\ req'[a].op = NULL
         /\ \A b \in Admin : b # a => req'[b] = req[b]
         /\ \A b \in Admin : Sound(req[b])'
BY RequestStep, NoRequestSound, Constants DEF Close
-----------------------------------------------------------------------------
LEMMA InsertSkillStep ==
  ASSUME Catalog, NEW s \in Skill, NEW n \in Nat, InsertSkill(s, n)
  PROVE  Catalog' /\ Kept
<1> USE Constants
<1>1. \A k \in Revision : k[1] = s => rev[k] = NULL
  BY DEF InsertSkill, Catalog, Reviewed
<1>2. /\ \A k \in Revision : rev'[k] = IF k[1] = s /\ k[2] <= n THEN Draft ELSE rev[k]
      /\ \A k \in Revision : rev[k] # NULL => rev'[k] = rev[k]
      /\ skill'[s] = NewSkill
      /\ \A t \in Skill : t # s => skill'[t] = skill[t]
      /\ UNCHANGED <<req, passed>>
  BY <1>1 DEF InsertSkill, Catalog, CatalogTypes
<1>3. Kept
  BY <1>2 DEF Kept, IsPublished
<1>4. CatalogTypes'
  BY DEF InsertSkill, Catalog, CatalogTypes
<1>5. Reviewed'
  BY <1>2 DEF Catalog, Reviewed, Revision
<1>6. Serialised'
  BY <1>2 DEF Catalog, Serialised, NoVersionConflict, InsertSkill, Sound, Revision
<1>7. ActiveIsPublished'
  BY <1>2 DEF Catalog, ActiveIsPublished, Active, IsPublished
<1>8. \A a \in Admin : Sound(req[a])'
  <2> SUFFICES ASSUME NEW a \in Admin PROVE Sound(req[a])'
    OBVIOUS
  <2>1. PICK c \in Copies : Sound(c) /\ c = req'[a]
    BY <1>2 DEF Catalog, CatalogTypes
  <2>2. Sound(c)'
    BY <2>1, <1>3, KeptSound
  <2>3. QED
    BY <2>1, <2>2 DEF Sound, IsPublished
<1>9. QED
  BY <1>3, <1>4, <1>5, <1>6, <1>7, <1>8 DEF Catalog

(* The requests that only read: the tables are as they were. *)
LEMMA ReadStep ==
  ASSUME Catalog, NEW a \in Admin, NEW q \in Copies, Sound(q),
         req' = [req EXCEPT ![a] = q], UNCHANGED <<skill, rev, passed>>,
         q.op = "create" => ~Locked(q.skill) /\ rev[<<q.skill, q.version>>] = NULL
  PROVE  Catalog' /\ Kept
<1>1. Kept
  BY DEF Kept
<1>2. /\ req' \in [Admin -> Copies]
      /\ req'[a] = q
      /\ \A b \in Admin : b # a => req'[b] = req[b]
      /\ \A b \in Admin : Sound(req[b])'
  BY <1>1, RequestStep
<1>3. CatalogTypes' /\ Reviewed' /\ ActiveIsPublished'
  BY <1>2 DEF Catalog, CatalogTypes, Reviewed, ActiveIsPublished, Active, IsPublished
<1>4. Serialised'
  BY <1>2 DEF Catalog, Serialised, NoVersionConflict, Locked
<1>5. QED
  BY <1>1, <1>2, <1>3, <1>4 DEF Catalog

LEMMA AllocateVersionStep ==
  ASSUME Catalog, NEW a \in Admin, NEW s \in Skill, NEW v \in Version, AllocateVersion(a, s, v)
  PROVE  Catalog' /\ Kept
<1> DEFINE q == [NoRequest EXCEPT !.op = "create", !.skill = s, !.version = v]
<1>1. /\ q \in Copies /\ q.op = "create" /\ q.skill = s /\ q.version = v
      /\ q.op \notin Decision /\ q.op # "deprecate"
  BY DEF NoRequest, Copies, Operation, Decision
<1>2. rev[<<s, v>>] = NULL /\ skill[s] # NULL /\ ~Locked(s)
  BY DEF AllocateVersion, Versions
<1>3. Sound(q)
  BY <1>1, <1>2 DEF Sound, Revision, Decision
<1>4. QED
  BY <1>1, <1>2, <1>3, ReadStep DEF AllocateVersion, Open

LEMMA ReadRevisionStep ==
  ASSUME Catalog, NEW a \in Admin, NEW op \in Decision, NEW s \in Skill, NEW v \in Version,
         ReadRevision(a, op, s, v)
  PROVE  Catalog' /\ Kept
<1> DEFINE k == <<s, v>>
           q == [op |-> op, skill |-> s, version |-> v, row |-> rev[k], old |-> NULL]
<1>1. k \in Revision /\ rev[k] # NULL /\ rev[k] \in RevisionRow /\ skill[s] # NULL
  BY DEF ReadRevision, Found, Revision, Catalog, CatalogTypes
<1>2. q \in Copies /\ q.op # "create" /\ q.op # "deprecate"
  BY <1>1 DEF Copies, Operation, Decision
<1>3. Sound(q)
  BY <1>1, <1>2 DEF Sound, Catalog, Reviewed, IsPublished
<1>4. QED
  BY <1>2, <1>3, ReadStep DEF ReadRevision, Open

LEMMA OpenDeprecateStep ==
  ASSUME Catalog, NEW a \in Admin, NEW s \in Skill, OpenDeprecate(a, s)
  PROVE  Catalog' /\ Kept
<1> DEFINE q == [NoRequest EXCEPT !.op = "deprecate", !.skill = s, !.old = skill[s]]
<1>1. skill[s] # NULL /\ skill[s] \in SkillRow
  BY DEF OpenDeprecate, Catalog, CatalogTypes
<1>2. /\ q \in Copies /\ q.op = "deprecate" /\ q.skill = s /\ q.old = skill[s]
      /\ q.op \notin Decision /\ q.op # "create"
  BY <1>1 DEF NoRequest, Copies, Operation, Decision
<1>3. Sound(q)
  BY <1>1, <1>2 DEF Sound, Decision
<1>4. QED
  BY <1>2, <1>3, ReadStep DEF OpenDeprecate, Open

LEMMA ReadSkillStep ==
  ASSUME Catalog, NEW a \in Admin, ReadSkill(a)
  PROVE  Catalog' /\ Kept
<1>1. CASE MayPublish(req[a].row)
  <2> DEFINE q == [req[a] EXCEPT !.old = skill[req[a].skill]]
  <2>1. /\ req[a] \in Copies /\ Sound(req[a]) /\ req[a].op = "publish" /\ req[a].op \in Decision
        /\ req[a].op # NULL
    BY Constants DEF ReadSkill, Catalog, CatalogTypes, Decision
  <2>2. skill[req[a].skill] \in SkillRow
    BY <2>1 DEF Sound, Catalog, CatalogTypes
  <2>3. /\ q \in Copies /\ q.op = "publish" /\ q.skill = req[a].skill
        /\ q.version = req[a].version /\ q.row = req[a].row
    BY <2>1, <2>2 DEF Copies
  <2>4. Sound(q)
    BY <1>1, <2>1, <2>3 DEF Sound
  <2>5. req' = [req EXCEPT ![a] = q]
    BY <1>1 DEF ReadSkill
  <2>6. QED
    BY <2>3, <2>4, <2>5, ReadStep DEF ReadSkill
<1>2. CASE ~MayPublish(req[a].row)
  BY <1>2, ReadStep, NoRequestSound, Constants DEF ReadSkill, Close
<1>3. QED
  BY <1>1, <1>2
-----------------------------------------------------------------------------
(* A request that commits: it writes at most one revision, which is not    *)
(* published and is its own if it is new, and activates published          *)
(* revisions only.                                                         *)
LEMMA WriteStep ==
  ASSUME Catalog, NEW a \in Admin, Close(a), NEW k, NEW row,
         skill' \in [Skill -> SkillRow \cup {NULL}],
         \A s \in Skill : skill[s] # NULL => skill'[s] # NULL,
         \A s \in Skill : skill'[s] # NULL /\ skill'[s].active # NULL =>
           \/ skill[s] # NULL /\ skill'[s].active = skill[s].active
           \/ IsPublished(Active(s))',
         passed \subseteq passed', passed' \subseteq Revision,
         \/ rev' = rev
         \/ /\ k \in Revision /\ row \in RevisionRow /\ rev' = [rev EXCEPT ![k] = row]
            /\ ~IsPublished(k) /\ skill[k[1]] # NULL
            /\ rev[k] # NULL \/ (req[a].op = "create" /\ k = <<req[a].skill, req[a].version>>)
            /\ row.evaluation = "passed" \/ row.status = "published" => k \in passed'
  PROVE  Catalog' /\ Kept
<1>0. row \in RevisionRow => row # NULL
  BY SkillAssumption
<1>1. Kept
  BY <1>0 DEF Kept, Catalog, CatalogTypes
<1>2. /\ req' \in [Admin -> Copies]
      /\ req'[a].op = NULL
      /\ \A b \in Admin : b # a => req'[b] = req[b]
      /\ \A b \in Admin : Sound(req[b])'
  BY <1>1, CloseStep
<1>3. CatalogTypes'
  BY <1>2 DEF Catalog, CatalogTypes
<1>4. Reviewed'
  BY <1>0 DEF Catalog, CatalogTypes, Reviewed, Revision
<1>5. ActiveIsPublished'
  <2>1. \A j : IsPublished(j) => IsPublished(j)'
    BY <1>1 DEF IsPublished, Kept
  <2>2. QED
    BY <2>1 DEF Catalog, ActiveIsPublished, Active
<1>6. Serialised'
  <2>1. ASSUME NEW b \in Admin, req'[b].op = "create"
        PROVE  rev'[<<req'[b].skill, req'[b].version>>] = NULL
    <3>1. b # a /\ req'[b] = req[b] /\ req[b].op = "create"
      BY <2>1, <1>2, Constants
    <3> DEFINE j == <<req[b].skill, req[b].version>>
    <3>2. rev[j] = NULL /\ j \in Revision
      BY <3>1 DEF Catalog, Serialised, NoVersionConflict, Sound
    <3>3. CASE rev' = rev
      BY <3>1, <3>2, <3>3
    <3>4. CASE rev' # rev
      <4>1. k # j
        BY <3>1, <3>2, <3>4 DEF Catalog, Serialised
      <4>2. QED
        BY <3>1, <3>2, <3>4, <4>1, <1>3 DEF Catalog, CatalogTypes
    <3>5. QED
      BY <3>3, <3>4
  <2>2. QED
    BY <2>1, <1>2, Constants DEF Catalog, Serialised, NoVersionConflict
<1>7. QED
  BY <1>1, <1>2, <1>3, <1>4, <1>5, <1>6 DEF Catalog

(* The revision that a request decides about. *)
LEMMA DecisionFacts ==
  ASSUME Catalog, NEW a \in Admin, req[a].op \in Decision
  PROVE  LET k == <<req[a].skill, req[a].version>>
         IN /\ req[a].skill \in Skill /\ skill[req[a].skill] \in SkillRow
            /\ k \in Revision /\ rev[k] # NULL /\ rev[k] \in RevisionRow
            /\ req[a].row \in RevisionRow /\ req[a].version \in Version
<1>1. Sound(req[a]) /\ req[a] \in Copies /\ req[a].op # NULL
  BY Constants DEF Catalog, CatalogTypes
<1>2. QED
  BY <1>1 DEF Sound, Copies, Catalog, CatalogTypes, Revision

LEMMA InsertRevisionStep ==
  ASSUME Catalog, NEW a \in Admin, InsertRevision(a)
  PROVE  Catalog' /\ Kept
<1> DEFINE k == <<req[a].skill, req[a].version>>
<1>1. req[a].op = "create" /\ req[a].op # NULL /\ Sound(req[a])
  BY Constants DEF InsertRevision, Catalog
<1>2. k \in Revision /\ skill[k[1]] # NULL /\ rev[k] = NULL
  BY <1>1 DEF Sound, Catalog, Serialised, NoVersionConflict
<1>3. /\ rev' = [rev EXCEPT ![k] = Draft] /\ ~IsPublished(k)
      /\ Close(a) /\ UNCHANGED <<skill, passed>>
  BY <1>2 DEF InsertRevision, IsPublished
<1>4. Draft.evaluation # "passed" /\ Draft.status # "published" /\ Draft \in RevisionRow
  BY Constants
<1>5. /\ skill' \in [Skill -> SkillRow \cup {NULL}] /\ passed' \subseteq Revision
      /\ passed \subseteq passed'
  BY <1>3 DEF Catalog, CatalogTypes
<1>6. QED
  BY <1>1, <1>2, <1>3, <1>4, <1>5, WriteStep

LEMMA ApproveRevisionStep ==
  ASSUME Catalog, NEW a \in Admin, ApproveRevision(a)
  PROVE  Catalog' /\ Kept
<1> DEFINE k == <<req[a].skill, req[a].version>>
           new == [rev[k] EXCEPT !.status = "approved"]
<1>1. req[a].op \in Decision
  BY DEF ApproveRevision, Decision
<1>2. k \in Revision /\ rev[k] # NULL /\ rev[k] \in RevisionRow /\ skill[k[1]] # NULL
  BY <1>1, DecisionFacts DEF Catalog, Reviewed
<1>3. new \in RevisionRow /\ new.evaluation = rev[k].evaluation /\ new.status # "published"
  BY <1>2 DEF RevisionRow
<1>4. /\ rev' = rev \/ (rev' = [rev EXCEPT ![k] = new] /\ ~IsPublished(k))
      /\ Close(a) /\ UNCHANGED <<skill, passed>>
  BY DEF ApproveRevision, UpdateRevision, Immutable, IsPublished
<1>5. /\ skill' \in [Skill -> SkillRow \cup {NULL}] /\ passed' \subseteq Revision
      /\ passed \subseteq passed'
  BY <1>4 DEF Catalog, CatalogTypes
<1>6. rev[k].evaluation = "passed" => k \in passed'
  BY <1>2, <1>4 DEF Catalog, Reviewed
<1> HIDE DEF new, k
<1>7. QED
  BY <1>2, <1>3, <1>4, <1>5, <1>6, WriteStep

LEMMA EvaluateRevisionStep ==
  ASSUME Catalog, NEW a \in Admin, EvaluateRevision(a)
  PROVE  Catalog' /\ Kept
<1> DEFINE k == <<req[a].skill, req[a].version>>
           new == [rev[k] EXCEPT !.evaluation = req[a].op]
<1>1. req[a].op \in {"passed", "failed"} /\ req[a].op \in Decision
  BY DEF EvaluateRevision, Decision
<1>2. k \in Revision /\ rev[k] # NULL /\ rev[k] \in RevisionRow /\ skill[k[1]] # NULL
  BY <1>1, DecisionFacts DEF Catalog, Reviewed
<1>3. new \in RevisionRow /\ new.evaluation = req[a].op /\ new.status = rev[k].status
  BY <1>1, <1>2 DEF RevisionRow
<1>4. /\ rev' = rev \/ (rev' = [rev EXCEPT ![k] = new] /\ ~IsPublished(k))
      /\ Close(a) /\ UNCHANGED skill
  BY DEF EvaluateRevision, UpdateRevision, Immutable, IsPublished
<1>5. passed' = IF rev'[k].evaluation = "passed" THEN passed \cup {k} ELSE passed
  BY DEF EvaluateRevision
<1>6. /\ skill' \in [Skill -> SkillRow \cup {NULL}] /\ passed' \subseteq Revision
      /\ passed \subseteq passed'
  BY <1>2, <1>4, <1>5 DEF Catalog, CatalogTypes
<1>7. rev' = [rev EXCEPT ![k] = new] /\ ~IsPublished(k) =>
        (new.evaluation = "passed" \/ new.status = "published" => k \in passed')
  BY <1>2, <1>3, <1>5 DEF IsPublished, Catalog, CatalogTypes
<1> HIDE DEF new, k
<1>8. QED
  BY <1>2, <1>3, <1>4, <1>6, <1>7, WriteStep

(* What publish_revision and deprecate_skill leave in the skill's row. *)
LEMMA SkillWrite ==
  ASSUME Catalog, NEW s \in Skill, skill[s] \in SkillRow, NEW old, NEW new \in SkillRow,
         WriteSkill(s, old, new)
  PROVE  /\ skill' \in [Skill -> SkillRow \cup {NULL}]
         /\ \A t \in Skill : skill[t] # NULL => skill'[t] # NULL
         /\ \A t \in Skill : t # s => skill'[t] = skill[t]
         /\ skill'[s].active \in {new.active, skill[s].active}
<1> DEFINE row == [status |-> IF new.status # old.status THEN new.status ELSE skill[s].status,
                   active |-> IF new.active # old.active THEN new.active ELSE skill[s].active]
<1>1. row \in SkillRow /\ row.active \in {new.active, skill[s].active}
  BY DEF SkillRow
<1>2. row # NULL
  BY <1>1, SkillAssumption
<1>3. skill' = [skill EXCEPT ![s] = row]
  BY DEF WriteSkill
<1> HIDE DEF row
<1>4. QED
  BY <1>1, <1>2, <1>3 DEF Catalog, CatalogTypes

LEMMA DeprecateSkillStep ==
  ASSUME Catalog, NEW a \in Admin, DeprecateSkill(a)
  PROVE  Catalog' /\ Kept
<1> DEFINE s == req[a].skill
           new == [status |-> "deprecated", active |-> NULL]
<1>1. req[a].op # NULL /\ Sound(req[a])
  BY Constants DEF DeprecateSkill, Catalog
<1>2. s \in Skill /\ skill[s] # NULL /\ skill[s] \in SkillRow
  BY <1>1 DEF Sound, Catalog, CatalogTypes
<1>3. new \in SkillRow /\ new.active = NULL
  BY DEF SkillRow
<1>4. WriteSkill(s, req[a].old, new) /\ Close(a) /\ UNCHANGED <<rev, passed>>
  BY DEF DeprecateSkill
<1> HIDE DEF new, s
<1>5. /\ skill' \in [Skill -> SkillRow \cup {NULL}]
      /\ \A t \in Skill : skill[t] # NULL => skill'[t] # NULL
      /\ \A t \in Skill : t # s => skill'[t] = skill[t]
      /\ skill'[s].active \in {NULL, skill[s].active}
  BY <1>2, <1>3, <1>4, SkillWrite
<1>6. passed \subseteq passed' /\ passed' \subseteq Revision
  BY <1>4 DEF Catalog, CatalogTypes
<1>7. QED
  BY <1>2, <1>4, <1>5, <1>6, WriteStep, Constants

LEMMA PublishRevisionStep ==
  ASSUME Catalog, NEW a \in Admin, PublishRevision(a)
  PROVE  Catalog' /\ Kept
<1> DEFINE s == req[a].skill
           k == <<s, req[a].version>>
           new == [status |-> "published", active |-> req[a].version]
           row == [rev[k] EXCEPT !.status = "published"]
<1>1. req[a].op = "publish" /\ req[a].op \in Decision /\ req[a].old # NULL /\ Sound(req[a])
  BY DEF PublishRevision, Catalog, Decision
<1>2. /\ s \in Skill /\ skill[s] \in SkillRow /\ skill[s] # NULL
      /\ k \in Revision /\ rev[k] # NULL /\ rev[k] \in RevisionRow /\ req[a].version \in Version
  BY <1>1, DecisionFacts, SkillAssumption
<1>3. k \in passed /\ (req[a].row.status = "approved" \/ IsPublished(k))
  BY <1>1 DEF Sound, MayPublish
<1>4. Close(a) /\ UNCHANGED passed /\ passed' \subseteq Revision
  BY DEF PublishRevision, Catalog, CatalogTypes
<1>5. CASE UNCHANGED <<rev, skill>>
  <2>1. skill' \in [Skill -> SkillRow \cup {NULL}]
    BY <1>5 DEF Catalog, CatalogTypes
  <2>2. QED
    BY <1>4, <1>5, <2>1, WriteStep
<1>6. CASE /\ req[a].row.status = "approved" => ~Immutable(rev[k])
           /\ rev' = IF req[a].row.status = "approved" THEN [rev EXCEPT ![k] = row] ELSE rev
           /\ WriteSkill(s, req[a].old, new)
  <2>1. new \in SkillRow /\ new.active = req[a].version
    BY <1>2 DEF SkillRow
  <2>2. row \in RevisionRow /\ row.status = "published" /\ row # NULL
    BY <1>2, SkillAssumption DEF RevisionRow
  <2> HIDE DEF new, row
  <2>3. /\ skill' \in [Skill -> SkillRow \cup {NULL}]
        /\ \A t \in Skill : skill[t] # NULL => skill'[t] # NULL
        /\ \A t \in Skill : t # s => skill'[t] = skill[t]
        /\ skill'[s].active \in {req[a].version, skill[s].active}
    BY <1>2, <1>6, <2>1, SkillWrite
  <2>4. k \in Revision /\ rev'[k] # NULL /\ rev'[k].status = "published"
    BY <1>2, <1>3, <1>6, <2>2 DEF IsPublished, Catalog, CatalogTypes
  <2>5. \A t \in Skill : skill'[t] # NULL /\ skill'[t].active # NULL =>
           \/ skill[t] # NULL /\ skill'[t].active = skill[t].active
           \/ IsPublished(Active(t))'
    <3> SUFFICES ASSUME NEW t \in Skill, skill'[t] # NULL
                 PROVE  \/ skill[t] # NULL /\ skill'[t].active = skill[t].active
                        \/ IsPublished(Active(t))'
      OBVIOUS
    <3>1. CASE t = s /\ skill'[t].active = req[a].version
      <4>1. Active(t)' = k
        BY <3>1 DEF Active
      <4> HIDE DEF k
      <4>2. QED
        BY <4>1, <2>4 DEF IsPublished
    <3>2. CASE ~(t = s /\ skill'[t].active = req[a].version)
      BY <3>2, <2>3, <1>2
    <3>3. QED
      BY <3>1, <3>2
  <2>6. \/ rev' = rev
        \/ rev' = [rev EXCEPT ![k] = row] /\ ~IsPublished(k) /\ skill[k[1]] # NULL
    BY <1>6, <1>2 DEF IsPublished, Immutable
  <2> HIDE DEF k, s
  <2>7. QED
    BY <1>2, <1>3, <1>4, <2>2, <2>3, <2>5, <2>6, WriteStep
<1>7. QED
  BY <1>5, <1>6 DEF PublishRevision

LEMMA RegistryInv == ASSUME Catalog, RegistryStep PROVE Catalog' /\ Kept
<1> USE DEF RegistryStep
<1>1. CASE \E s \in Skill : CreateSkill(s) \/ ImportSkill(s)
  BY <1>1, InsertSkillStep DEF CreateSkill, ImportSkill, Version
<1>2. CASE \E a \in Admin, s \in Skill : OpenDeprecate(a, s)
  BY <1>2, OpenDeprecateStep
<1>3. CASE \E a \in Admin, s \in Skill, v \in Version : AllocateVersion(a, s, v)
  BY <1>3, AllocateVersionStep
<1>4. CASE \E a \in Admin, op \in Decision, s \in Skill, v \in Version : ReadRevision(a, op, s, v)
  BY <1>4, ReadRevisionStep
<1>5. ASSUME NEW a \in Admin,
             \/ InsertRevision(a) \/ ApproveRevision(a) \/ EvaluateRevision(a)
             \/ ReadSkill(a) \/ PublishRevision(a) \/ DeprecateSkill(a)
      PROVE  Catalog' /\ Kept
  BY <1>5, InsertRevisionStep, ApproveRevisionStep, EvaluateRevisionStep, ReadSkillStep,
     PublishRevisionStep, DeprecateSkillStep
<1>6. QED
  BY <1>1, <1>2, <1>3, <1>4, <1>5
-----------------------------------------------------------------------------
(* The runs: a request leaves them alone and what they use published. *)
LEMMA RunsKept ==
  ASSUME Runs, Kept, UNCHANGED <<run, found, usage>>
  PROVE  Runs'
<1>1. \A k : IsPublished(k) => IsPublished(k)'
  BY DEF IsPublished, Kept
<1>2. RunTypes' /\ UsageAgreesWithRun'
  BY DEF Runs, RunTypes, UsageAgreesWithRun, RowsOf
<1>3. InUseIsPublished'
  BY <1>1 DEF Runs, InUseIsPublished
<1>4. QED
  BY <1>2, <1>3 DEF Runs

LEMMA StatusFacts ==
  /\ "running" \notin Terminal /\ "waiting" \notin Terminal
  /\ "cancelled" \in Terminal /\ "timed_out" \in Terminal
  /\ \A st : st \in Success <=> st = "completed"
BY DEF Terminal, Success, Failure

(* SelectSkill, UseSkill and Crash: only the engine's found revision moves. *)
LEMMA FoundStep ==
  ASSUME Catalog, Runs, NEW r \in Run, NEW k \in Revision \cup {NULL},
         k # NULL => IsPublished(k),
         found' = [found EXCEPT ![r] = k], UNCHANGED <<registry, run, usage>>
  PROVE  Runs'
<1>1. RunTypes' /\ UsageAgreesWithRun'
  BY DEF Runs, RunTypes, UsageAgreesWithRun, RowsOf
<1>2. InUseIsPublished'
  BY DEF Runs, RunTypes, InUseIsPublished, IsPublished, registry
<1>3. QED
  BY <1>1, <1>2 DEF Runs

LEMMA PublishedFound ==
  ASSUME Catalog, NEW s \in Skill, Published(s)
  PROVE  Active(s) \in Revision /\ IsPublished(Active(s))
BY DEF Catalog, Published, ActiveIsPublished, IsPublished

(* A step that ends run r, or parks or resumes it, and writes usage rows   *)
(* of r for its own skill only.                                            *)
LEMMA StatusStep ==
  ASSUME Catalog, Runs, NEW r \in Run, NEW st \in {"running", "waiting"} \cup Terminal,
         run' = [run EXCEPT ![r].status = st], UNCHANGED <<registry, found>>,
         usage' \in [Revision \X Run -> UsageRow \cup {NULL}],
         \A q \in Run : q # r => \A k \in Revision : usage'[<<k, q>>] = usage[<<k, q>>],
         \A k \in Revision : usage'[<<k, r>>] # NULL =>
            /\ k = run[r].skill /\ st \in Terminal
            /\ usage'[<<k, r>>].success = (st = "completed"),
         st \in Terminal \ {"timed_out"} /\ run[r].skill # NULL =>
            usage'[<<run[r].skill, r>>] # NULL
  PROVE  Runs'
<1>1. /\ run' \in [Run -> RunRow]
      /\ run'[r].status = st /\ run'[r].skill = run[r].skill
      /\ \A q \in Run : q # r => run'[q] = run[q]
  BY DEF Runs, RunTypes, RunRow
<1>2. RunTypes'
  BY <1>1 DEF Runs, RunTypes
<1>3. InUseIsPublished'
  BY <1>1 DEF Runs, InUseIsPublished, IsPublished, registry
<1>4. UsageAgreesWithRun'
  <2> SUFFICES ASSUME NEW q \in Run
               PROVE  /\ \A k \in RowsOf(q)' :
                           /\ k = run'[q].skill /\ run'[q].status \in Terminal
                           /\ usage'[<<k, q>>].success = (run'[q].status = "completed")
                      /\ run'[q].status \in Terminal /\ run'[q].skill # NULL /\ RowsOf(q)' = {} =>
                           run'[q].status = "timed_out"
    BY DEF UsageAgreesWithRun
  <2>1. CASE q = r
    <3>1. run[r].skill # NULL => run[r].skill \in Revision
      BY DEF Runs, RunTypes, RunRow
    <3>2. QED
      BY <2>1, <1>1, <3>1 DEF RowsOf
  <2>2. CASE q # r
    <3>1. RowsOf(q)' = RowsOf(q) /\ run'[q] = run[q]
          /\ \A k \in RowsOf(q) : usage'[<<k, q>>] = usage[<<k, q>>]
      BY <2>2, <1>1 DEF RowsOf
    <3>2. /\ \A k \in RowsOf(q) : /\ k = run[q].skill /\ run[q].status \in Terminal
                                  /\ usage[<<k, q>>].success = (run[q].status = "completed")
          /\ run[q].status \in Terminal /\ run[q].skill # NULL /\ RowsOf(q) = {} =>
               run[q].status = "timed_out"
      BY DEF Runs, UsageAgreesWithRun
    <3>3. ASSUME NEW k \in RowsOf(q)'
          PROVE  /\ k = run'[q].skill /\ run'[q].status \in Terminal
                 /\ usage'[<<k, q>>].success = (run'[q].status = "completed")
      <4>1. k \in RowsOf(q) /\ usage'[<<k, q>>] = usage[<<k, q>>] /\ run'[q] = run[q]
        BY <3>1, <3>3
      <4>2. usage[<<k, q>>].success = (run[q].status = "completed")
        BY <4>1, <3>2
      <4>3. QED
        BY <4>1, <4>2, <3>2
    <3>4. QED
      BY <3>1, <3>2, <3>3
  <2>3. QED
    BY <2>1, <2>2
<1>5. QED
  BY <1>2, <1>3, <1>4 DEF Runs

(* The upsert of record_skill_usage_for_run, for a run without rows. *)
LEMMA UsageWrite ==
  ASSUME Runs, NEW r \in Run, run[r].status \notin Terminal, NEW st \in Terminal,
         RecordUsage(r, run[r].skill, st)
  PROVE  /\ usage' \in [Revision \X Run -> UsageRow \cup {NULL}]
         /\ \A q \in Run : q # r => \A k \in Revision : usage'[<<k, q>>] = usage[<<k, q>>]
         /\ \A k \in Revision : usage'[<<k, r>>] # NULL =>
              /\ k = run[r].skill
              /\ usage'[<<k, r>>].success = (st = "completed")
         /\ run[r].skill # NULL => usage'[<<run[r].skill, r>>] # NULL
<1> DEFINE j == run[r].skill
           row == NewUsage(st, usage[<<j, r>>] # NULL /\ usage[<<j, r>>].feedback)
<1>1. j \in Revision \cup {NULL} /\ usage \in [Revision \X Run -> UsageRow \cup {NULL}]
  BY DEF Runs, RunTypes, RunRow
<1>2. \A k \in Revision : usage[<<k, r>>] = NULL
  BY DEF Runs, UsageAgreesWithRun, RowsOf
<1>3. CASE j = NULL
  BY <1>1, <1>2, <1>3 DEF RecordUsage
<1>4. CASE j # NULL
  <2>1. row = NewUsage(st, FALSE)
    BY <1>1, <1>2, <1>4
  <2>2. NewUsage(st, FALSE) \in UsageRow /\ NewUsage(st, FALSE).success = (st = "completed")
    BY StatusFacts DEF NewUsage, UsageRow
  <2>3. row \in UsageRow /\ row.success = (st = "completed") /\ row # NULL
    BY <2>1, <2>2, SkillAssumption
  <2>4. usage' = [usage EXCEPT ![<<j, r>>] = row]
    BY <1>4 DEF RecordUsage
  <2> HIDE DEF row, j
  <2>5. QED
    BY <1>1, <1>2, <1>4, <2>3, <2>4 DEF j
<1>5. QED
  BY <1>3, <1>4

LEMMA LookUpStep ==
  ASSUME Catalog, Runs, NEW r \in Run,
         SelectSkill(r) \/ Crash(r) \/ \E s \in Skill : UseSkill(r, s)
  PROVE  Runs'
<1>1. CASE SelectSkill(r)
  <2>1. PICK s \in Skill : Dominant(s) /\ found' = [found EXCEPT ![r] = Active(s)]
    BY <1>1 DEF SelectSkill
  <2>2. Active(s) \in Revision /\ IsPublished(Active(s))
    BY <2>1, PublishedFound DEF Dominant, Offered
  <2>3. UNCHANGED <<registry, run, usage>>
    BY <1>1 DEF SelectSkill
  <2>4. QED
    BY <2>1, <2>2, <2>3, FoundStep
<1>2. CASE Crash(r)
  BY <1>2, FoundStep DEF Crash
<1>3. CASE \E s \in Skill : UseSkill(r, s)
  <2>1. PICK s \in Skill : UseSkill(r, s)
    BY <1>3
  <2>2. Active(s) \in Revision /\ IsPublished(Active(s))
    BY <2>1, PublishedFound DEF UseSkill
  <2>3. found' = [found EXCEPT ![r] = Active(s)] /\ UNCHANGED <<registry, run, usage>>
    BY <2>1 DEF UseSkill
  <2>4. QED
    BY <2>2, <2>3, FoundStep
<1>4. QED
  BY <1>1, <1>2, <1>3

LEMMA ApplySkillStep ==
  ASSUME Catalog, Runs, NEW r \in Run, ApplySkill(r)
  PROVE  Runs'
<1>1. found[r] \in Revision /\ found[r] # NULL /\ IsPublished(found[r])
  BY DEF ApplySkill, Runs, RunTypes, InUseIsPublished
<1>2. run[r].status = "running" /\ run[r].status \notin Terminal /\ run[r] \in RunRow
  BY StatusFacts DEF ApplySkill, FenceAllows, Runs, RunTypes
<1>3. /\ run' \in [Run -> RunRow]
      /\ run'[r].status = run[r].status /\ run'[r].skill = found[r]
      /\ \A q \in Run : q # r => run'[q] = run[q]
      /\ found' = [found EXCEPT ![r] = NULL]
      /\ UNCHANGED <<registry, usage>>
  BY <1>1, <1>2 DEF ApplySkill, Runs, RunTypes, RunRow
<1>4. RunTypes'
  BY <1>3 DEF Runs, RunTypes
<1>5. InUseIsPublished'
  BY <1>1, <1>3 DEF Runs, RunTypes, InUseIsPublished, IsPublished, registry
<1>6. RowsOf(r) = {}
  BY <1>2 DEF Runs, UsageAgreesWithRun
<1>7. UsageAgreesWithRun'
  BY <1>2, <1>3, <1>6 DEF Runs, UsageAgreesWithRun, RowsOf
<1>8. QED
  BY <1>4, <1>5, <1>7 DEF Runs

LEMMA EndRunStep ==
  ASSUME Catalog, Runs, NEW r \in Run, NEW st \in Terminal,
         EndRun(r, st) \/ (CancelRun(r) /\ st = "cancelled")
  PROVE  Runs'
<1>1. /\ run[r].status \notin Terminal
      /\ run' = [run EXCEPT ![r].status = st]
      /\ RecordUsage(r, run[r].skill, st)
      /\ UNCHANGED <<registry, found>>
  BY StatusFacts DEF EndRun, CancelRun
<1>2. /\ usage' \in [Revision \X Run -> UsageRow \cup {NULL}]
      /\ \A q \in Run : q # r => \A k \in Revision : usage'[<<k, q>>] = usage[<<k, q>>]
      /\ \A k \in Revision : usage'[<<k, r>>] # NULL =>
           k = run[r].skill /\ usage'[<<k, r>>].success = (st = "completed")
      /\ run[r].skill # NULL => usage'[<<run[r].skill, r>>] # NULL
  BY <1>1, UsageWrite
<1>3. st \in {"running", "waiting"} \cup Terminal
  OBVIOUS
<1>4. QED
  BY <1>1, <1>2, <1>3, StatusStep

(* The steps that leave the usage of a live run alone: it has no row. *)
LEMMA LiveStep ==
  ASSUME Catalog, Runs, NEW r \in Run, ParkRun(r) \/ ExpireRun(r)
  PROVE  Runs'
<1>1. PICK st \in {"running", "waiting", "timed_out"} :
        run' = [run EXCEPT ![r].status = st]
  BY DEF ParkRun, ExpireRun
<1>2. run[r].status \notin Terminal /\ UNCHANGED <<registry, found, usage>>
  BY StatusFacts DEF ParkRun, ExpireRun
<1>3. \A k \in Revision : usage[<<k, r>>] = NULL
  BY <1>2 DEF Runs, UsageAgreesWithRun, RowsOf
<1>4. st \in {"running", "waiting"} \cup Terminal /\ st \notin Terminal \ {"timed_out"}
  BY StatusFacts
<1>5. usage' \in [Revision \X Run -> UsageRow \cup {NULL}]
  BY <1>2 DEF Runs, RunTypes
<1>6. QED
  BY <1>1, <1>2, <1>3, <1>4, <1>5, StatusStep

LEMMA FeedbackStep ==
  ASSUME Catalog, Runs, NEW r \in Run, Feedback(r)
  PROVE  Runs'
<1> DEFINE k == run[r].skill
           st == run[r].status
           row == NewUsage(st, TRUE)
<1>1. st \in Terminal /\ k \in Revision /\ RowsOf(r) \subseteq {k}
  BY DEF Feedback, Runs, RunTypes, RunRow
<1>2. row \in UsageRow /\ row.success = (st = "completed") /\ row # NULL
  <2>1. row \in UsageRow /\ row.success = (st = "completed")
    BY StatusFacts DEF NewUsage, UsageRow
  <2>2. QED
    BY <2>1, SkillAssumption
<1>3. usage' = [usage EXCEPT ![<<k, r>>] = row] /\ UNCHANGED <<registry, run, found>>
  BY DEF Feedback
<1>4. run' = [run EXCEPT ![r].status = st]
  BY <1>3 DEF Runs, RunTypes, RunRow
<1> HIDE DEF row
<1>5. usage' \in [Revision \X Run -> UsageRow \cup {NULL}]
  BY <1>1, <1>2, <1>3 DEF Runs, RunTypes
<1>6. /\ usage'[<<k, r>>] = row
      /\ \A q \in Run : q # r => \A j \in Revision : usage'[<<j, q>>] = usage[<<j, q>>]
      /\ \A j \in Revision : j # k => usage'[<<j, r>>] = NULL
  BY <1>1, <1>3 DEF Runs, RunTypes, RowsOf
<1>7. st \in {"running", "waiting"} \cup Terminal
  BY <1>1
<1>8. QED
  BY <1>1, <1>2, <1>3, <1>4, <1>5, <1>6, <1>7, StatusStep
-----------------------------------------------------------------------------
LEMMA StepInv == ASSUME IInv, [Next]_vars PROVE IInv' /\ Kept
<1>1. CASE RegistryStep
  <2>1. Catalog' /\ Kept
    BY <1>1, RegistryInv DEF IInv
  <2>2. UNCHANGED <<run, found, usage>>
    BY <1>1 DEF RegistryStep, CreateSkill, ImportSkill, InsertSkill, OpenDeprecate,
                AllocateVersion, ReadRevision, InsertRevision, ApproveRevision,
                EvaluateRevision, ReadSkill, PublishRevision, DeprecateSkill, runs
  <2>3. QED
    BY <2>1, <2>2, RunsKept DEF IInv
<1>2. ASSUME NEW r \in Run, RunStep(r) PROVE IInv' /\ Kept
  <2>1. UNCHANGED registry
    BY <1>2 DEF RunStep, SelectSkill, ApplySkill, Crash, ParkRun, CancelRun, ExpireRun,
                UseSkill, EndRun, Feedback
  <2>2. Catalog' /\ Kept
    BY <2>1 DEF registry, IInv, Kept, Catalog, CatalogTypes, Reviewed, Serialised, NoVersionConflict,
                ActiveIsPublished, Active, Sound, IsPublished
  <2>3. Runs'
    BY <1>2, LookUpStep, ApplySkillStep, EndRunStep, LiveStep, FeedbackStep, StatusFacts
       DEF RunStep, IInv
  <2>4. QED
    BY <2>2, <2>3 DEF IInv
<1>3. CASE UNCHANGED vars
  <2>1. UNCHANGED <<run, found, usage>> /\ UNCHANGED registry
    BY <1>3 DEF vars, registry
  <2>2. Catalog' /\ Kept
    BY <2>1 DEF registry, IInv, Kept, Catalog, CatalogTypes, Reviewed, Serialised, NoVersionConflict,
                ActiveIsPublished, Active, Sound, IsPublished
  <2>3. QED
    BY <2>1, <2>2, RunsKept DEF IInv
<1>4. QED
  BY <1>1, <1>2, <1>3 DEF Next

(* The inductive invariant holds in every reachable state. *)
THEOREM Invariance == Spec => []IInv
<1>1. Init => IInv
  BY InitInv
<1>2. IInv /\ [Next]_vars => IInv'
  BY StepInv
<1>3. QED
  BY <1>1, <1>2, PTL DEF Spec

(* create_revision: the lock serialises the allocation of version numbers, *)
(* so the unique constraint never refuses the insert.                      *)
THEOREM VersionsSerialised == Spec => []NoVersionConflict
<1>1. IInv => NoVersionConflict
  BY DEF IInv, Catalog, Serialised
<1>2. QED
  BY <1>1, Invariance, PTL

(* No request that overlaps another changes a published revision. *)
THEOREM RevisionsFrozen == Spec => PublishedIsFrozen
<1>1. IInv /\ [Next]_vars =>
        [\A k \in Revision : rev[k] # NULL /\ rev[k].status = "published" => rev'[k] = rev[k]]_vars
  BY StepInv DEF Kept, IsPublished
<1>2. QED
  BY <1>1, Invariance, PTL DEF Spec, PublishedIsFrozen

(* Whatever the catalog offers, an engine has found or a run has applied   *)
(* is published and has passed an evaluation.                              *)
THEOREM SkillsReviewed == Spec => []AppliedSkillWasReviewed
<1>1. IInv => AppliedSkillWasReviewed
  <2> SUFFICES ASSUME IInv, NEW k \in InUse \ {NULL}
               PROVE  rev[k].status = "published" /\ k \in passed
    BY DEF AppliedSkillWasReviewed
  <2>1. IsPublished(k)
    <3>1. PICK r \in Run : k \in InPrompt(r) \cup {found[r]}
      BY DEF InUse
    <3>2. CASE k = found[r] \/ k = run[r].skill
      BY <3>2 DEF IInv, Runs, InUseIsPublished
    <3>3. CASE k \in {Active(s) : s \in Offered}
      BY <3>3, PublishedFound DEF Offered, IInv
    <3>4. QED
      BY <3>1, <3>2, <3>3 DEF InPrompt
  <2>2. QED
    BY <2>1 DEF IsPublished, IInv, Catalog, Reviewed
<1>2. QED
  BY <1>1, Invariance, PTL

(* A run's usage row is the one of the skill it ended with and agrees with *)
(* how it ended.                                                           *)
THEOREM UsageCorrect == Spec => []UsageAgreesWithRun
<1>1. IInv => UsageAgreesWithRun
  BY DEF IInv, Runs
<1>2. QED
  BY <1>1, Invariance, PTL
=============================================================================
