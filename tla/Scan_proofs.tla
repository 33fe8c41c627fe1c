----------------------------- MODULE Scan_proofs -----------------------------
(***************************************************************************)
(* Theorems about Scan, for any threads and bounds: whatever raises, and    *)
(* whenever the process dies.                                               *)
(***************************************************************************)
EXTENDS Scan, TLAPS

Pc == Trying \cup {"idle", "insert", "audit"}
RequestState == [pc : Pc, scan : Nat, model : Model, raised : BOOLEAN, quarantined : BOOLEAN]

Begun == 1 .. scans
Busy(t) == request[t].pc # "idle"

Typed ==
  /\ scans \in Nat
  /\ uploads \subseteq Begun /\ quarantine \subseteq Begun /\ readOnly \subseteq Begun
  /\ request \in [Thread -> RequestState]

\* A scan has one thread and one answer.
Owned ==
  /\ \A t \in Thread : Busy(t) => request[t].scan \in Begun
  /\ \A t, v \in Thread : Busy(t) /\ Busy(v) /\ t # v => request[t].scan # request[v].scan
  /\ \A a \in answers : a.scan \in Begun
  /\ \A a \in answers, t \in Thread : Busy(t) => a.scan # request[t].scan

\* What flag q says of the quarantine of scan s is true.
Says(q, s) == (q = TRUE <=> s \in quarantine) /\ (q = TRUE <=> s \in readOnly)

\* Where the file of a request is, as far as the request knows
Placed(r) ==
  /\ r.pc \in {"analyze", "predict", "move"} => 
       Says(FALSE, r.scan) /\ r.quarantined = FALSE /\ r.raised = FALSE
  /\ r.pc \in {"unlink", "chmod"} =>
       r.scan \in quarantine /\ r.scan \notin readOnly /\ r.quarantined = FALSE /\ r.raised = FALSE
  /\ r.pc = "chmod" => r.scan \notin uploads
  /\ r.pc = "finally" => r.raised = TRUE \/ Says(r.quarantined, r.scan)
  /\ r.pc \in {"insert", "audit"} => Says(r.quarantined, r.scan) /\ r.scan \notin uploads
  /\ r.pc = "audit" => r.scan \in predictions

ScanInv == Typed /\ Owned /\ (\A t \in Thread : Placed(request[t])) /\ TempCleaned /\ AnswerIsTrue

-----------------------------------------------------------------------------
(* Steps of one request                                                      *)

LEMMA IdleFacts == Idle \in RequestState /\ Idle.pc = "idle" /\ Idle.scan = 0
  /\ Idle.raised = FALSE /\ Idle.quarantined = FALSE
BY DEF Idle, RequestState, Pc, Trying, Model

LEMMA IdlePlaced == ASSUME NEW r, r.pc = "idle" PROVE Placed(r) /\ Placed(r)'
BY DEF Placed

LEMMA RequestFacts ==
  ASSUME NEW r \in RequestState
  PROVE  r.pc \in Pc /\ r.scan \in Nat /\ r.model \in Model
         /\ r.raised \in BOOLEAN /\ r.quarantined \in BOOLEAN
BY DEF RequestState

\* Of the scans, only s may have files put elsewhere.
Only(s) ==
  /\ \A x : x # s => (x \in uploads' <=> x \in uploads)
  /\ \A x : x # s => (x \in quarantine' <=> x \in quarantine)
  /\ \A x : x # s => (x \in readOnly' <=> x \in readOnly)
  /\ predictions \subseteq predictions'

LEMMA OthersPlaced ==
  ASSUME NEW s, NEW q, Only(s), q.scan # s, Placed(q)
  PROVE  Placed(q)'
BY DEF Only, Placed, Says

LEMMA AnswersStay ==
  ASSUME NEW s, Only(s), AnswerIsTrue, answers' = answers, \A a \in answers : a.scan # s
  PROVE  AnswerIsTrue'
BY DEF Only, AnswerIsTrue

\* A request in progress goes on to r, or is over.
LEMMA Moved ==
  ASSUME ScanInv, NEW t \in Thread, Busy(t), NEW r \in RequestState,
         request' = [request EXCEPT ![t] = r],
         r.pc = "idle" \/ r.scan = request[t].scan,
         Only(request[t].scan), Placed(r)',
         uploads' \subseteq uploads,
         r.pc \in Trying \/ request[t].scan \notin uploads',
         quarantine' \subseteq Begun, readOnly' \subseteq Begun,
         scans' = scans, answers' = answers, abandoned' = abandoned
  PROVE  ScanInv'
<1>r. /\ request \in [Thread -> RequestState]
      /\ request'[t] = r
      /\ \A v \in Thread : v # t => request'[v] = request[v]
  BY DEF ScanInv, Typed
<1>1. Typed'
  BY DEF ScanInv, Typed, Begun
<1>2. Owned'
  <2>1. \A v \in Thread : Busy(v)' => Busy(v) /\ request'[v].scan = request[v].scan
    BY <1>r DEF Busy
  <2> QED BY <2>1 DEF ScanInv, Owned, Begun
<1>3. \A v \in Thread : Placed(request[v])'
  <2> SUFFICES ASSUME NEW v \in Thread PROVE Placed(request[v])'
    OBVIOUS
  <2>1. CASE v = t
    BY <1>r, <2>1 DEF Placed, Says
  <2>2. CASE v # t
    <3> PICK q : q = request[v]
      OBVIOUS
    <3>1. request'[v] = q /\ Placed(q)
      BY <1>r, <2>2 DEF ScanInv
    <3>2. Placed(q)'
      <4>1. CASE Busy(v)
        <5>1. q.scan # request[t].scan
          BY <2>2, <4>1 DEF ScanInv, Owned
        <5> QED BY <3>1, <5>1, OthersPlaced
      <4>2. CASE ~Busy(v)
        BY <4>2, IdlePlaced DEF Busy
      <4> QED BY <4>1, <4>2
    <3> QED BY <3>1, <3>2 DEF Placed, Says
  <2> QED BY <2>1, <2>2
<1>4. TempCleaned'
  <2> SUFFICES ASSUME NEW u \in uploads', u \notin abandoned
               PROVE  \E v \in Thread : request'[v].pc \in Trying /\ request'[v].scan = u
    BY DEF TempCleaned
  <2>1. PICK v \in Thread : request[v].pc \in Trying /\ request[v].scan = u
    BY DEF ScanInv, TempCleaned
  <2>2. "idle" \notin Trying
    BY DEF Trying
  <2> QED BY <1>r, <2>1, <2>2
<1>5. AnswerIsTrue'
  BY AnswersStay DEF ScanInv, Owned
<1> QED BY <1>1, <1>2, <1>3, <1>4, <1>5 DEF ScanInv

\* What a request may become by one assignment to its record
LEMMA Changes ==
  ASSUME NEW r \in RequestState, NEW p \in Pc
  PROVE  /\ [r EXCEPT !.pc = p] \in RequestState
         /\ [r EXCEPT !.pc = p].pc = p /\ [r EXCEPT !.pc = p].scan = r.scan
         /\ [r EXCEPT !.pc = p].raised = r.raised
         /\ [r EXCEPT !.pc = p].quarantined = r.quarantined
BY DEF RequestState

LEMMA Flagged ==
  ASSUME NEW r \in RequestState
  PROVE  LET a == [r EXCEPT !.pc = "finally", !.raised = TRUE]
             b == [r EXCEPT !.pc = "finally", !.quarantined = TRUE]
         IN  /\ a \in RequestState /\ a.pc = "finally" /\ a.scan = r.scan /\ a.raised = TRUE
             /\ b \in RequestState /\ b.pc = "finally" /\ b.scan = r.scan /\ b.quarantined = TRUE
             /\ b.raised = r.raised
BY DEF RequestState, Pc, Trying

\* What is true of a request that has not moved yet
LEMMA Before ==
  ASSUME ScanInv, NEW t \in Thread
  PROVE  /\ request \in [Thread -> RequestState] /\ request[t] \in RequestState
         /\ Placed(request[t])
         /\ Busy(t) => request[t].scan \in Begun
         /\ quarantine \subseteq Begun /\ readOnly \subseteq Begun
BY DEF ScanInv, Typed, Owned

LEMMA GoSets ==
  ASSUME ScanInv, NEW t \in Thread, NEW p \in Pc, Go(t, p)
  PROVE  \E r \in RequestState : /\ request' = [request EXCEPT ![t] = r]
                                 /\ r.pc = p /\ r.scan = request[t].scan
                                 /\ r.raised = request[t].raised
                                 /\ r.quarantined = request[t].quarantined
<1>1. request' = [request EXCEPT ![t] = [request[t] EXCEPT !.pc = p]]
  BY DEF Go
<1>2. [request[t] EXCEPT !.pc = p] \in RequestState
  BY Before, Changes
<1> QED BY <1>1, <1>2, Before, Changes

LEMMA RaiseSets ==
  ASSUME ScanInv, NEW t \in Thread, Raise(t)
  PROVE  \E r \in RequestState : /\ request' = [request EXCEPT ![t] = r]
                                 /\ r.pc = "finally" /\ r.scan = request[t].scan /\ r.raised = TRUE
<1>1. request' = [request EXCEPT ![t] = [request[t] EXCEPT !.pc = "finally", !.raised = TRUE]]
  BY Before DEF Raise
<1> QED BY <1>1, Before, Flagged

\* A step that raises in the try block keeps the invariant, wherever the file is.
LEMMA RaiseKeeps ==
  ASSUME ScanInv, NEW t \in Thread, Busy(t), Raise(t), Only(request[t].scan),
         uploads' \subseteq uploads, quarantine' \subseteq Begun, readOnly' \subseteq Begun,
         scans' = scans, answers' = answers, abandoned' = abandoned
  PROVE  ScanInv'
<1>1. PICK r \in RequestState : /\ request' = [request EXCEPT ![t] = r]
                                /\ r.pc = "finally" /\ r.scan = request[t].scan /\ r.raised = TRUE
  BY RaiseSets
<1>2. Placed(r)' /\ r.pc \in Trying
  BY <1>1 DEF Placed, Trying
<1> QED BY <1>1, <1>2, Moved

\* A request that goes on to a step inside the try block
LEMMA GoKeeps ==
  ASSUME ScanInv, NEW t \in Thread, Busy(t), NEW p \in Trying, Go(t, p), Only(request[t].scan),
         \A r \in RequestState :
           r.pc = p /\ r.scan = request[t].scan /\ r.raised = request[t].raised
             /\ r.quarantined = request[t].quarantined => Placed(r)',
         uploads' \subseteq uploads, quarantine' \subseteq Begun, readOnly' \subseteq Begun,
         scans' = scans, answers' = answers, abandoned' = abandoned
  PROVE  ScanInv'
<1>1. PICK r \in RequestState : /\ request' = [request EXCEPT ![t] = r]
                                /\ r.pc = p /\ r.scan = request[t].scan
                                /\ r.raised = request[t].raised
                                /\ r.quarantined = request[t].quarantined
  BY GoSets DEF Pc
<1>2. Placed(r)'
  BY <1>1
<1> QED BY <1>1, <1>2, Moved

\* Before it is moved, a file is in the quarantine not even in part.
LEMMA Early ==
  ASSUME ScanInv, NEW t \in Thread, request[t].pc \in {"analyze", "predict", "move"}
  PROVE  /\ request[t].scan \notin quarantine /\ request[t].scan \notin readOnly
         /\ request[t].quarantined = FALSE /\ request[t].raised = FALSE
BY Before DEF Placed, Says

LEMMA LoadModelKeeps == ASSUME ScanInv, NEW t \in Thread, LoadModel(t) PROVE ScanInv'
<1>1. Busy(t) /\ Only(request[t].scan) /\ "predict" \in Trying
  BY DEF LoadModel, At, Busy, Only, files, Trying
<1>2. /\ uploads' \subseteq uploads /\ quarantine' \subseteq Begun /\ readOnly' \subseteq Begun
      /\ scans' = scans /\ answers' = answers /\ abandoned' = abandoned
  BY Before DEF LoadModel, files, ghosts
<1>3. CASE Raise(t)
  BY <1>1, <1>2, <1>3, RaiseKeeps
<1>4. CASE Go(t, "predict")
  <2>1. ASSUME NEW r \in RequestState, r.pc = "predict", r.scan = request[t].scan,
               r.raised = request[t].raised, r.quarantined = request[t].quarantined
        PROVE  Placed(r)'
    <3>1. /\ r.scan \notin quarantine /\ r.scan \notin readOnly
          /\ r.quarantined = FALSE /\ r.raised = FALSE
      BY <2>1, Early DEF LoadModel, At
    <3>2. quarantine' = quarantine /\ readOnly' = readOnly
      BY DEF LoadModel, files
    <3> QED BY <2>1, <3>1, <3>2 DEF Placed, Says
  <2> QED BY <1>1, <1>2, <1>4, <2>1, GoKeeps
<1> QED BY <1>3, <1>4 DEF LoadModel

LEMMA PredictKeeps == ASSUME ScanInv, NEW t \in Thread, Predict(t) PROVE ScanInv'
<1>1. Busy(t) /\ Only(request[t].scan) /\ "move" \in Trying /\ "finally" \in Trying
  BY DEF Predict, At, Busy, Only, files, Trying
<1>2. /\ uploads' \subseteq uploads /\ quarantine' \subseteq Begun /\ readOnly' \subseteq Begun
      /\ scans' = scans /\ answers' = answers /\ abandoned' = abandoned
  BY Before DEF Predict, files, ghosts
<1>3. CASE Raise(t)
  BY <1>1, <1>2, <1>3, RaiseKeeps
<1>4. ASSUME NEW p \in {"move", "finally"}, Go(t, p) PROVE ScanInv'
  <2>1. ASSUME NEW r \in RequestState, r.pc = p, r.scan = request[t].scan,
               r.raised = request[t].raised, r.quarantined = request[t].quarantined
        PROVE  Placed(r)'
    <3>1. /\ r.scan \notin quarantine /\ r.scan \notin readOnly
          /\ r.quarantined = FALSE /\ r.raised = FALSE
      BY <2>1, Early DEF Predict, At
    <3>2. quarantine' = quarantine /\ readOnly' = readOnly
      BY DEF Predict, files
    <3> QED BY <2>1, <3>1, <3>2 DEF Placed, Says
  <2> QED BY <1>1, <1>2, <1>4, <2>1, GoKeeps
<1> QED BY <1>3, <1>4 DEF Predict, Leave

\* A file that is being quarantined is there, not read-only yet.
LEMMA Moving ==
  ASSUME ScanInv, NEW t \in Thread, request[t].pc \in {"unlink", "chmod"}
  PROVE  /\ request[t].scan \in quarantine /\ request[t].scan \notin readOnly
         /\ request[t].quarantined = FALSE /\ request[t].raised = FALSE
         /\ request[t].pc = "chmod" => request[t].scan \notin uploads
BY Before DEF Placed

LEMMA MoveKeeps == ASSUME ScanInv, NEW t \in Thread, Move(t) PROVE ScanInv'
<1>0. Busy(t) /\ "chmod" \in Trying /\ "unlink" \in Trying
  BY DEF Move, At, Busy, Trying
<1>1. /\ Only(request[t].scan) /\ uploads' \subseteq uploads
      /\ quarantine' \subseteq Begun /\ readOnly' \subseteq Begun
      /\ scans' = scans /\ answers' = answers /\ abandoned' = abandoned
  BY <1>0, Before DEF Move, Only, ghosts
<1>3. CASE Raise(t)
  BY <1>0, <1>1, <1>3, RaiseKeeps
<1>4. ASSUME NEW p \in {"chmod", "unlink"}, Go(t, p),
             quarantine' = quarantine \cup {request[t].scan},
             p = "chmod" => request[t].scan \notin uploads'
      PROVE  ScanInv'
  <2>1. ASSUME NEW r \in RequestState, r.pc = p, r.scan = request[t].scan,
               r.raised = request[t].raised, r.quarantined = request[t].quarantined
        PROVE  Placed(r)'
    <3>1. r.scan \in quarantine' /\ r.scan \notin readOnly' /\ r.quarantined = FALSE
          /\ r.raised = FALSE /\ (r.pc = "chmod" => r.scan \notin uploads')
      BY <1>4, <2>1, Early DEF Move, At
    <3> QED BY <2>1, <3>1 DEF Placed
  <2> QED BY <1>0, <1>1, <1>4, <2>1, GoKeeps
<1> QED BY <1>3, <1>4 DEF Move

LEMMA UnlinkKeeps == ASSUME ScanInv, NEW t \in Thread, Unlink(t) PROVE ScanInv'
<1>0. Busy(t) /\ "chmod" \in Trying
  BY DEF Unlink, At, Busy, Trying
<1>1. /\ Only(request[t].scan) /\ uploads' \subseteq uploads
      /\ quarantine' \subseteq Begun /\ readOnly' \subseteq Begun
      /\ scans' = scans /\ answers' = answers /\ abandoned' = abandoned
  BY <1>0, Before DEF Unlink, Only, ghosts
<1>3. CASE Raise(t)
  BY <1>0, <1>1, <1>3, RaiseKeeps
<1>4. CASE Go(t, "chmod") /\ uploads' = uploads \ {request[t].scan}
  <2>1. ASSUME NEW r \in RequestState, r.pc = "chmod", r.scan = request[t].scan,
               r.raised = request[t].raised, r.quarantined = request[t].quarantined
        PROVE  Placed(r)'
    <3>1. r.scan \in quarantine' /\ r.scan \notin readOnly' /\ r.quarantined = FALSE
          /\ r.raised = FALSE /\ r.scan \notin uploads'
      BY <1>4, <2>1, Moving DEF Unlink, At
    <3> QED BY <2>1, <3>1 DEF Placed
  <2> QED BY <1>0, <1>1, <1>4, <2>1, GoKeeps
<1> QED BY <1>3, <1>4 DEF Unlink

LEMMA ChmodKeeps == ASSUME ScanInv, NEW t \in Thread, Chmod(t) PROVE ScanInv'
<1>0. Busy(t) /\ "finally" \in Trying
  BY DEF Chmod, At, Busy, Trying
<1>1. /\ Only(request[t].scan) /\ uploads' \subseteq uploads
      /\ quarantine' \subseteq Begun /\ readOnly' \subseteq Begun
      /\ scans' = scans /\ answers' = answers /\ abandoned' = abandoned
  BY <1>0, Before DEF Chmod, Only, ghosts
<1>3. CASE Raise(t)
  BY <1>0, <1>1, <1>3, RaiseKeeps
<1>4. CASE /\ readOnly' = readOnly \cup {request[t].scan}
           /\ request' = [request EXCEPT ![t].pc = "finally", ![t].quarantined = TRUE]
  <2>1. request' = [request EXCEPT ![t] =
                      [request[t] EXCEPT !.pc = "finally", !.quarantined = TRUE]]
    BY <1>4, Before
  <2>2. PICK r \in RequestState : /\ request' = [request EXCEPT ![t] = r] /\ r.pc = "finally"
                                  /\ r.scan = request[t].scan /\ r.quarantined = TRUE
    BY <2>1, Before, Flagged
  <2>3. r.scan \in quarantine' /\ r.scan \in readOnly'
    BY <1>4, <2>2, Moving DEF Chmod, At
  <2>4. Placed(r)'
    BY <2>2, <2>3 DEF Placed, Says
  <2> QED BY <1>0, <1>1, <2>2, <2>4, Moved
<1> QED BY <1>3, <1>4 DEF Chmod

LEMMA EndSets ==
  ASSUME ScanInv, NEW t \in Thread, End(t)
  PROVE  \E r \in RequestState : request' = [request EXCEPT ![t] = r] /\ r.pc = "idle"
BY IdleFacts DEF End

LEMMA FinallyKeeps == ASSUME ScanInv, NEW t \in Thread, Finally(t) PROVE ScanInv'
<1>0. Busy(t) /\ request[t].scan \notin uploads'
  BY DEF Finally, At, Busy
<1>1. /\ Only(request[t].scan) /\ uploads' \subseteq uploads
      /\ quarantine' \subseteq Begun /\ readOnly' \subseteq Begun
      /\ scans' = scans /\ answers' = answers /\ abandoned' = abandoned
  BY <1>0, Before DEF Finally, Only, ghosts
<1>3. CASE End(t)
  <2>1. PICK r \in RequestState : request' = [request EXCEPT ![t] = r] /\ r.pc = "idle"
    BY <1>3, EndSets
  <2> QED BY <1>0, <1>1, <2>1, IdlePlaced, Moved
<1>4. CASE Go(t, "insert") /\ ~request[t].raised
  <2>1. PICK r \in RequestState : /\ request' = [request EXCEPT ![t] = r]
                                  /\ r.pc = "insert" /\ r.scan = request[t].scan
                                  /\ r.quarantined = request[t].quarantined
    BY <1>4, GoSets DEF Pc
  <2>2. Says(request[t].quarantined, request[t].scan)
    BY <1>4, Before DEF Finally, At, Placed
  <2>3. Placed(r)'
    <3>1. Says(r.quarantined, r.scan)
      BY <2>1, <2>2
    <3> QED BY <1>0, <2>1, <3>1 DEF Placed, Says, Finally
  <2> QED BY <1>0, <1>1, <2>1, <2>3, Moved
<1> QED BY <1>3, <1>4 DEF Finally

LEMMA InsertKeeps == ASSUME ScanInv, NEW t \in Thread, Insert(t) PROVE ScanInv'
<1>0. Busy(t) /\ request[t].scan \notin uploads /\ Says(request[t].quarantined, request[t].scan)
  BY Before DEF Insert, At, Busy, Placed
<1>1. /\ Only(request[t].scan) /\ uploads' = uploads
      /\ quarantine' = quarantine /\ readOnly' = readOnly
      /\ scans' = scans /\ answers' = answers /\ abandoned' = abandoned
  BY DEF Insert, Only, ghosts, files
<1>3. CASE End(t)
  <2>1. PICK r \in RequestState : request' = [request EXCEPT ![t] = r] /\ r.pc = "idle"
    BY <1>3, EndSets
  <2> QED BY <1>0, <1>1, <2>1, IdlePlaced, Moved, Before
<1>4. CASE Go(t, "audit") /\ predictions' = predictions \cup {request[t].scan}
  <2>1. PICK r \in RequestState : /\ request' = [request EXCEPT ![t] = r]
                                  /\ r.pc = "audit" /\ r.scan = request[t].scan
                                  /\ r.quarantined = request[t].quarantined
    BY <1>4, GoSets DEF Pc
  <2>2. Says(r.quarantined, r.scan) /\ r.scan \notin uploads /\ r.scan \in predictions'
    BY <1>0, <1>4, <2>1
  <2>3. Placed(r)'
    BY <1>1, <2>1, <2>2 DEF Placed, Says
  <2> QED BY <1>0, <1>1, <2>1, <2>3, Moved, Before
<1> QED BY <1>3, <1>4 DEF Insert

-----------------------------------------------------------------------------
(* The end and the beginning of a request                                    *)

LEMMA AuditKeeps == ASSUME ScanInv, NEW t \in Thread, Audit(t) PROVE ScanInv'
<1>b. Busy(t) /\ request[t].scan \in Begun
  BY Before DEF Audit, At, Busy
<1>p. /\ Says(request[t].quarantined, request[t].scan)
      /\ request[t].scan \notin uploads /\ request[t].scan \in predictions
  BY Before DEF Audit, At, Placed
<1>u. /\ uploads' = uploads /\ quarantine' = quarantine /\ readOnly' = readOnly
      /\ predictions' = predictions /\ scans' = scans /\ abandoned' = abandoned
  BY DEF Audit, files
<1>r. /\ request' \in [Thread -> RequestState]
      /\ request'[t].pc = "idle"
      /\ \A v \in Thread : v # t => request'[v] = request[v]
  BY Before, IdleFacts DEF Audit, End
<1>1. Typed'
  BY <1>u, <1>r DEF ScanInv, Typed, Begun
<1>a. \A a \in answers' : a \in answers \/ /\ a.scan = request[t].scan
                                           /\ a.quarantined = request[t].quarantined
  BY DEF Audit
<1>2. Owned'
  <2>1. \A v \in Thread : Busy(v)' => v # t /\ Busy(v) /\ request'[v] = request[v]
    BY <1>r DEF Busy
  <2>2. \A a \in answers', v \in Thread : Busy(v)' => a.scan # request[v].scan
    BY <1>a, <1>b, <2>1 DEF ScanInv, Owned
  <2>3. \A a \in answers' : a.scan \in Begun
    BY <1>a, <1>b DEF ScanInv, Owned
  <2>4. \A v, w \in Thread : Busy(v)' /\ Busy(w)' /\ v # w => request'[v].scan # request'[w].scan
    BY <2>1 DEF ScanInv, Owned
  <2>5. \A v \in Thread : Busy(v)' => request'[v].scan \in Begun
    BY <2>1 DEF ScanInv, Owned
  <2> QED BY <1>u, <2>1, <2>2, <2>3, <2>4, <2>5 DEF Owned, Begun
<1>3. \A v \in Thread : Placed(request[v])'
  <2> SUFFICES ASSUME NEW v \in Thread PROVE Placed(request[v])'
    OBVIOUS
  <2>1. CASE v = t
    BY <1>r, <2>1 DEF Placed
  <2>2. CASE v # t
    BY <1>r, <1>u, <2>2 DEF ScanInv, Placed, Says
  <2> QED BY <2>1, <2>2
<1>4. TempCleaned'
  <2>1. request[t].pc \notin Trying
    BY DEF Audit, At, Trying
  <2> QED BY <1>r, <1>u, <2>1 DEF ScanInv, TempCleaned
<1>5. AnswerIsTrue'
  <2> SUFFICES ASSUME NEW a \in answers'
               PROVE  /\ a.scan \in predictions /\ a.scan \notin uploads
                      /\ a.quarantined <=> a.scan \in quarantine
                      /\ a.quarantined <=> a.scan \in readOnly
    BY <1>u DEF AnswerIsTrue
  <2>1. CASE a \in answers
    BY <2>1 DEF ScanInv, AnswerIsTrue
  <2>2. CASE a.scan = request[t].scan /\ a.quarantined = request[t].quarantined
    <3>1. request[t].quarantined \in BOOLEAN
      BY Before, RequestFacts
    <3> QED BY <1>p, <2>2, <3>1 DEF Says
  <2> QED BY <1>a, <2>1, <2>2
<1> QED BY <1>1, <1>2, <1>3, <1>4, <1>5 DEF ScanInv

LEMMA Assigned ==
  ASSUME NEW r \in RequestState, NEW n \in Nat
  PROVE  LET a == [r EXCEPT !.pc = "analyze", !.scan = n]
             b == [r EXCEPT !.pc = "analyze", !.scan = n, !.model = "phishing"]
         IN  /\ a \in RequestState /\ a.pc = "analyze" /\ a.scan = n
             /\ a.raised = r.raised /\ a.quarantined = r.quarantined
             /\ b \in RequestState /\ b.pc = "analyze" /\ b.scan = n
             /\ b.raised = r.raised /\ b.quarantined = r.quarantined
BY DEF RequestState, Pc, Trying, Model

\* A request for scan r.scan begins; the scan is the latest.
LEMMA Begins ==
  ASSUME ScanInv, NEW t \in Thread, ~Busy(t), NEW r \in RequestState,
         request' = [request EXCEPT ![t] = r],
         r.pc = "idle" \/ /\ r.pc = "analyze" /\ r.scan = scans + 1
                          /\ r.raised = FALSE /\ r.quarantined = FALSE,
         scans' = scans + 1,
         uploads' \subseteq uploads \cup {scans + 1},
         scans + 1 \in uploads' => r.pc = "analyze" \/ scans + 1 \in abandoned',
         abandoned \subseteq abandoned',
         quarantine' = quarantine, readOnly' = readOnly,
         predictions' = predictions, answers' = answers
  PROVE  ScanInv'
<1>s. /\ scans \in Nat /\ scans + 1 \notin Begun /\ scans + 1 \in Begun'
      /\ Begun \subseteq Begun'
  BY DEF ScanInv, Typed, Begun
<1>r. /\ request' \in [Thread -> RequestState]
      /\ request'[t] = r
      /\ \A v \in Thread : v # t => request'[v] = request[v]
  BY Before
<1>f. /\ quarantine \subseteq Begun /\ readOnly \subseteq Begun /\ uploads \subseteq Begun
  BY DEF ScanInv, Typed
<1>1. Typed'
  <2>1. /\ uploads' \subseteq Begun' /\ quarantine' \subseteq Begun' /\ readOnly' \subseteq Begun'
    BY <1>s, <1>f
  <2>2. scans' \in Nat
    BY <1>s
  <2> QED BY <1>r, <2>1, <2>2 DEF Typed
<1>2. Owned'
  <2>1. \A v \in Thread : Busy(v)' => \/ v = t /\ request'[v].scan = scans + 1
                                      \/ v # t /\ Busy(v) /\ request'[v] = request[v]
    BY <1>r DEF Busy
  <2>2. \A v \in Thread : Busy(v) => request[v].scan \in Begun /\ request[v].scan # scans + 1
    BY <1>s DEF ScanInv, Owned
  <2>3. \A a \in answers' : a \in answers /\ a.scan \in Begun /\ a.scan # scans + 1
    BY <1>s DEF ScanInv, Owned
  <2>4. \A v \in Thread : Busy(v)' => request'[v].scan \in Begun'
    BY <1>s, <2>1, <2>2
  <2>5. \A v, w \in Thread : Busy(v)' /\ Busy(w)' /\ v # w => request'[v].scan # request'[w].scan
    BY <2>1, <2>2 DEF ScanInv, Owned
  <2>6. \A a \in answers', v \in Thread : Busy(v)' => a.scan # request'[v].scan
    BY <2>1, <2>3 DEF ScanInv, Owned
  <2>7. \A a \in answers' : a.scan \in Begun'
    BY <1>s, <2>3
  <2> QED BY <2>4, <2>5, <2>6, <2>7 DEF Owned
<1>3. \A v \in Thread : Placed(request[v])'
  <2> SUFFICES ASSUME NEW v \in Thread PROVE Placed(request[v])'
    OBVIOUS
  <2>1. CASE v = t
    <3>1. scans + 1 \notin quarantine' /\ scans + 1 \notin readOnly'
      BY <1>s, <1>f
    <3> QED BY <1>r, <2>1, <3>1 DEF Placed, Says
  <2>2. CASE v # t /\ Busy(v)
    <3>1. request[v].scan \in Begun /\ Placed(request[v]) /\ request'[v] = request[v]
      BY <1>r, <2>2, Before
    <3>2. request[v].scan \notin uploads => request[v].scan \notin uploads'
      BY <1>s, <3>1
    <3> QED BY <3>1, <3>2 DEF Placed, Says
  <2>3. CASE v # t /\ ~Busy(v)
    BY <1>r, <2>3 DEF Placed, Busy
  <2> QED BY <2>1, <2>2, <2>3
<1>4. TempCleaned'
  <2> SUFFICES ASSUME NEW u \in uploads', u \notin abandoned'
               PROVE  \E v \in Thread : request'[v].pc \in Trying /\ request'[v].scan = u
    BY DEF TempCleaned
  <2>1. CASE u = scans + 1
    BY <1>r, <2>1 DEF Trying
  <2>2. CASE u \in uploads
    <3>1. PICK v \in Thread : request[v].pc \in Trying /\ request[v].scan = u
      BY <2>2 DEF ScanInv, TempCleaned
    <3>2. v # t
      BY <3>1 DEF Busy, Trying
    <3> QED BY <1>r, <3>1, <3>2
  <2> QED BY <2>1, <2>2
<1>5. AnswerIsTrue'
  <2>1. \A a \in answers : a.scan # scans + 1
    BY <1>s DEF ScanInv, Owned
  <2>2. \A a \in answers : a.scan \notin uploads'
    BY <2>1 DEF ScanInv, AnswerIsTrue
  <2> QED BY <2>2 DEF ScanInv, AnswerIsTrue
<1> QED BY <1>1, <1>2, <1>3, <1>4, <1>5 DEF ScanInv

LEMMA UploadKeeps == ASSUME ScanInv, NEW t \in Thread, Upload(t) PROVE ScanInv'
<1>0. /\ ~Busy(t) /\ scans + 1 \in Nat /\ scans' = scans + 1
      /\ uploads' = uploads \cup {scans + 1} /\ quarantine' = quarantine
      /\ readOnly' = readOnly /\ predictions' = predictions /\ answers' = answers
  BY DEF Upload, At, Busy, ScanInv, Typed
<1>1. CASE /\ request' = [request EXCEPT ![t] =
                            [Idle EXCEPT !.pc = "analyze", !.scan = scans + 1]]
           /\ abandoned' = abandoned
  <2>1. PICK r \in RequestState :
          /\ request' = [request EXCEPT ![t] = r] /\ r.pc = "analyze" /\ r.scan = scans + 1
          /\ r.raised = FALSE /\ r.quarantined = FALSE
    <3> DEFINE x == [Idle EXCEPT !.pc = "analyze", !.scan = scans + 1]
    <3>1. /\ x \in RequestState /\ x.pc = "analyze" /\ x.scan = scans + 1
          /\ x.raised = FALSE /\ x.quarantined = FALSE
      BY <1>0, IdleFacts, Assigned
    <3>2. request' = [request EXCEPT ![t] = x]
      BY <1>1
    <3> HIDE DEF x
    <3> QED BY <3>1, <3>2
  <2> QED BY <1>0, <1>1, <2>1, Begins
<1>2. CASE End(t) /\ abandoned' = abandoned \cup {scans + 1}
  <2>1. PICK r \in RequestState : request' = [request EXCEPT ![t] = r] /\ r.pc = "idle"
    BY <1>2, EndSets
  <2> QED BY <1>0, <1>2, <2>1, Begins
<1> QED BY <1>1, <1>2 DEF Upload

LEMMA CheckKeeps == ASSUME ScanInv, NEW t \in Thread, Check(t) PROVE ScanInv'
<1>0. /\ ~Busy(t) /\ scans + 1 \in Nat /\ scans + 1 \notin uploads /\ scans' = scans + 1
      /\ uploads' = uploads /\ quarantine' = quarantine /\ abandoned' = abandoned
      /\ readOnly' = readOnly /\ predictions' = predictions /\ answers' = answers
  BY DEF Check, At, Busy, files, ScanInv, Typed, Begun
<1>1. PICK r \in RequestState :
        /\ request' = [request EXCEPT ![t] = r] /\ r.pc = "analyze" /\ r.scan = scans + 1
        /\ r.raised = FALSE /\ r.quarantined = FALSE
  <2> DEFINE x == [Idle EXCEPT !.pc = "analyze", !.scan = scans + 1, !.model = "phishing"]
  <2>1. /\ x \in RequestState /\ x.pc = "analyze" /\ x.scan = scans + 1
        /\ x.raised = FALSE /\ x.quarantined = FALSE
    BY <1>0, IdleFacts, Assigned
  <2>2. request' = [request EXCEPT ![t] = x]
    BY DEF Check
  <2> HIDE DEF x
  <2> QED BY <2>1, <2>2
<1> QED BY <1>0, <1>1, Begins

LEMMA CrashKeeps == ASSUME ScanInv, Crash PROVE ScanInv'
<1>u. /\ uploads' = uploads /\ quarantine' = quarantine /\ readOnly' = readOnly
      /\ predictions' = predictions /\ scans' = scans /\ answers' = answers
  BY DEF Crash, files
<1>r. request' \in [Thread -> RequestState] /\ \A v \in Thread : request'[v].pc = "idle"
  BY IdleFacts DEF Crash
<1>1. Typed'
  BY <1>u, <1>r DEF ScanInv, Typed, Begun
<1>2. Owned'
  BY <1>u, <1>r DEF ScanInv, Owned, Busy, Begun
<1>3. \A v \in Thread : Placed(request[v])'
  BY <1>r DEF Placed
<1>4. TempCleaned'
  <2> SUFFICES ASSUME NEW u \in uploads' PROVE u \in abandoned'
    BY DEF TempCleaned
  <2>1. CASE u \in abandoned
    BY <2>1 DEF Crash
  <2>2. CASE u \notin abandoned
    <3>1. PICK v \in Thread : request[v].pc \in Trying /\ request[v].scan = u
      BY <1>u, <2>2 DEF ScanInv, TempCleaned
    <3> QED BY <3>1 DEF Crash
  <2> QED BY <2>1, <2>2
<1>5. AnswerIsTrue'
  BY <1>u DEF ScanInv, AnswerIsTrue
<1> QED BY <1>1, <1>2, <1>3, <1>4, <1>5 DEF ScanInv

LEMMA Unmoved ==
  ASSUME ScanInv, UNCHANGED <<files, predictions, request, scans, answers, abandoned>>
  PROVE  ScanInv'
BY DEF files, ScanInv, Typed, Owned, Begun, Busy, Placed, Says, TempCleaned, AnswerIsTrue

LEMMA InitScan == Init => ScanInv
<1> SUFFICES ASSUME Init PROVE ScanInv
  OBVIOUS
<1>1. request \in [Thread -> RequestState] /\ \A t \in Thread : request[t].pc = "idle"
  BY IdleFacts DEF Init
<1> QED BY <1>1 DEF Init, ScanInv, Typed, Owned, Begun, Busy, Placed, TempCleaned, AnswerIsTrue

LEMMA NextScan == ScanInv /\ [Next]_vars => ScanInv'
<1> SUFFICES ASSUME ScanInv, [Next]_vars PROVE ScanInv'
  OBVIOUS
<1>1. CASE UNCHANGED vars
  BY <1>1, Unmoved DEF vars, files, ghosts
<1>2. ASSUME NEW m \in Model, Train(m) PROVE ScanInv'
  BY <1>2, Unmoved DEF Train, ghosts
<1>3. ASSUME NEW t \in Thread, Step(t) PROVE ScanInv'
  BY <1>3, UploadKeeps, CheckKeeps, LoadModelKeeps, PredictKeeps, MoveKeeps, UnlinkKeeps,
     ChmodKeeps, FinallyKeeps, InsertKeeps, AuditKeeps DEF Step
<1> QED BY <1>1, <1>2, <1>3, CrashKeeps DEF Next

-----------------------------------------------------------------------------
(* Theorems                                                                  *)

\* No temporary file outlives its scan, wherever in the scan something raises, except those
\* that could not be written or whose process died.
THEOREM TempCleanedCorrect == Spec => []TempCleaned
<1>1. ScanInv => TempCleaned
  BY DEF ScanInv
<1> QED BY <1>1, InitScan, NextScan, PTL DEF Spec

\* An answer with 200 is true about the quarantine and its prediction is stored, whatever
\* other scans do and wherever files are moved in part.
THEOREM AnswerIsTrueCorrect == Spec => []AnswerIsTrue
<1>1. ScanInv => AnswerIsTrue
  BY DEF ScanInv
<1> QED BY <1>1, InitScan, NextScan, PTL DEF Spec
=============================================================================
