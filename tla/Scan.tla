-------------------------------- MODULE Scan --------------------------------
(***************************************************************************)
(* The AI scans: scan_file_for_malware of app/routers/ai_security.py with   *)
(* analyze_file and quarantine_file of app/ml/malware_predictor.py, and     *)
(* check_phishing_url.  Threads of the request pool serve them; each step   *)
(* is a file operation, a commit, or a use of a model, and each can raise.  *)
(* A scan that raises leaves through the finally clause.                    *)
(***************************************************************************)
EXTENDS Integers

CONSTANTS Thread,
          MaxScans,   \* bound: scans ever
          MaxCrashes  \* bound: crashes

ASSUME ScanAssumption == MaxScans \in Nat /\ MaxCrashes \in Nat

VARIABLES uploads,      \* temporary files, by the number of their scan
          quarantine,   \* files in the quarantine directory
          readOnly,     \* those of them that are read-only
          predictions,  \* rows of MLPrediction, by scan
          installed,    \* models whose file the training script has written
          cached,       \* models the process has loaded
          request,      \* per thread, where it is in its request
          scans,        \* scans so far (ghost)
          answers,      \* answers with 200, and the flag quarantined in them (ghost)
          abandoned,    \* scans whose upload could not be written, or whose process died (ghost)
          crashes

files == <<uploads, quarantine, readOnly>>
models == <<installed, cached>>
ghosts == <<scans, answers, abandoned, crashes>>
vars == <<files, predictions, models, request, ghosts>>

Model == {"malware", "phishing"}

Idle == [pc |-> "idle", scan |-> 0, model |-> "malware", raised |-> FALSE, quarantined |-> FALSE]

At(t, pc) == request[t].pc = pc
Go(t, pc) == request' = [request EXCEPT ![t].pc = pc]
End(t) == request' = [request EXCEPT ![t] = Idle]
\* t leaves the try block, by an exception or at its end.
Raise(t) == request' = [request EXCEPT ![t].pc = "finally", ![t].raised = TRUE]
Leave(t) == Go(t, "finally")

Trying == {"analyze", "predict", "move", "unlink", "chmod", "finally"}

-----------------------------------------------------------------------------
\* A request is for a scan of a file, or for a check of a URL, which has no file.
\* NamedTemporaryFile makes a fresh name; an upload that cannot be written out stays.
Upload(t) ==
  /\ At(t, "idle") /\ scans < MaxScans
  /\ scans' = scans + 1 /\ uploads' = uploads \cup {scans + 1}
  /\ \/ /\ request' = [request EXCEPT ![t] = [Idle EXCEPT !.pc = "analyze", !.scan = scans + 1]]
        /\ UNCHANGED abandoned
     \/ End(t) /\ abandoned' = abandoned \cup {scans + 1}
  /\ UNCHANGED <<quarantine, readOnly, predictions, models, answers, crashes>>

Check(t) ==
  /\ At(t, "idle") /\ scans < MaxScans
  /\ scans' = scans + 1
  /\ request' = [request EXCEPT ![t] = [Idle EXCEPT !.pc = "analyze", !.scan = scans + 1,
                                                   !.model = "phishing"]]
  /\ UNCHANGED <<files, predictions, models, answers, abandoned, crashes>>

\* _load_model: the cached model, or the file's; without a file RuntimeError, 503.
LoadModel(t) ==
  /\ At(t, "analyze")
  /\ IF request[t].model \in cached \cup installed
     THEN cached' = cached \cup {request[t].model} /\ Go(t, "predict")
     ELSE cached' = cached /\ Raise(t)
  /\ UNCHANGED <<files, predictions, installed, ghosts>>

\* The file is clean, or no quarantine is asked for; or there is one to move; or something
\* raises.
Predict(t) ==
  /\ At(t, "predict")
  /\ \/ Leave(t) \/ Raise(t)
     \/ request[t].model = "malware" /\ Go(t, "move")
  /\ UNCHANGED <<files, predictions, models, ghosts>>

\* shutil.move renames; on another file system it copies, perhaps in part, and unlinks.
Move(t) ==
  /\ At(t, "move")
  /\ LET u == request[t].scan IN
     \/ Go(t, "chmod") /\ uploads' = uploads \ {u} /\ quarantine' = quarantine \cup {u}
     \/ /\ Go(t, "unlink") \/ Raise(t)
        /\ uploads' = uploads /\ quarantine' = quarantine \cup {u}
     \/ Raise(t) /\ UNCHANGED <<uploads, quarantine>>
  /\ UNCHANGED <<readOnly, predictions, models, ghosts>>

Unlink(t) ==
  /\ At(t, "unlink")
  /\ \/ Go(t, "chmod") /\ uploads' = uploads \ {request[t].scan}
     \/ Raise(t) /\ uploads' = uploads
  /\ UNCHANGED <<quarantine, readOnly, predictions, models, ghosts>>

\* The file is made read-only, and the scan has quarantined it.
Chmod(t) ==
  /\ At(t, "chmod")
  /\ \/ /\ readOnly' = readOnly \cup {request[t].scan}
        /\ request' = [request EXCEPT ![t].pc = "finally", ![t].quarantined = TRUE]
     \/ Raise(t) /\ readOnly' = readOnly
  /\ UNCHANGED <<uploads, quarantine, predictions, models, ghosts>>

\* Mutant: the file is removed on the way out of a scan that went well only
FinallyElse(t) ==
  /\ At(t, "finally")
  /\ IF request[t].raised THEN End(t) /\ uploads' = uploads
     ELSE Go(t, "insert") /\ uploads' = uploads \ {request[t].scan}
  /\ UNCHANGED <<quarantine, readOnly, predictions, models, ghosts>>

\* Mutant: a failure to quarantine is not told from a file that needs none
FinallyQuiet(t) ==
  /\ At(t, "finally")
  /\ Go(t, "insert")
  /\ uploads' = uploads \ {request[t].scan}
  /\ UNCHANGED <<quarantine, readOnly, predictions, models, ghosts>>

\* The removal of a file of one's own is taken to succeed.
Finally(t) ==
  /\ At(t, "finally")
  /\ IF request[t].raised THEN End(t) ELSE Go(t, "insert")
  /\ uploads' = uploads \ {request[t].scan}
  /\ UNCHANGED <<quarantine, readOnly, predictions, models, ghosts>>

\* The prediction is stored, or the commit raises.
Insert(t) ==
  /\ At(t, "insert")
  /\ \/ Go(t, "audit") /\ predictions' = predictions \cup {request[t].scan}
     \/ End(t) /\ predictions' = predictions
  /\ UNCHANGED <<files, models, ghosts>>

\* log_action, and the answer
Audit(t) ==
  /\ At(t, "audit") /\ End(t)
  /\ \/ answers' = answers \cup {[scan |-> request[t].scan, model |-> request[t].model,
                                  quarantined |-> request[t].quarantined]}
     \/ answers' = answers
  /\ UNCHANGED <<files, predictions, models, scans, abandoned, crashes>>

\* The training scripts write the files of the models.
Train(m) ==
  /\ installed' = installed \cup {m}
  /\ m \notin installed
  /\ UNCHANGED <<files, predictions, cached, request, ghosts>>

\* The process dies and is started again.
Crash ==
  /\ crashes < MaxCrashes /\ crashes' = crashes + 1
  /\ abandoned' = abandoned \cup {request[t].scan : t \in {x \in Thread : request[x].pc \in Trying}}
  /\ request' = [t \in Thread |-> Idle]
  /\ cached' = {}
  /\ UNCHANGED <<files, predictions, installed, scans, answers>>

Init ==
  /\ uploads = {} /\ quarantine = {} /\ readOnly = {} /\ predictions = {}
  /\ installed \in SUBSET Model /\ cached = {}
  /\ request = [t \in Thread |-> Idle]
  /\ scans = 0 /\ answers = {} /\ abandoned = {} /\ crashes = 0

Step(t) ==
  \/ Upload(t) \/ Check(t) \/ LoadModel(t) \/ Predict(t)
  \/ Move(t) \/ Unlink(t) \/ Chmod(t) \/ Finally(t) \/ Insert(t) \/ Audit(t)

Next == Crash \/ (\E m \in Model : Train(m)) \/ \E t \in Thread : Step(t)

Spec == Init /\ [][Next]_vars

-----------------------------------------------------------------------------
(* Properties                                                               *)

\* A temporary file of an upload is there only while its scan goes on, whatever raises in
\* between, unless it could not be written or the process died (ai_security.py:76-93).
TempCleaned ==
  \A u \in uploads :
    u \in abandoned \/ \E t \in Thread : request[t].pc \in Trying /\ request[t].scan = u

\* What the answer says of the quarantine is true: the file is there, read-only and nowhere
\* else, or it is not there, not even in part; and the prediction is stored
\* (ai_security.py:81-108, malware_predictor.py:76-83).
AnswerIsTrue ==
  \A a \in answers :
    /\ a.scan \in predictions /\ a.scan \notin uploads
    /\ a.quarantined <=> a.scan \in quarantine
    /\ a.quarantined <=> a.scan \in readOnly
=============================================================================
