------------------------------- MODULE Dropzone -------------------------------
(***************************************************************************)
(* The upload zones of res/js/dropzone.js: files are added, accepted at    *)
(* once or by a later call of done, queued, sent by requests that carry    *)
(* one file or a group, and removed or canceled at any time.  Handlers     *)
(* that loop over files are functions from a State to a State.             *)
(* All zones share one queue of thumbnails, the array in the prototype.    *)
(*                                                                         *)
(* Files are numbered as they come, and no list is ever sorted: the list   *)
(* of a zone and the files of a request are sets, in order of the numbers. *)
(***************************************************************************)
EXTENDS Naturals, Sequences, FiniteSets

CONSTANTS
  MaxPicked, \* the files a user picks, numbered as they come
  Images,    \* those that get a thumbnail
  Zones,     \* the instances of Dropzone
  Layouts    \* zone -> its options; maxFiles = 0 is null; acceptedFiles: what
             \* isValidFile may say of them; picks: how many the user picks

Files == 1..MaxPicked

ASSUME DropzoneAssumption ==
  /\ MaxPicked \in Nat \ {0}
  /\ Images \subseteq Files /\ "none" \notin Zones
  /\ Layouts \subseteq
       [Zones -> [parallelUploads : Nat \ {0}, uploadMultiple : BOOLEAN,
                  autoQueue : BOOLEAN, autoProcessQueue : BOOLEAN,
                  createImageThumbnails : BOOLEAN, forceFallback : BOOLEAN,
                  acceptedFiles : SUBSET BOOLEAN, picks : Files,
                  maxFiles : Nat, asynchronous : BOOLEAN]]

VARIABLES
  options,    \* zone -> its options
  mode,       \* zone -> "enabled", "disabled", "destroyed" or "fallback"
  files,      \* zone -> this.files
  home,       \* file -> the zone it was added to, or "none"
  status,     \* file -> file.status
  accepted,   \* file -> file.accepted, "unset" at first
  pending,    \* files whose done was not called yet
  xhr,        \* file -> the request that carries it: its files, or {}
  sent,       \* requests that did not report yet
  timers,     \* zone -> timeouts that will call processQueue
  due,        \* zone -> a timeout that will emit queuecomplete is set
  full,       \* zone -> the class dz-max-files-reached is set
  completes,  \* history: file -> the number of its complete events
  told,       \* history: zone -> queuecomplete came since the last complete
  stopped,    \* history: files that were in the list of a zone when it was
              \* disabled or destroyed
  thumbQueue, \* _thumbnailQueue, one for all zones
  thumbTimers,\* zone -> timeouts that will call _processThumbnailQueue
  reading,    \* zone -> the file whose thumbnail it makes: <<>> or <<file>>
  failed      \* the zones whose file could not be read

lists  == <<files, status, xhr, sent, completes, due, told>>
thumbs == <<thumbQueue, thumbTimers, reading, failed>>
vars == <<lists, options, mode, home, accepted, pending, timers, full, thumbs,
          stopped>>

Waiting == {"added", "queued", "uploading"}
Final   == {"success", "error", "canceled"}

TypeOK ==
  /\ options \in Layouts
  /\ mode \in [Zones -> {"enabled", "disabled", "destroyed", "fallback"}]
  /\ files \in [Zones -> SUBSET Files]
  /\ home \in [Files -> Zones \cup {"none"}]
  /\ status \in [Files -> {"none"} \cup Waiting \cup Final]
  /\ accepted \in [Files -> {"unset", "yes", "no"}]
  /\ pending \subseteq Files /\ stopped \subseteq Files
  /\ xhr \in [Files -> SUBSET Files] /\ sent \subseteq SUBSET Files
  /\ timers \in [Zones -> Nat]
  /\ due \in [Zones -> BOOLEAN] /\ full \in [Zones -> BOOLEAN]
  /\ completes \in [Files -> Nat] /\ told \in [Zones -> BOOLEAN]
  /\ thumbQueue \in Seq(Images) /\ thumbTimers \in [Zones -> Nat]
  /\ reading \in [Zones -> {<<>>} \cup {<<f>> : f \in Images}]
  /\ failed \subseteq Zones

Init ==
  /\ options \in Layouts
  /\ mode = [z \in Zones |->
               IF options[z].forceFallback THEN "fallback" ELSE "enabled"]
  /\ files = [z \in Zones |-> {}] /\ home = [f \in Files |-> "none"]
  /\ status = [f \in Files |-> "none"] /\ accepted = [f \in Files |-> "unset"]
  /\ pending = {} /\ stopped = {} /\ xhr = [f \in Files |-> {}] /\ sent = {}
  /\ timers = [z \in Zones |-> 0] /\ due = [z \in Zones |-> FALSE]
  /\ full = [z \in Zones |-> FALSE] /\ completes = [f \in Files |-> 0]
  /\ told = [z \in Zones |-> TRUE]
  /\ thumbQueue = <<>> /\ thumbTimers = [z \in Zones |-> 0]
  /\ reading = [z \in Zones |-> <<>>] /\ failed = {}

-----------------------------------------------------------------------------
(* What the handlers do to the files, as functions on the state            *)

State == [files |-> files, status |-> status, xhr |-> xhr, sent |-> sent,
          completes |-> completes, due |-> due, told |-> told]

Become(s) ==
  /\ files' = s.files /\ status' = s.status /\ xhr' = s.xhr /\ sent' = s.sent
  /\ completes' = s.completes /\ due' = s.due /\ told' = s.told

\* getFilesWithStatus, getActiveFiles
FilesWithStatus(s, z, statuses) ==
  {f \in s.files[z] : s.status[f] \in statuses}

SetStatus(s, fs, st) ==
  [s EXCEPT !.status = [f \in Files |-> IF f \in fs THEN st ELSE @[f]]]

\* Mutant: the listener of init is missing.
CompleteUnheard(s, z, fs, n) ==
  [s EXCEPT
     !.completes = [f \in Files |-> @[f] + IF f \in fs THEN n ELSE 0],
     !.told[z] = FALSE]

\* emit("complete") for each of fs, n times: the listener of init sets the
\* timeout of queuecomplete when nothing is left to do.
Complete(s, z, fs, n) ==
  [s EXCEPT
     !.completes = [f \in Files |-> @[f] + IF f \in fs THEN n ELSE 0],
     !.due[z] = @ \/ FilesWithStatus(s, z, Waiting) = {},
     !.told[z] = FALSE]

\* uploadFiles, for each of requests
UploadFiles(s, requests) ==
  [s EXCEPT
     !.xhr = [f \in Files |-> IF f \in UNION requests
                              THEN CHOOSE r \in requests : f \in r ELSE @[f]],
     !.sent = @ \cup requests]

ProcessFiles(s, requests) ==
  UploadFiles(SetStatus(s, UNION requests, "uploading"), requests)

\* The first n of fs.
First(fs, n) == {f \in fs : Cardinality({g \in fs : g < f}) < n}

\* Those files of a zone go, together or each alone.
Requests(z, fs) ==
  IF fs = {} THEN {}
  ELSE IF options[z].uploadMultiple THEN {fs} ELSE {{f} : f \in fs}

\* Mutant: the files that are uploading are not counted.
ProcessQueueFresh(s, z) ==
  LET queued == FilesWithStatus(s, z, {"queued"})
  IN  ProcessFiles(s, Requests(z, First(queued, options[z].parallelUploads)))

\* processQueue: the first queued files, as many as there is room for.
ProcessQueue(s, z) ==
  LET queued == FilesWithStatus(s, z, {"queued"})
      busy == Cardinality(FilesWithStatus(s, z, {"uploading"}))
      room == IF busy < options[z].parallelUploads
              THEN options[z].parallelUploads - busy ELSE 0
  IN  ProcessFiles(s, Requests(z, First(queued, room)))

ThenProcessQueue(s, z) ==
  IF options[z].autoProcessQueue THEN ProcessQueue(s, z) ELSE s

\* _finished
Finished(s, z, fs) ==
  ThenProcessQueue(Complete(SetStatus(s, fs, "success"), z, fs, 1), z)

\* _errorProcessing, n times (handleError calls it once for each file of a
\* group, each time for the whole group).
ErrorProcessing(s, z, fs, n) ==
  ThenProcessQueue(Complete(SetStatus(s, fs, "error"), z, fs, n), z)

\* Mutant: the other files of the group stay.
CancelUploadAlone(s, z, f) ==
  IF s.status[f] \in Waiting
  THEN ThenProcessQueue(Complete(SetStatus(s, {f}, "canceled"), z, {f}, 1), z)
  ELSE s

\* cancelUpload: with a file that is uploading go all files of its request.
CancelUpload(s, z, f) ==
  LET fs == CASE s.status[f] = "uploading" ->
                   {g \in s.files[z] : s.xhr[g] = s.xhr[f]}
              [] s.status[f] \in {"added", "queued"} -> {f}
              [] OTHER -> {}
  IN  ThenProcessQueue(
        IF fs = {} THEN s
        ELSE Complete(SetStatus(s, fs, "canceled"), z, fs, 1), z)

\* removeFile: only an upload is canceled.
RemoveFile(s, z, f) ==
  LET t == IF s.status[f] = "uploading" THEN CancelUpload(s, z, f) ELSE s
  IN  [t EXCEPT !.files[z] = @ \ {f}]

\* A loop over files, in their order.
ForEach(Body(_, _), s, fs) ==
  LET after[n \in 0..MaxPicked] ==
        IF n = 0 THEN s
        ELSE LET t == after[n - 1] IN IF n \in fs THEN Body(t, n) ELSE t
  IN  after[MaxPicked]

RemoveAllFiles(s, z, cancelIfNecessary) ==
  ForEach(LAMBDA t, f : IF t.status[f] # "uploading" \/ cancelIfNecessary
                        THEN RemoveFile(t, z, f) ELSE t,
          s, s.files[z])

\* Mutant: as removeFile, only an upload is canceled.
CancelAllUploads(s, z) ==
  ForEach(LAMBDA t, f : IF t.status[f] = "uploading" THEN CancelUpload(t, z, f)
                                                     ELSE t,
          s, s.files[z])

\* The loop of disable.
CancelAll(s, z) == ForEach(LAMBDA t, f : CancelUpload(t, z, f), s, s.files[z])

\* getAcceptedFiles
AcceptedIn(fs, acc) == {f \in fs : acc[f] = "yes"}

\* accept, _updateMaxFilesReachedClass
MaxReached(z, fs, acc) ==
  /\ options[z].maxFiles # 0
  /\ Cardinality(AcceptedIn(fs, acc)) >= options[z].maxFiles

-----------------------------------------------------------------------------
(* Files come and are accepted                                             *)

\* accept: maxFiles is compared with the files accepted so far.
Accepts(z, fs) ==
  \/ options[z].maxFiles = 0
  \/ Cardinality(AcceptedIn(fs, accepted)) < options[z].maxFiles

\* The done of addFile and enqueueFile, which throws when the file was canceled
\* in the meantime: then the class of maxFiles is not looked at.
Done(s, z, f, error) ==
  LET queues == options[z].autoQueue /\ ~error /\ s.status[f] = "added"
      throws == options[z].autoQueue /\ ~error /\ s.status[f] # "added"
  IN
  /\ accepted' = [accepted EXCEPT ![f] = IF error THEN "no" ELSE "yes"]
  /\ Become(IF error THEN ErrorProcessing(s, z, {f}, 1)
            ELSE IF queues THEN SetStatus(s, {f}, "queued") ELSE s)
  /\ timers' = [timers EXCEPT ![z] =
                  @ + IF queues /\ options[z].autoProcessQueue THEN 1 ELSE 0]
  /\ full' = IF throws THEN full
             ELSE [full EXCEPT ![z] = MaxReached(z, files'[z], accepted')]

\* _enqueueThumbnail
EnqueueThumbnail(z, f) ==
  /\ IF f \in Images /\ options[z].createImageThumbnails
     THEN /\ thumbQueue' = Append(thumbQueue, f)
          /\ thumbTimers' = [thumbTimers EXCEPT ![z] = @ + 1]
     ELSE UNCHANGED <<thumbQueue, thumbTimers>>
  /\ UNCHANGED <<reading, failed>>

\* disable removes the listeners of init, for a drop and for the click that
\* opens the dialog.  What was begun before goes on: the files of a dialog that
\* is open come to a disabled zone, those of a directory that is being read to
\* a destroyed one as well.
Hears(z) == mode[z] # "fallback"

\* addFile, from drop, paste, the file input or the callback of a directory's
\* read; valid: its size and its type.
AddFile(z, f, valid) ==
  LET fs == files[z] \cup {f}
      s  == [SetStatus(State, {f}, "added") EXCEPT !.files[z] = fs]
      ok == valid /\ Accepts(z, fs)
  IN
  /\ Hears(z) /\ valid \in options[z].acceptedFiles
  /\ f <= options[z].picks
  /\ home[f] = "none" /\ \A g \in 1..f - 1 : home[g] # "none"
  /\ home' = [home EXCEPT ![f] = z]
  /\ EnqueueThumbnail(z, f)
  /\ IF ok /\ options[z].asynchronous
     THEN /\ pending' = pending \cup {f}
          /\ Become(s) /\ UNCHANGED <<accepted, timers, full>>
     ELSE /\ Done(s, z, f, ~ok) /\ UNCHANGED pending
  /\ UNCHANGED <<options, mode, stopped>>

\* options.accept calls done.
CallDone(f, error) ==
  /\ f \in pending
  /\ pending' = pending \ {f}
  /\ Done(State, home[f], f, error)
  /\ UNCHANGED <<options, mode, home, thumbs, stopped>>

\* enqueueFile, called by the page's own code if autoQueue is off.
EnqueueFile(f) ==
  /\ status[f] = "added" /\ accepted[f] = "yes"
  /\ ~options[home[f]].autoQueue /\ f \in files[home[f]]
  /\ Become(SetStatus(State, {f}, "queued"))
  /\ timers' = [timers EXCEPT ![home[f]] =
                  @ + IF options[home[f]].autoProcessQueue THEN 1 ELSE 0]
  /\ UNCHANGED <<options, mode, home, accepted, pending, full, thumbs, stopped>>

-----------------------------------------------------------------------------
(* Timeouts and requests                                                   *)

rest == <<options, mode, home, accepted, pending, stopped>>

ProcessTimer(z) ==
  /\ timers[z] > 0 /\ timers' = [timers EXCEPT ![z] = @ - 1]
  /\ Become(ProcessQueue(State, z))
  /\ UNCHANGED <<rest, full, thumbs>>

\* processQueue, called by the page's own code if autoProcessQueue is off.
CallProcessQueue(z) ==
  /\ ~options[z].autoProcessQueue
  /\ Become(ProcessQueue(State, z))
  /\ UNCHANGED <<rest, timers, full, thumbs>>

\* queuecomplete, whatever was added since its timeout was set.
QueueComplete(z) ==
  /\ due[z]
  /\ due' = [due EXCEPT ![z] = FALSE] /\ told' = [told EXCEPT ![z] = TRUE]
  /\ UNCHANGED <<files, status, xhr, sent, completes>>
  /\ UNCHANGED <<rest, timers, full, thumbs>>

\* files[0] of a request
Leader(r) == CHOOSE f \in r : \A g \in r : f <= g

\* Mutant: a canceled request reports as any other.
ReportAnyway(r, ok) ==
  LET z == home[Leader(r)]
      s == [State EXCEPT !.sent = @ \ {r}]
  IN
  /\ r \in sent
  /\ Become(IF ok THEN Finished(s, z, r)
                  ELSE ErrorProcessing(s, z, r, Cardinality(r)))
  /\ UNCHANGED <<rest, timers, full, thumbs>>

\* onload, onerror: what an aborted request reports, if it does, is ignored.
Report(r, ok) ==
  LET z == home[Leader(r)]
      s == [State EXCEPT !.sent = @ \ {r}]
      canceled == status[Leader(r)] = "canceled"
  IN
  /\ r \in sent
  /\ \/ canceled /\ Become(s)
     \/ ~canceled /\ ok /\ Become(Finished(s, z, r))
     \/ ~canceled /\ ~ok /\ Become(ErrorProcessing(s, z, r, Cardinality(r)))
  /\ UNCHANGED <<rest, timers, full, thumbs>>

-----------------------------------------------------------------------------
(* The user removes, the page cancels                                      *)

\* The listener of removedfile looks at maxFiles again.
Removed(z, s) ==
  /\ Become(s)
  /\ full' = IF s.files = files THEN full
             ELSE [full EXCEPT ![z] = MaxReached(z, s.files[z], accepted)]

\* removeFileEvent
RemoveLink(f) ==
  /\ home[f] # "none" /\ f \in files[home[f]]
  /\ Removed(home[f], RemoveFile(State, home[f], f))
  /\ UNCHANGED <<rest, timers, thumbs>>

RemoveAll(z, cancelIfNecessary) ==
  /\ files[z] # {}
  /\ Removed(z, RemoveAllFiles(State, z, cancelIfNecessary))
  /\ UNCHANGED <<rest, timers, thumbs>>

Cancel(f) ==
  /\ home[f] # "none" /\ f \in files[home[f]]
  /\ Become(CancelUpload(State, home[f], f))
  /\ UNCHANGED <<rest, timers, full, thumbs>>

Disable(z) ==
  /\ mode[z] \in {"enabled", "disabled"}
  /\ mode' = [mode EXCEPT ![z] = "disabled"]
  /\ stopped' = stopped \cup files[z]
  /\ Become(CancelAll(State, z))
  /\ UNCHANGED <<options, home, accepted, pending, timers, full, thumbs>>

Enable(z) ==
  /\ mode[z] = "disabled" /\ mode' = [mode EXCEPT ![z] = "enabled"]
  /\ UNCHANGED <<lists, options, home, accepted, pending, stopped>>
  /\ UNCHANGED <<timers, full, thumbs>>

Destroy(z) ==
  /\ mode[z] \in {"enabled", "disabled"}
  /\ mode' = [mode EXCEPT ![z] = "destroyed"]
  /\ stopped' = stopped \cup files[z]
  /\ Removed(z, RemoveAllFiles(CancelAll(State, z), z, TRUE))
  /\ UNCHANGED <<options, home, accepted, pending, timers, thumbs>>

-----------------------------------------------------------------------------
(* Thumbnails                                                              *)

others == <<lists, rest, timers, full>>

\* _processThumbnailQueue: the oldest file of any zone.
NextThumbnail(z) ==
  IF thumbQueue = <<>>
  THEN reading' = [reading EXCEPT ![z] = <<>>] /\ UNCHANGED thumbQueue
  ELSE /\ reading' = [reading EXCEPT ![z] = <<Head(thumbQueue)>>]
       /\ thumbQueue' = Tail(thumbQueue)

ThumbnailTimer(z) ==
  /\ thumbTimers[z] > 0 /\ thumbTimers' = [thumbTimers EXCEPT ![z] = @ - 1]
  /\ IF reading[z] = <<>> THEN NextThumbnail(z)
                          ELSE UNCHANGED <<thumbQueue, reading>>
  /\ UNCHANGED <<others, failed>>

\* The callback of createThumbnail: the image was shown, or was none.
ThumbnailDone(z) ==
  /\ reading[z] # <<>> /\ z \notin failed
  /\ NextThumbnail(z)
  /\ UNCHANGED <<others, thumbTimers, failed>>

\* The FileReader has no onerror: the zone makes no thumbnails any more.
ReadFails(z) ==
  /\ reading[z] # <<>> /\ failed' = failed \cup {z}
  /\ UNCHANGED <<others, thumbQueue, thumbTimers, reading>>

-----------------------------------------------------------------------------
Next ==
  \/ \E z \in Zones :
       \/ \E f \in Files, valid \in BOOLEAN : AddFile(z, f, valid)
       \/ ProcessTimer(z) \/ CallProcessQueue(z) \/ QueueComplete(z)
       \/ \E c \in BOOLEAN : RemoveAll(z, c)
       \/ Disable(z) \/ Enable(z) \/ Destroy(z)
       \/ ThumbnailTimer(z) \/ ThumbnailDone(z) \/ ReadFails(z)
  \/ \E f \in Files :
       \/ \E error \in BOOLEAN : CallDone(f, error)
       \/ EnqueueFile(f) \/ RemoveLink(f) \/ Cancel(f)
  \/ \E r \in sent, ok \in BOOLEAN : Report(r, ok)

Spec == Init /\ [][Next]_vars

\* Timeouts fire and a request reports in the end.
Fairness ==
  /\ \A z \in Zones :
       /\ WF_vars(ProcessTimer(z)) /\ WF_vars(QueueComplete(z))
       /\ WF_vars(ThumbnailTimer(z))
       /\ WF_vars(ThumbnailDone(z) \/ ReadFails(z))
  /\ \A f \in Files :
       WF_vars(\E r \in sent, ok \in BOOLEAN : Leader(r) = f /\ Report(r, ok))

FairSpec == Spec /\ Fairness

-----------------------------------------------------------------------------
(* Properties *)

\* A zone has as many uploads as parallelUploads allows: never more, however
\* handlers that start uploads follow each other, and not fewer while files
\* are queued, unless a timeout that will look at the queue is set
\* (processQueue and its ten callers, enqueueFile).
Parallel ==
  \A z \in Zones :
    /\ Cardinality({f \in Files : home[f] = z /\ status[f] = "uploading"})
         <= options[z].parallelUploads
    /\ (/\ options[z].autoProcessQueue /\ timers[z] = 0
        /\ FilesWithStatus(State, z, {"queued"}) # {})
         => Cardinality(FilesWithStatus(State, z, {"uploading"}))
              >= options[z].parallelUploads

\* What is uploading is in the list, with its whole group, and its request is
\* out: no upload outlives the removal of its file.  What disable and destroy
\* stop stays stopped: no timeout, late answer, late call of done or enable
\* brings it back, though files that come late are uploaded by a zone that is
\* disabled or destroyed (removeFile, disable, cancelUpload, enqueueFile).
NoOrphans ==
  /\ \A f \in Files : status[f] = "uploading" =>
       /\ xhr[f] \in sent /\ f \in xhr[f]
       /\ \A g \in xhr[f] : status[g] = "uploading" /\ g \in files[home[f]]
  /\ \A f \in stopped : status[f] \in Final

\* complete comes when a file is done and only then; it comes once, unless the
\* file is of a group that failed (handleError) or was rejected after it was
\* canceled (addFile's done).
CompleteComes ==
  \A f \in Files :
    /\ completes[f] > 0 <=> status[f] \in Final
    /\ completes[f] > 1 => status[f] = "error"
    /\ status[f] = "error" =>
         completes[f] <= IF accepted[f] = "no" THEN 2 ELSE Cardinality(xhr[f])

\* maxFiles is kept where accept answers at once, and the class is on only
\* while it is reached (accept, _updateMaxFilesReachedClass).
MaxFilesKept ==
  \A z \in Zones : options[z].maxFiles # 0 =>
    /\ ~options[z].asynchronous =>
         Cardinality(AcceptedIn(files[z], accepted)) <= options[z].maxFiles
    /\ full[z] => MaxReached(z, files[z], accepted)
    /\ MaxReached(z, files[z], accepted) =>
         \/ full[z]
         \/ \E f \in Files : accepted[f] = "yes" /\ status[f] = "canceled"

\* What a zone keeps about its files: types, events, the limit.
Books == TypeOK /\ CompleteComes /\ MaxFilesKept

\* What a file has become is final, though requests report late and done is
\* called late: only a rejection still counts after a cancellation.
FinalStays ==
  [][\A f \in Files : status[f] \in Final /\ status'[f] # status[f] =>
       status[f] = "canceled" /\ f \in pending /\ accepted'[f] = "no"]_vars

\* When the last file is done queuecomplete comes, if no file was removed while
\* it waited: that makes no complete (init, removeFile).
QueueCompletes ==
  LET unsaid(z) ==
        ~told[z] /\ \A f \in Files : home[f] = z => status[f] \in Final
  IN  (\E z \in Zones : unsaid(z)) ~> \A z \in Zones : ~unsaid(z)

\* The queue of thumbnails drains, though files are removed and zones share it,
\* if every file can be read (_processThumbnailQueue).
ThumbnailsTaken ==
  thumbQueue # <<>> ~> thumbQueue = <<>> \/ failed # {}

\* What must be told and what must be shown is, in the end.
ComesOut == QueueCompletes /\ ThumbnailsTaken
=============================================================================
