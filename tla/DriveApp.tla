------------------------------- MODULE DriveApp -------------------------------
(* The drive application (apps/drive): folders and views of files, deletions *)
(* that wait five seconds for an Undo, changes whose answer replaces the list *)
(* by the one the click saw, and uploads that go on after their dialog was   *)
(* closed. The list of the store is set as a whole by whoever comes last;    *)
(* only the load of a folder is dropped when another folder is shown.        *)
(*                                                                           *)
(* The subfolders are folders of the root. "marked" stands for the star and  *)
(* for the name of a file, which change the same way. Of the server          *)
(* (services/drive) it matters which row a request changes, and that a file  *)
(* loses its content when it is moved to the trash.                          *)
EXTENDS Naturals, FiniteSets, Sequences, SequencesExt

CONSTANTS
    Root, Subfolders,              \* folders
    Trash, StarredView, Recent,    \* the other places of the sidebar
    Views,                         \* bound: those of them that are shown
    OldFiles,                      \* files stored before
    SampleFiles,                   \* the files of data/mock.ts
    NoFolder,                      \* null
    MaxUploads,                    \* bound: files uploaded
    MaxDriveActs                   \* bound: actions of the user

Folders  == {Root} \cup Subfolders
Places   == Folders \cup Views
Uploaded == 1 .. MaxUploads
FileIds  == OldFiles \cup Uploaded
Items    == FileIds \cup SampleFiles \cup Subfolders

ASSUME DriveAssumption ==
    /\ Root \notin Subfolders /\ NoFolder \notin Folders
    /\ Views \subseteq {Trash, StarredView, Recent}
    /\ {Trash, StarredView, Recent} \cap Folders = {}
    /\ Trash # StarredView /\ Trash # Recent /\ StarredView # Recent
    /\ OldFiles \cap (Uploaded \cup SampleFiles) = {}
    /\ Subfolders \cap (FileIds \cup SampleFiles) = {}
    /\ IsFiniteSet(OldFiles) /\ IsFiniteSet(SampleFiles)
    /\ MaxUploads \in Nat /\ MaxDriveActs \in Nat

VARIABLES
    rows,       \* the server: the file rows, file -> [folder, trashed, marked]
    blobs,      \* the server: the files that have their content
    dirs,       \* the server: the subfolders
    place,      \* currentFolderId
    files,      \* the store: the copies shown, [id, marked]
    folders,    \* the store: the folders shown
    placeLoad,  \* the load of the place: "asked", "served", "done"
    placeAnswer,  \* what a served load carries
    chosen,     \* selectedIds
    deletions,  \* deletions that wait, or that the server has not answered
    undo,       \* what the Undo of the toast brings back
    changes,    \* the other changes under way
    uploadDialog,  \* the upload dialog: open, number of files picked, uploading
    uploads,    \* uploads under way: folder and files left
    storedUploads,  \* files uploaded so far
    driveActs,
    off,        \* the list may differ from the server until it is loaded (history)
    spared      \* files whose deletion was undone in time (history)

driveVars == <<rows, blobs, dirs, place, files, folders, placeLoad, placeAnswer, chosen,
               deletions, undo, changes, uploadDialog, uploads, storedUploads, driveActs, off,
               spared>>

serverVars == <<rows, blobs, dirs>>
loadVars   == <<place, placeLoad, placeAnswer>>
uploadVars == <<uploadDialog, uploads, storedUploads>>

Copy == [id: FileIds \cup SampleFiles, marked: BOOLEAN]
View == [files: Seq(Copy), folders: SUBSET Subfolders]

Nothing == [files |-> <<>>, folders |-> {}]
NoUndo  == [n |-> 0, files |-> <<>>, folders |-> {}]

IdsOf(seq) == {seq[i].id : i \in DOMAIN seq}

\* The i-th of the positions in S.
NthAt(S, i) == CHOOSE k \in S : Cardinality({j \in S : j < k}) = i - 1

\* A list with only, or without, the files of a set.
Only(seq, ids) ==
    LET at == {k \in DOMAIN seq : seq[k].id \in ids}
    IN  [i \in 1 .. Cardinality(at) |-> seq[NthAt(at, i)]]

Minus(seq, ids) == Only(seq, IdsOf(seq) \ ids)

DriveInit ==
    /\ rows = [f \in OldFiles |-> [folder |-> Root, trashed |-> FALSE, marked |-> FALSE]]
    /\ blobs = OldFiles /\ dirs \in SUBSET Subfolders
    /\ place = Root /\ files = <<>> /\ folders = {}
    /\ placeLoad = "asked" /\ placeAnswer = Nothing /\ chosen = {}
    /\ deletions = {} /\ undo = NoUndo /\ changes = {}
    /\ uploadDialog = [open |-> FALSE, picked |-> 0, uploading |-> FALSE]
    /\ uploads = {} /\ storedUploads = 0 /\ driveActs = 0 /\ off = FALSE /\ spared = {}

DriveAct == driveActs < MaxDriveActs /\ driveActs' = driveActs + 1

-------------------------------------------------------------------------------
(* Showing a place.                                                          *)

Trashed == {f \in DOMAIN rows : rows[f].trashed}

\* The files a place has on the server.
FilesOf(p) ==
    CASE p = Trash       -> Trashed
      [] p = StarredView -> {f \in DOMAIN rows \ Trashed : rows[f].marked}
      [] p = Recent      -> {f \in DOMAIN rows \ Trashed : rows[f].folder = Root}
      [] OTHER           -> {f \in DOMAIN rows \ Trashed : rows[f].folder = p}

Contents(p) ==
    [files   |-> LET ids == SetToSeq(FilesOf(p))
                 IN  [i \in DOMAIN ids |-> [id |-> ids[i], marked |-> rows[ids[i]].marked]],
     folders |-> IF p = Root THEN dirs ELSE {}]

\* Changes whose answer sets a list, and deletions, that are under way.
ChangesPending == changes # {} \/ deletions # {}

\* The effect loads the place when it is another one; the load before it is
\* dropped. Nothing clears what is shown, but it is not rendered meanwhile.
Navigate(p) ==
    /\ DriveAct
    /\ place' = p /\ chosen' = {}
    /\ IF p = place
       THEN UNCHANGED <<placeLoad, placeAnswer, off>>
       ELSE placeLoad' = "asked" /\ placeAnswer' = Nothing /\ off' = ChangesPending
    /\ UNCHANGED <<serverVars, files, folders, deletions, undo, changes, uploadVars,
                   spared>>

PlaceServed ==
    /\ placeLoad = "asked" /\ (place \notin Folders \/ place = Root \/ place \in dirs)
    /\ placeLoad' = "served" /\ placeAnswer' = Contents(place)
    /\ off' = (off \/ ChangesPending)
    /\ UNCHANGED <<serverVars, place, files, folders, chosen, deletions, undo, changes,
                   uploadVars, driveActs, spared>>

PlaceAnswered ==
    /\ placeLoad = "served"
    /\ placeLoad' = "done" /\ placeAnswer' = Nothing
    /\ files' = placeAnswer.files /\ folders' = placeAnswer.folders
    /\ UNCHANGED <<serverVars, place, chosen, deletions, undo, changes, uploadVars,
                   driveActs, off, spared>>

\* A load that fails, of a folder that is gone for example, shows samples.
PlaceFails ==
    /\ placeLoad # "done"
    /\ placeLoad' = "done" /\ placeAnswer' = Nothing
    /\ LET ids == IF place = Root THEN SetToSeq(SampleFiles) ELSE <<>>
       IN  files' = [i \in DOMAIN ids |-> [id |-> ids[i], marked |-> FALSE]]
    /\ folders' = {} /\ off' = TRUE
    /\ UNCHANGED <<serverVars, place, chosen, deletions, undo, changes, uploadVars,
                   driveActs, spared>>

\* Files, folders and the bar of a selection are rendered after the load.
Rendered == placeLoad = "done"

NoFilesYet     == Rendered /\ files = <<>> /\ folders = {}
FileShown(f)   == Rendered /\ f \in IdsOf(files)
FolderShown(i) == Rendered /\ i \in folders

\* In the trash the menu of a file has no more than Restore.
FileMenu(f) == place # Trash /\ FileShown(f)

\* The bar of a selection, even of one that is no longer shown.
BarShown == chosen # {} /\ Rendered /\ ~NoFilesYet

\* A click on a file or on the icon of a folder; Escape and Clear.
ToggleSelected(i) ==
    /\ DriveAct /\ (FileShown(i) \/ FolderShown(i))
    /\ chosen' = IF i \in chosen THEN chosen \ {i} ELSE chosen \cup {i}
    /\ UNCHANGED <<serverVars, loadVars, files, folders, deletions, undo, changes,
                   uploadVars, off, spared>>

ClearSelection ==
    /\ DriveAct /\ chosen # {}
    /\ chosen' = {}
    /\ UNCHANGED <<serverVars, loadVars, files, folders, deletions, undo, changes,
                   uploadVars, off, spared>>

-------------------------------------------------------------------------------
(* Deleting, with an Undo.                                                   *)

\* What a deletion removed from the lists; "todo" are the items the server has
\* not answered for.
Deletion(n, fs, ds) ==
    [n |-> n, asked |-> FALSE, failed |-> FALSE, files |-> fs, folders |-> ds,
     todo |-> IdsOf(fs) \cup ds]

\* The items ids leave the list; a timer runs and the toast offers the Undo.
Delete(ids) ==
    LET d == Deletion(driveActs', Only(files, ids), folders \cap ids)
    IN  /\ DriveAct
        /\ deletions' = deletions \cup {d}
        /\ undo' = [n |-> d.n, files |-> d.files, folders |-> d.folders]
        /\ files' = Minus(files, ids) /\ folders' = folders \ ids
        /\ off' = (off \/ changes # {})
        /\ spared' = spared \ ids
        /\ UNCHANGED <<serverVars, loadVars, changes, uploadVars>>

\* The menu of a file, and the bar.
DeleteFile(f) == FileMenu(f) /\ Delete({f}) /\ UNCHANGED chosen
BulkDelete    == BarShown /\ Delete(chosen) /\ chosen' = {}

\* Mutant: Undo does not stop the timer.
UndoLate ==
    LET inTime == {d \in deletions : d.n = undo.n /\ ~d.asked}
    IN  /\ DriveAct /\ undo # NoUndo
        /\ files' = files \o undo.files /\ folders' = folders \cup undo.folders
        /\ spared' = spared \cup UNION {d.todo \cap DOMAIN rows : d \in inTime}
        /\ off' = (off \/ inTime = {} \/ placeLoad # "done" \/ changes # {})
        /\ UNCHANGED <<serverVars, loadVars, chosen, deletions, undo, changes, uploadVars>>

\* Undo stops the timer, if it still runs; the toast stays, and the items are
\* added to what is shown now.
Undo ==
    LET inTime == {d \in deletions : d.n = undo.n /\ ~d.asked}
        others == UNION ({d.todo : d \in deletions \ inTime} \cup {c.todo : c \in changes})
    IN  /\ DriveAct /\ undo # NoUndo
        /\ deletions' = deletions \ inTime
        /\ files' = files \o undo.files /\ folders' = folders \cup undo.folders
        /\ spared' = spared \cup
             UNION {{f \in d.todo \ others : f \in DOMAIN rows /\ ~rows[f].trashed} :
                        d \in inTime}
        /\ off' = (off \/ inTime = {} \/ placeLoad # "done" \/ changes # {})
        /\ UNCHANGED <<serverVars, loadVars, chosen, undo, changes, uploadVars>>

\* The timer fires: all requests of the deletion are sent together.
DeletionStarts(d) ==
    /\ ~d.asked
    /\ deletions' = (deletions \ {d}) \cup
                       (IF d.todo = {} THEN {} ELSE {[d EXCEPT !.asked = TRUE]})
    /\ UNCHANGED <<serverVars, loadVars, files, folders, chosen, undo, changes,
                   uploadVars, driveActs, off, spared>>

\* The server moves a file to the trash and removes its content; a folder is
\* removed, and its files are files of the root then.
RowDeleted(i) ==
    IF i \in Subfolders
    THEN /\ i \in dirs /\ dirs' = dirs \ {i}
         /\ rows' = [f \in DOMAIN rows |->
                        IF rows[f].folder = i THEN [rows[f] EXCEPT !.folder = Root]
                        ELSE rows[f]]
         /\ UNCHANGED blobs
    ELSE /\ i \in DOMAIN rows /\ ~rows[i].trashed
         /\ rows' = [rows EXCEPT ![i].trashed = TRUE]
         /\ blobs' = blobs \ {i}
         /\ UNCHANGED dirs

Handled(d, i, failed) ==
    deletions' = (deletions \ {d}) \cup
        (IF d.todo = {i} THEN {} ELSE {[d EXCEPT !.todo = @ \ {i}, !.failed = failed]})

ItemDeleted(d, i) ==
    /\ d.asked /\ i \in d.todo
    /\ RowDeleted(i)
    /\ Handled(d, i, d.failed)
    /\ off' = (off \/ (place = Root /\ \E f \in DOMAIN rows : rows[f].folder = i))
    /\ UNCHANGED <<loadVars, files, folders, chosen, undo, changes, uploadVars,
                   driveActs, spared>>

\* One request fails, or its answer is lost: the first time, all items of the
\* deletion are added to what is shown now.
ItemRefused(d, i) ==
    /\ d.asked /\ i \in d.todo
    /\ Handled(d, i, TRUE)
    /\ \/ UNCHANGED serverVars
       \/ RowDeleted(i)
    /\ IF d.failed
       THEN UNCHANGED <<files, folders, undo>>
       ELSE /\ files' = files \o d.files /\ folders' = folders \cup d.folders
            /\ undo' = NoUndo
    /\ off' = (off \/ placeLoad # "done" \/ changes # {} \/ IdsOf(d.files) \cup d.folders # {i}
                   \/ rows' # rows \/ dirs' # dirs)
    /\ UNCHANGED <<loadVars, chosen, changes, uploadVars, driveActs, spared>>

-------------------------------------------------------------------------------
(* The other changes: the list an answer sets is that of the click.          *)

\* "kind" and "to" say what is asked for the items "todo"; "files" and
\* "folders" are the lists to set when the last has been answered.
Change(kind, ids, to, fs, ds) ==
    [n |-> driveActs', kind |-> kind, todo |-> ids, to |-> to, files |-> fs,
     folders |-> ds, single |-> Cardinality(ids) = 1, failed |-> FALSE]

Start(c, differs) ==
    /\ changes' = changes \cup {c}
    /\ off' = (off \/ ChangesPending \/ placeLoad # "done" \/ differs)
    /\ UNCHANGED <<serverVars, loadVars, files, folders, deletions, undo, uploadVars>>

Marked(f, b) ==
    [i \in DOMAIN files |-> IF files[i].id = f THEN [files[i] EXCEPT !.marked = b]
                            ELSE files[i]]

\* Star and rename.
Mark(f) ==
    /\ DriveAct /\ FileMenu(f)
    /\ LET b == \E i \in DOMAIN files : files[i].id = f /\ ~files[i].marked
       IN  Start(Change(IF b THEN "mark" ELSE "unmark", {f}, NoFolder, Marked(f, b), folders),
                 place = StarredView)
    /\ UNCHANGED <<chosen, spared>>

\* The menu, the bar and a drop on a folder: the files leave the list, though
\* they may stay in the place. A dropped selection may hold folders, which the
\* server has no file for.
Moving(kind, ids, p) ==
    Start(Change(kind, ids, p, Minus(files, ids), folders),
          place \notin Folders \/ p = place)

MoveFile(f, p) ==
    /\ DriveAct /\ FileMenu(f)
    /\ Moving("move", {f}, p)
    /\ UNCHANGED <<chosen, spared>>

BulkMove(p) ==
    /\ DriveAct /\ BarShown /\ chosen \cap IdsOf(files) # {}
    /\ Moving("bulk", chosen \cap IdsOf(files), p)
    /\ UNCHANGED <<chosen, spared>>

\* What a drag that starts on file f carries; in the trash nothing is dragged.
Dragged(f) == IF f \in chosen THEN chosen ELSE {f}

DropOnFolder(f, p) ==
    /\ DriveAct /\ place # Trash /\ FileShown(f) /\ FolderShown(p)
    /\ Moving("move", Dragged(f), p)
    /\ UNCHANGED <<chosen, spared>>

Restore(f) ==
    /\ DriveAct /\ place = Trash /\ FileShown(f)
    /\ Start(Change("restore", {f}, NoFolder, Minus(files, {f}), folders), FALSE)
    /\ UNCHANGED <<chosen, spared>>

EmptyTrash ==
    /\ DriveAct /\ place = Trash /\ files # <<>>
    /\ Start(Change("empty", {place}, NoFolder, <<>>, folders), FALSE)
    /\ UNCHANGED <<chosen, spared>>

\* The Delete key: the selected items one after the other, with the request that
\* deletes files, and nothing leaves the list.
DeleteKey ==
    /\ DriveAct /\ chosen # {}
    /\ Start(Change("delete", chosen, NoFolder, files, folders), TRUE)
    /\ spared' = spared \ chosen
    /\ UNCHANGED chosen

\* The name of a folder is not told apart; its answer sets the list all the same.
RenameFolder(i) ==
    /\ DriveAct /\ FolderShown(i)
    /\ Start(Change("rename", {i}, NoFolder, files, folders), FALSE)
    /\ UNCHANGED <<chosen, spared>>

DeleteFolder(i) ==
    /\ DriveAct /\ FolderShown(i)
    /\ Start(Change("rmdir", {i}, NoFolder, files, folders \ {i}),
             \E f \in DOMAIN rows : rows[f].folder = i)
    /\ UNCHANGED <<chosen, spared>>

\* New folder, in the place that is shown: the views are no folders.
CreateFolder(i) ==
    /\ DriveAct /\ i \in Subfolders \ dirs /\ place \notin Subfolders
    /\ \A c \in changes : c.kind # "mkdir"
    /\ Start(Change("mkdir", {i}, place, files, folders \cup {i}), FALSE)
    /\ UNCHANGED <<chosen, spared>>

\* What the server does for item i of change c, if it can.
Applied(c, i) ==
    CASE c.kind \in {"mark", "unmark"} ->
            /\ i \in DOMAIN rows
            /\ rows' = IF rows[i].trashed THEN rows
                       ELSE [rows EXCEPT ![i].marked = (c.kind = "mark")]
            /\ UNCHANGED <<blobs, dirs>>
      [] c.kind \in {"move", "bulk"} ->
            /\ i \in DOMAIN rows /\ c.to \in {Root} \cup dirs
            /\ rows' = [rows EXCEPT ![i].folder = c.to]
            /\ UNCHANGED <<blobs, dirs>>
      [] c.kind = "restore" ->
            /\ i \in DOMAIN rows /\ rows[i].trashed
            /\ rows' = [rows EXCEPT ![i].trashed = FALSE]
            /\ UNCHANGED <<blobs, dirs>>
      [] c.kind = "empty" ->
            /\ rows' = [f \in DOMAIN rows \ Trashed |-> rows[f]]
            /\ UNCHANGED <<blobs, dirs>>
      [] c.kind = "delete" -> i \in FileIds /\ RowDeleted(i)
      [] c.kind = "rmdir"  -> RowDeleted(i)
      [] c.kind = "rename" -> i \in dirs /\ UNCHANGED serverVars
      [] c.kind = "mkdir"  -> /\ c.to = Root /\ dirs' = dirs \cup {i}
                              /\ UNCHANGED <<rows, blobs>>

Taken(c, i) ==
    /\ i \in c.todo
    /\ Applied(c, i)
    /\ changes' = (changes \ {c}) \cup {[c EXCEPT !.todo = @ \ {i}]}
    /\ UNCHANGED <<loadVars, files, folders, chosen, deletions, undo, uploadVars,
                   driveActs, off, spared>>

\* A request fails, or its answer is lost; only the toast says so. The Delete key
\* stops there.
Refused(c, i) ==
    /\ i \in c.todo
    /\ \/ UNCHANGED serverVars
       \/ Applied(c, i)
    /\ changes' = (changes \ {c}) \cup
          {[c EXCEPT !.todo = IF c.kind = "delete" THEN {} ELSE @ \ {i}, !.failed = TRUE]}
    /\ undo' = NoUndo
    /\ off' = (off \/ ~c.single \/ rows' # rows \/ dirs' # dirs)
    /\ UNCHANGED <<loadVars, files, folders, chosen, deletions, uploadVars, driveActs,
                   spared>>

\* The last answer, if none was an error: the lists of the click are set, in
\* whatever place is shown.
ChangeDone(c) ==
    /\ c.todo = {}
    /\ changes' = changes \ {c}
    /\ IF c.failed
       THEN UNCHANGED <<files, folders, chosen, undo>>
       ELSE /\ files'   = IF c.kind \in {"rename", "rmdir", "mkdir", "delete"} THEN files
                          ELSE c.files
            /\ folders' = IF c.kind \in {"rename", "rmdir", "mkdir"} THEN c.folders
                          ELSE folders
            /\ chosen'  = IF c.kind \in {"bulk", "delete"} THEN {} ELSE chosen
            /\ undo' = NoUndo
    /\ UNCHANGED <<serverVars, loadVars, deletions, uploadVars, driveActs, off, spared>>

-------------------------------------------------------------------------------
(* Uploading.                                                                *)

\* The dialog: the button, the key u, files added or removed, closing.
SetDialog(d) ==
    /\ DriveAct /\ d # uploadDialog
    /\ uploadDialog' = d
    /\ UNCHANGED <<serverVars, loadVars, files, folders, chosen, deletions, undo,
                   changes, uploads, storedUploads, off, spared>>

OpenUpload  == SetDialog([uploadDialog EXCEPT !.open = TRUE])
CloseUpload == /\ uploadDialog.open
               /\ SetDialog([uploadDialog EXCEPT !.open = FALSE, !.picked = 0])
Pick(n)     == uploadDialog.open /\ SetDialog([uploadDialog EXCEPT !.picked = n])

Uploading(n, byDialog) ==
    /\ uploads' = uploads \cup {[n |-> driveActs', folder |-> place, left |-> n,
                                 byDialog |-> byDialog]}
    /\ off' = TRUE
    /\ UNCHANGED <<serverVars, loadVars, files, folders, chosen, deletions, undo,
                   changes, storedUploads, spared>>

UploadClicked ==
    /\ DriveAct /\ uploadDialog.open /\ uploadDialog.picked > 0 /\ ~uploadDialog.uploading
    /\ uploadDialog' = [uploadDialog EXCEPT !.uploading = TRUE]
    /\ Uploading(uploadDialog.picked, TRUE)

\* Files dropped on the page are uploaded at once.
DropOnPage(n) ==
    /\ DriveAct /\ n > 0
    /\ Uploading(n, FALSE)
    /\ UNCHANGED uploadDialog

\* Files dropped on the dialog are picked, and uploaded at once as well.
DropOnDialog(n) ==
    /\ DriveAct /\ uploadDialog.open /\ uploadDialog.picked < n
    /\ uploadDialog' = [uploadDialog EXCEPT !.picked = n]
    /\ Uploading(n - uploadDialog.picked, FALSE)

\* One file after the other, to the folder that was shown at the start.
FileUploaded(u) ==
    /\ u.left > 0 /\ storedUploads < MaxUploads /\ u.folder \in {Root} \cup dirs
    /\ storedUploads' = storedUploads + 1
    /\ rows' = [f \in DOMAIN rows \cup {storedUploads'} |->
                  IF f # storedUploads' THEN rows[f]
                  ELSE [folder |-> u.folder, trashed |-> FALSE, marked |-> FALSE]]
    /\ blobs' = blobs \cup {storedUploads'}
    /\ uploads' = (uploads \ {u}) \cup {[u EXCEPT !.left = @ - 1]}
    /\ off' = TRUE
    /\ UNCHANGED <<dirs, loadVars, files, folders, chosen, deletions, undo, changes,
                   uploadDialog, driveActs, spared>>

\* After the last file or the first failure the dialog closes, and loses the
\* files picked meanwhile.
UploadEnds(u) ==
    /\ uploads' = uploads \ {u}
    /\ uploadDialog' = IF u.byDialog
                       THEN [open |-> FALSE, picked |-> 0, uploading |-> FALSE]
                       ELSE uploadDialog
    /\ undo' = NoUndo
    /\ UNCHANGED <<serverVars, loadVars, files, folders, chosen, deletions, changes,
                   storedUploads, driveActs, off, spared>>

\* The page is loaded again: what waited for its five seconds never happens.
ReloadPage ==
    /\ DriveAct
    /\ place' = Root /\ files' = <<>> /\ folders' = {} /\ placeLoad' = "asked"
    /\ placeAnswer' = Nothing /\ chosen' = {} /\ deletions' = {} /\ undo' = NoUndo
    /\ changes' = {} /\ uploads' = {}
    /\ uploadDialog' = [open |-> FALSE, picked |-> 0, uploading |-> FALSE]
    /\ off' = FALSE
    /\ UNCHANGED <<serverVars, storedUploads, spared>>
-------------------------------------------------------------------------------
DriveNext ==
    \/ \E p \in Places : Navigate(p)
    \/ PlaceServed \/ PlaceAnswered \/ PlaceFails
    \/ \E i \in Items : ToggleSelected(i)
    \/ ClearSelection \/ BulkDelete \/ EmptyTrash \/ DeleteKey \/ Undo
    \/ \E f \in FileIds \cup SampleFiles :
          \/ DeleteFile(f) \/ Mark(f) \/ Restore(f)
          \/ \E p \in Folders : MoveFile(f, p) \/ DropOnFolder(f, p)
    \/ \E p \in Folders : BulkMove(p)
    \/ \E i \in Subfolders : RenameFolder(i) \/ DeleteFolder(i) \/ CreateFolder(i)
    \/ \E d \in deletions :
          \/ DeletionStarts(d)
          \/ \E i \in d.todo : ItemDeleted(d, i) \/ ItemRefused(d, i)
    \/ \E c \in changes : ChangeDone(c) \/ \E i \in c.todo : Taken(c, i) \/ Refused(c, i)
    \/ OpenUpload \/ CloseUpload \/ UploadClicked
    \/ \E n \in 0 .. MaxUploads : Pick(n) \/ DropOnPage(n) \/ DropOnDialog(n)
    \/ \E u \in uploads : FileUploaded(u) \/ UploadEnds(u)
    \/ ReloadPage

-------------------------------------------------------------------------------
(* Properties.                                                               *)

\* The types of the variables.
DriveTypeOK ==
    /\ DOMAIN rows \subseteq FileIds /\ blobs \subseteq FileIds /\ dirs \subseteq Subfolders
    /\ \A f \in DOMAIN rows : rows[f] \in [folder: Folders, trashed: BOOLEAN, marked: BOOLEAN]
    /\ place \in Places /\ files \in Seq(Copy) /\ folders \subseteq Subfolders
    /\ placeLoad \in {"asked", "served", "done"} /\ placeAnswer \in View
    /\ chosen \subseteq Items /\ undo.n \in 0 .. MaxDriveActs
    /\ storedUploads \in 0 .. MaxUploads /\ driveActs \in 0 .. MaxDriveActs
    /\ uploadDialog \in [open: BOOLEAN, picked: 0 .. MaxUploads, uploading: BOOLEAN]
    /\ off \in BOOLEAN /\ spared \subseteq FileIds \cup SampleFiles

\* When nothing is under way, the files and folders shown are those of the place,
\* each once and as marked on the server, after any mix of deletions, undone or
\* refused, and of moves, stars and restores, in any order of their answers: all
\* but where requests that set the list met, or a change does not concern the
\* list it is made in, and then until the next load.
FolderSettles ==
    placeLoad = "done" /\ ~ChangesPending /\ ~off =>
        /\ Len(files) = Cardinality(IdsOf(files))
        /\ IdsOf(files) = FilesOf(place)
        /\ \A i \in DOMAIN files : files[i].marked = rows[files[i].id].marked
        /\ folders = Contents(place).folders

\* A deletion that is undone before its five seconds are over does not take place:
\* its files are not trashed, and not destroyed by emptying the trash, unless the
\* user deletes them again.
UndoneIsKept == \A f \in spared : f \in DOMAIN rows /\ ~rows[f].trashed

\* The dialog of the menu says of a file moved to the trash that it can be
\* restored later: every file in the trash has its content.
TrashCanBeRestored == \A f \in DOMAIN rows : rows[f].trashed => f \in blobs
===============================================================================
