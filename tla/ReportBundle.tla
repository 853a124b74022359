---------------------------- MODULE ReportBundle ----------------------------
(***************************************************************************)
(* Publication of a report bundle                                          *)
(* (src/crates/termivar-cli/src/report_bundle.rs): a directory is reserved *)
(* before the scan; afterwards two payloads and then the manifest are each *)
(* written to a temporary file, synchronized, hard-linked to their final   *)
(* name and freed of the temporary one.  The link of the manifest is the   *)
(* commit point.  A failure before it removes what the publication owns; a *)
(* failure after it removes nothing.                                       *)
(*                                                                         *)
(* A step is one file-system call with the flags that follow it.  Every    *)
(* call may fail, the process may be killed between any two, the machine   *)
(* may lose power (what is not synchronized may then be gone), and someone *)
(* else may replace, remove or add files.  docs/reporting.md excludes      *)
(* races within the verification of a path and the call it protects, so    *)
(* those two are one step.                                                 *)
(*                                                                         *)
(* Directory synchronization is the Unix one; elsewhere it does nothing,   *)
(* and power loss is outside what the program promises.                    *)
(***************************************************************************)
EXTENDS Naturals, Sequences, FiniteSets

CONSTANT MaxTouched   \* bound: paths someone else changes during a publication

ASSUME MaxTouchedAssumption == MaxTouched \in Nat

Kinds == {"html", "json", "manifest"}
Payloads == {"html", "json"}

(***************************************************************************)
(* A path in the directory: the temporary or the final name of a file.     *)
(***************************************************************************)
Slots == {"temporary", "final"}
Paths == Kinds \X Slots

VARIABLES
    pc,         \* where the publication is
    kind,       \* the file being published
    owned,      \* OwnedFilePaths of each file
    committed,  \* ReportBundleReservation::committed
    released,   \* ReportBundleReservation::released
    identity,   \* whether the directory's identity is held
    caller,     \* who runs cleanup_precommit
    at,         \* the position of the cleanup in `tracked`
    failed,     \* cleanup's first_error
    result,     \* what the reservation, publication or abort returned
    dir,        \* what the destination path is: absent, ours or foreign
    entry,      \* what each path refers to: none, ours or foreign
    stray,      \* a file of someone else's under another name
    inode,      \* the content of our files
    durable,    \* entries as they are on disk whatever happens
    touched,    \* observation only: paths someone else changed
    excused     \* observation only: a cleanup failed for a reason outside
                \* the program, or the identity of a file was not retained

program == <<pc, kind, owned, committed, released, identity, caller, at, failed, result>>
disk == <<dir, entry, stray, inode, durable>>
vars == <<program, disk, touched, excused>>

NotOwned == [identity |-> FALSE, temporary |-> FALSE, final_path |-> FALSE]

Init ==
    /\ pc = "reserve"
    /\ kind = "html"
    /\ owned = [k \in Kinds |-> NotOwned]
    /\ committed = FALSE
    /\ released = FALSE
    /\ identity = FALSE
    /\ caller = "none"
    /\ at = 1
    /\ failed = FALSE
    /\ result = "none"
    /\ dir \in {"absent", "foreign"}
    /\ entry = [p \in Paths |-> "none"]
    /\ stray = FALSE
    /\ inode = [k \in Kinds |-> "none"]
    /\ durable = [p \in Paths |-> "none"]
    /\ touched = {}
    /\ excused = FALSE

Temporary == <<kind, "temporary">>
Final == <<kind, "final">>

-----------------------------------------------------------------------------
(***************************************************************************)
(* reserve: the directory is created exclusively.  Without its identity it *)
(* is left alone.                                                          *)
(***************************************************************************)
Reserve ==
    /\ pc = "reserve"
    /\ \/ /\ dir = "absent"
          /\ dir' = "ours"
          /\ \/ pc' = "reserved" /\ identity' = TRUE /\ UNCHANGED result
             \/ pc' = "done" /\ result' = "no_identity" /\ UNCHANGED identity
       \/ /\ pc' = "done"
          /\ result' = "not_reserved"
          /\ UNCHANGED <<dir, identity>>
    /\ UNCHANGED <<kind, owned, committed, released, caller, at, failed>>
    /\ UNCHANGED <<entry, stray, inode, durable, touched, excused>>

(***************************************************************************)
(* The scan ends: with a bundle to publish, with a failure that aborts the *)
(* reservation, or with an error that just drops it.                       *)
(***************************************************************************)
StartPublish ==
    /\ pc = "reserved"
    /\ \/ pc' = "create" /\ UNCHANGED <<caller, at, failed>>
       \/ /\ pc' = "verify_directory"          \* validate_bundle_sizes
          /\ caller' = "publish" /\ at' = 1 /\ failed' = FALSE
    /\ UNCHANGED <<kind, owned, committed, released, identity, result>>
    /\ UNCHANGED <<disk, touched, excused>>

Discard ==
    /\ pc = "reserved"
    /\ pc' = "verify_directory"
    /\ caller' \in {"abort", "drop"}
    /\ at' = 1
    /\ failed' = FALSE
    /\ UNCHANGED <<kind, owned, committed, released, identity, result>>
    /\ UNCHANGED <<disk, touched, excused>>

(***************************************************************************)
(* The end of publish_inner with an error: after the commit nothing is     *)
(* removed, before it the cleanup runs.                                    *)
(***************************************************************************)
FailPublish ==
    IF committed
    THEN /\ pc' = "done"
         /\ released' = TRUE
         /\ result' = "committed_error"
         /\ UNCHANGED <<caller, at, failed>>
    ELSE /\ pc' = "verify_directory"
         /\ caller' = "publish"
         /\ at' = 1
         /\ failed' = FALSE
         /\ UNCHANGED <<released, result>>

Goto(step) == pc' = step /\ UNCHANGED <<released, result, caller, at, failed>>

-----------------------------------------------------------------------------
(***************************************************************************)
(* publish_file, call by call.  A refused file (an empty document) fails   *)
(* before anything is created.                                             *)
(***************************************************************************)
Create ==
    /\ pc = "create"
    /\ \/ /\ entry[Temporary] = "none"
          /\ entry' = [entry EXCEPT ![Temporary] = "ours"]
          /\ inode' = [inode EXCEPT ![kind] = "empty"]
          /\ owned' = [owned EXCEPT ![kind].temporary = TRUE]
          /\ Goto("identify")
       \/ FailPublish /\ UNCHANGED <<entry, inode, owned>>
    /\ UNCHANGED <<kind, committed, identity, dir, stray, durable, touched, excused>>

Identify ==
    /\ pc = "identify"
    /\ \/ /\ owned' = [owned EXCEPT ![kind].identity = TRUE]
          /\ Goto("write")
          /\ UNCHANGED excused
       \/ FailPublish /\ excused' = TRUE /\ UNCHANGED owned
    /\ UNCHANGED <<kind, committed, identity, disk, touched>>

(***************************************************************************)
(* The open file is written, whatever its name refers to by then; a write  *)
(* that fails may have written some of it.                                 *)
(***************************************************************************)
Write ==
    /\ pc = "write"
    /\ \/ inode' = [inode EXCEPT ![kind] = "written"] /\ Goto("sync")
       \/ inode' = [inode EXCEPT ![kind] = "partial"] /\ FailPublish
       \/ UNCHANGED inode /\ FailPublish
    /\ UNCHANGED <<kind, owned, committed, identity, dir, entry, stray, durable, touched, excused>>

SyncFile ==
    /\ pc = "sync"
    /\ \/ inode' = [inode EXCEPT ![kind] = "synced"] /\ Goto("link")
       \/ UNCHANGED inode /\ FailPublish
    /\ UNCHANGED <<kind, owned, committed, identity, dir, entry, stray, durable, touched, excused>>

(***************************************************************************)
(* verify_owned_path.                                                      *)
(***************************************************************************)
Verified(p) == owned[p[1]].identity /\ entry[p] = "ours"

\* Bug: the commit is recorded only when the manifest's temporary name is gone.
CommitsNever(k) == FALSE

\* The manifest's link is the commit point.
Commits(k) == k = "manifest"

\* Bug: the final name is tracked once it has been verified, not once it exists.
TrackedFinalLater(k) == [owned EXCEPT ![k].identity = TRUE]

TrackedFinal(k) == [owned EXCEPT ![k].final_path = TRUE]

(***************************************************************************)
(* hard_link does not overwrite.                                           *)
(***************************************************************************)
Link ==
    /\ pc = "link"
    /\ \/ /\ Verified(Temporary)
          /\ entry[Final] = "none"
          /\ entry' = [entry EXCEPT ![Final] = "ours"]
          /\ committed' = (committed \/ Commits(kind))
          /\ owned' = TrackedFinal(kind)
          /\ Goto("verify_final")
       \/ FailPublish /\ UNCHANGED <<entry, committed, owned>>
    /\ UNCHANGED <<kind, identity, dir, stray, inode, durable, touched, excused>>

VerifyFinal ==
    /\ pc = "verify_final"
    /\ \/ Verified(Final) /\ Goto("remove_temporary")
       \/ FailPublish
    /\ UNCHANGED <<kind, owned, committed, identity, disk, touched, excused>>

Following == [html |-> "json", json |-> "manifest", manifest |-> "manifest"]

AfterFile == [html |-> "create", json |-> "sync_payloads", manifest |-> "sync_committed"]

RemoveTemporary ==
    /\ pc = "remove_temporary"
    /\ \/ /\ Verified(Temporary)
          /\ entry' = [entry EXCEPT ![Temporary] = "none"]
          /\ owned' = [owned EXCEPT ![kind].temporary = FALSE]
          /\ kind' = Following[kind]
          /\ Goto(AfterFile[kind])
       \/ FailPublish /\ UNCHANGED <<entry, owned, kind>>
    /\ UNCHANGED <<committed, identity, dir, stray, inode, durable, touched, excused>>

(***************************************************************************)
(* The directory is synchronized before the manifest is begun and again    *)
(* after it was committed.                                                 *)
(***************************************************************************)
\* Bug: the directory is not synchronized between the payloads and the manifest.
SyncedEntriesNone == durable

SyncedEntries == entry

SyncPayloads ==
    /\ pc = "sync_payloads"
    /\ \/ durable' = SyncedEntries /\ Goto("create")
       \/ UNCHANGED durable /\ FailPublish
    /\ UNCHANGED <<kind, owned, committed, identity, dir, entry, stray, inode, touched, excused>>

SyncCommitted ==
    /\ pc = "sync_committed"
    /\ \/ /\ durable' = SyncedEntries
          /\ pc' = "done" /\ released' = TRUE /\ result' = "ok"
          /\ UNCHANGED <<caller, at, failed>>
       \/ UNCHANGED durable /\ FailPublish
    /\ UNCHANGED <<kind, owned, committed, identity, dir, entry, stray, inode, touched, excused>>

Publication ==
    \/ Create \/ Identify \/ Write \/ SyncFile \/ Link
    \/ VerifyFinal \/ RemoveTemporary \/ SyncPayloads \/ SyncCommitted

-----------------------------------------------------------------------------
(***************************************************************************)
(* cleanup_precommit: the paths of `tracked`, and which of them are owned. *)
(***************************************************************************)
Tracked ==
    <<<<"manifest", "temporary">>, <<"manifest", "final">>, <<"json", "temporary">>,
      <<"json", "final">>, <<"html", "temporary">>, <<"html", "final">>>>

Owns(p) == IF p[2] = "temporary" THEN owned[p[1]].temporary ELSE owned[p[1]].final_path

(***************************************************************************)
(* The end of a cleanup.  publish and abort report it and drop the         *)
(* reservation, and a reservation dropped without being released is        *)
(* cleaned up once more, silently.                                         *)
(***************************************************************************)
Report(ok) ==
    CASE caller = "publish" -> IF ok THEN "failed" ELSE "failed_incomplete"
      [] caller = "abort" -> IF ok THEN "aborted" ELSE "aborted_incomplete"
      [] OTHER -> result

EndCleanup(ok) ==
    /\ released' = ok
    /\ result' = Report(ok)
    /\ at' = 1
    /\ failed' = FALSE
    /\ caller' = "drop"
    /\ pc' = IF ok \/ caller = "drop" THEN "done" ELSE "verify_directory"

VerifyDirectory ==
    /\ pc = "verify_directory"
    /\ \/ /\ identity /\ dir = "ours"
          /\ pc' = "verify_tracked"
          /\ UNCHANGED <<released, result, caller, at, failed, excused>>
       \/ EndCleanup(FALSE) /\ excused' = TRUE
    /\ UNCHANGED <<kind, owned, committed, identity, disk, touched>>

(***************************************************************************)
(* The first pass looks at every owned path that exists and removes none.  *)
(***************************************************************************)
AllVerified == \A p \in Paths : Owns(p) /\ entry[p] # "none" => Verified(p)

VerifyTracked ==
    /\ pc = "verify_tracked"
    /\ \/ /\ AllVerified
          /\ pc' = "remove"
          /\ UNCHANGED <<released, result, caller, at, failed, excused>>
       \/ /\ ~AllVerified
          /\ EndCleanup(FALSE)
          /\ UNCHANGED excused
       \/ EndCleanup(FALSE) /\ excused' = TRUE    \* symlink_metadata or the handle fails
    /\ UNCHANGED <<kind, owned, committed, identity, disk, touched>>

\* Bug: the second pass trusts the first.
MayRemoveUnverified(p) == TRUE

\* The second pass verifies each path again before it is removed.
MayRemove(p) == Verified(p)

Advance == at' = at + 1 /\ UNCHANGED <<pc, released, result, caller>>

RemoveOne ==
    /\ pc = "remove" /\ at <= Len(Tracked)
    /\ LET p == Tracked[at]
       IN  \/ /\ ~Owns(p) \/ entry[p] = "none"
              /\ Advance
              /\ UNCHANGED <<failed, entry, excused>>
           \/ /\ Owns(p) /\ entry[p] # "none" /\ MayRemove(p)
              /\ Advance
              /\ \/ /\ entry' = [entry EXCEPT ![p] = "none"]
                    /\ UNCHANGED <<failed, excused>>
                 \/ /\ failed' = TRUE
                    /\ excused' = TRUE
                    /\ UNCHANGED entry
           \/ /\ Owns(p) /\ entry[p] # "none" /\ ~MayRemove(p)
              /\ EndCleanup(FALSE)
              /\ UNCHANGED <<entry, excused>>
           \/ /\ Owns(p)                       \* the path cannot be inspected
              /\ EndCleanup(FALSE)
              /\ excused' = TRUE
              /\ UNCHANGED entry
    /\ UNCHANGED <<kind, owned, committed, identity, dir, stray, inode, durable, touched>>

(***************************************************************************)
(* remove_dir takes an empty directory only, whosever it is: its identity  *)
(* was verified when the cleanup began, and not again.                     *)
(***************************************************************************)
Empty == ~stray /\ \A p \in Paths : entry[p] = "none"

DirectoryGone == ~failed /\ Empty /\ dir # "absent"

RemoveDirectory ==
    /\ pc = "remove" /\ at > Len(Tracked)
    /\ \/ /\ DirectoryGone
          /\ dir' = "absent"
          /\ identity' = FALSE
          /\ EndCleanup(TRUE)
          /\ UNCHANGED excused
       \/ /\ ~DirectoryGone
          /\ EndCleanup(FALSE)
          /\ UNCHANGED <<dir, identity, excused>>
       \/ /\ EndCleanup(FALSE)
          /\ excused' = TRUE
          /\ UNCHANGED <<dir, identity>>
    /\ UNCHANGED <<kind, owned, committed, entry, stray, inode, durable, touched>>

CleanupPrecommit == VerifyDirectory \/ VerifyTracked \/ RemoveOne \/ RemoveDirectory

-----------------------------------------------------------------------------
(***************************************************************************)
(* Someone else: replaces or removes a file, creates one, or, while the    *)
(* scan runs, moves the reserved directory away and puts another there.    *)
(* The directory is not replaced during publication or cleanup: whoever    *)
(* can mutate the parent is trusted not to (docs/reporting.md:306-307).    *)
(***************************************************************************)
Running == pc \notin {"reserve", "done", "crashed"}

ForeignFile ==
    /\ Running
    /\ Cardinality(touched) < MaxTouched
    /\ \E p \in Paths \ touched :
          /\ \/ entry' = [entry EXCEPT ![p] = "foreign"]
             \/ entry' = [entry EXCEPT ![p] = "none"]
          /\ touched' = touched \cup {p}
    /\ excused' = TRUE
    /\ UNCHANGED <<program, dir, stray, inode, durable>>

ForeignStray ==
    /\ Running
    /\ ~stray
    /\ stray' = TRUE
    /\ excused' = TRUE
    /\ UNCHANGED <<program, dir, entry, inode, durable, touched>>

ForeignDirectory ==
    /\ pc = "reserved" /\ dir = "ours"
    /\ dir' = "foreign"
    /\ excused' = TRUE
    /\ UNCHANGED <<program, entry, stray, inode, durable, touched>>

(***************************************************************************)
(* The process is killed: no destructor runs.  Or the power goes: of each  *)
(* path the disk has what was synchronized or what came after, and of a    *)
(* file that was not synchronized, some part.                              *)
(***************************************************************************)
Kill ==
    /\ Running
    /\ pc' = "crashed"
    /\ UNCHANGED <<kind, owned, committed, released, identity, caller, at, failed, result>>
    /\ UNCHANGED <<disk, touched, excused>>

Unsynced == {p \in Paths : durable[p] # entry[p]}

Survivors ==
    {[p \in Paths |-> IF p \in lost THEN durable[p] ELSE entry[p]] : lost \in SUBSET Unsynced}

PowerLoss ==
    /\ Running
    /\ pc' = "crashed"
    /\ entry' \in Survivors
    /\ inode' = [k \in Kinds |-> IF inode[k] \in {"empty", "written"} THEN "partial" ELSE inode[k]]
    /\ UNCHANGED <<kind, owned, committed, released, identity, caller, at, failed, result>>
    /\ UNCHANGED <<dir, stray, durable, touched, excused>>

Program == Reserve \/ StartPublish \/ Discard \/ Publication \/ CleanupPrecommit

Next == Program \/ ForeignFile \/ ForeignStray \/ ForeignDirectory \/ Kill \/ PowerLoss

Spec == Init /\ [][Next]_vars

-----------------------------------------------------------------------------
Steps == {"reserve", "reserved", "create", "identify", "write", "sync", "link",
          "verify_final", "remove_temporary", "sync_payloads", "sync_committed",
          "verify_directory", "verify_tracked", "remove", "done", "crashed"}

References == {"none", "ours", "foreign"}

(***************************************************************************)
(* The publication's and the file system's state are of their types.       *)
(***************************************************************************)
TypeOK ==
    /\ pc \in Steps
    /\ kind \in Kinds
    /\ owned \in [Kinds -> [identity : BOOLEAN, temporary : BOOLEAN, final_path : BOOLEAN]]
    /\ committed \in BOOLEAN
    /\ released \in BOOLEAN
    /\ identity \in BOOLEAN
    /\ caller \in {"none", "publish", "abort", "drop"}
    /\ at \in 1 .. 7
    /\ failed \in BOOLEAN
    /\ result \in {"none", "no_identity", "not_reserved", "ok", "committed_error", "failed",
                   "failed_incomplete", "aborted", "aborted_incomplete"}
    /\ dir \in {"absent", "ours", "foreign"}
    /\ entry \in [Paths -> References]
    /\ stray \in BOOLEAN
    /\ inode \in [Kinds -> {"none", "empty", "partial", "written", "synced"}]
    /\ durable \in [Paths -> References]
    /\ touched \subseteq Paths
    /\ excused \in BOOLEAN

(***************************************************************************)
(* "The final manifest is the bundle's completion marker": where our       *)
(* manifest is visible, at any moment, after a kill or after a power loss, *)
(* it is whole, and so are both payloads under their final names unless    *)
(* someone else changed those (publish_inner, publish_file).               *)
(***************************************************************************)
ManifestMeansComplete ==
    entry[<<"manifest", "final">>] = "ours" =>
        /\ \A k \in Kinds : inode[k] = "synced"
        /\ \A k \in Payloads :
              entry[<<k, "final">>] = "ours" \/ <<k, "final">> \in touched

(***************************************************************************)
(* "Cleanup uncertainty is reported instead of deleting unknown contents": *)
(* no step of the program removes or overwrites a file, or removes a       *)
(* directory, that is not its own (verify_owned_path,                      *)
(* verify_directory_identity, create_new, hard_link).                      *)
(***************************************************************************)
ForeignIsSpared ==
    [][Program => /\ \A p \in Paths : entry[p] = "foreign" => entry'[p] = "foreign"
                  /\ dir = "foreign" => dir' = "foreign"]_vars

(***************************************************************************)
(* "If the manifest was committed but ... housekeeping later fails, the    *)
(* valid committed files are retained": once the manifest is visible no    *)
(* step of the program takes a final name away, whatever fails afterwards  *)
(* (the committed flag is set right after the link).                       *)
(***************************************************************************)
CommittedIsKept ==
    [][Program /\ entry[<<"manifest", "final">>] = "ours" =>
          \A k \in Kinds : entry'[<<k, "final">>] = entry[<<k, "final">>]]_vars

(***************************************************************************)
(* What the caller is told is so: after "completed" the three final names  *)
(* are there and no temporary one; after a clean failure or abort the      *)
(* directory is gone; and only a committed publication says it is.         *)
(***************************************************************************)
ReportIsTruthful ==
    pc = "done" =>
        /\ result = "ok" =>
              /\ \A k \in Kinds : entry[<<k, "final">>] = "ours" \/ <<k, "final">> \in touched
              /\ \A k \in Kinds : entry[<<k, "temporary">>] # "ours"
        /\ result \in {"failed", "aborted"} => dir = "absent"
        /\ (result \in {"ok", "committed_error"}) <=> committed

(***************************************************************************)
(* "Ordinary failures attempt to remove only known files ... and then only *)
(* an empty owned directory", and manage to: left alone, and with the      *)
(* cleanup's own calls succeeding, a publication that did not commit       *)
(* leaves no directory behind, whichever of its calls failed: every name   *)
(* it created is tracked.                                                  *)
(***************************************************************************)
NothingLeftBehind ==
    pc = "done" /\ ~committed /\ ~excused /\ result # "no_identity" => dir # "ours"

(***************************************************************************)
(* When publish, abort or drop returns, the directory is as the result     *)
(* says, and nothing the program created is forgotten, whichever calls     *)
(* failed; a failed write may have left part of the file behind (publish,  *)
(* cleanup_uncommitted).                                                   *)
(***************************************************************************)
ResultIsTruthful == TypeOK /\ ReportIsTruthful /\ NothingLeftBehind
=============================================================================
