------------------------- MODULE ReportBundleProofs -------------------------
(***************************************************************************)
(* What holds of a publication whichever call fails, wherever it is killed *)
(* and however many paths someone else changes.                            *)
(***************************************************************************)
EXTENDS ReportBundle, TLAPS

MF == <<"manifest", "final">>

PublishSteps == {"create", "identify", "write", "sync", "link", "verify_final",
                 "remove_temporary", "sync_payloads", "sync_committed"}
CommittedSteps == {"verify_final", "remove_temporary", "sync_committed", "done", "crashed"}

Visible(k) == entry[<<k, "final">>] = "ours" \/ <<k, "final">> \in touched
OnDisk(k) == durable[<<k, "final">>] = "ours" \/ <<k, "final">> \in touched

(***************************************************************************)
(* Which payloads are finished when a later file is worked on, and that    *)
(* they are on disk once the manifest is begun.                            *)
(***************************************************************************)
PayloadsInOrder ==
    /\ pc \in {"reserve", "reserved"} => kind = "html"
    /\ pc \in PublishSteps =>
        /\ kind # "html" => inode["html"] = "synced" /\ Visible("html")
        /\ kind = "manifest" => inode["json"] = "synced" /\ Visible("json")
        /\ kind = "manifest" /\ pc # "sync_payloads" => OnDisk("html") /\ OnDisk("json")

(***************************************************************************)
(* A file is linked only once it is synchronized.                          *)
(***************************************************************************)
LinkedIsSynced ==
    /\ pc \in {"link", "verify_final", "remove_temporary"} => inode[kind] = "synced"
    /\ pc \in {"verify_final", "remove_temporary"} => Visible(kind)
    /\ pc = "sync_committed" => inode["manifest"] = "synced"

(***************************************************************************)
(* The flag is never behind the link it stands for.                        *)
(***************************************************************************)
CommitIsFlagged ==
    /\ ~committed => entry[MF] # "ours" /\ durable[MF] # "ours"
    /\ committed => pc \in CommittedSteps /\ kind = "manifest"

(***************************************************************************)
(* The claim itself, and the same of what a power loss would leave.        *)
(***************************************************************************)
WholeWhenCommitted ==
    committed => /\ \A k \in Kinds : inode[k] = "synced"
                 /\ \A k \in Payloads : Visible(k) /\ OnDisk(k)

IInv == /\ TypeOK
        /\ PayloadsInOrder
        /\ LinkedIsSynced
        /\ CommitIsFlagged
        /\ WholeWhenCommitted

-----------------------------------------------------------------------------
LEMMA PathFacts ==
    /\ \A k \in Kinds : <<k, "temporary">> \in Paths /\ <<k, "final">> \in Paths
    /\ \A k, l \in Kinds : <<k, "temporary">> # <<l, "final">>
    /\ \A k, l \in Kinds : k # l => <<k, "final">> # <<l, "final">>
    /\ \A k, l \in Kinds : k # l => <<k, "temporary">> # <<l, "temporary">>
    /\ MF \in Paths
BY DEF Paths, Slots, Kinds, MF

(***************************************************************************)
(* The type invariant in two parts, for the two provers.                   *)
(***************************************************************************)
PlainType ==
    /\ pc \in Steps
    /\ kind \in Kinds
    /\ caller \in {"none", "publish", "abort", "drop"}
    /\ at \in 1 .. 7
    /\ result \in {"none", "no_identity", "not_reserved", "ok", "committed_error", "failed",
                   "failed_incomplete", "aborted", "aborted_incomplete"}
    /\ dir \in {"absent", "ours", "foreign"}
    /\ entry \in [Paths -> References]
    /\ inode \in [Kinds -> {"none", "empty", "partial", "written", "synced"}]
    /\ durable \in [Paths -> References]
    /\ touched \subseteq Paths

FlagType ==
    /\ owned \in [Kinds -> [identity : BOOLEAN, temporary : BOOLEAN, final_path : BOOLEAN]]
    /\ committed \in BOOLEAN
    /\ released \in BOOLEAN
    /\ identity \in BOOLEAN
    /\ failed \in BOOLEAN
    /\ stray \in BOOLEAN
    /\ excused \in BOOLEAN

LEMMA TypeParts == TypeOK <=> PlainType /\ FlagType
BY Zenon DEF TypeOK, PlainType, FlagType

LEMMA InitInv == Init => IInv
<1> SUFFICES ASSUME Init PROVE IInv
    OBVIOUS
<1>1. owned \in [Kinds -> [identity : BOOLEAN, temporary : BOOLEAN, final_path : BOOLEAN]]
    BY DEF Init, NotOwned
<1>2. entry \in [Paths -> References] /\ durable \in [Paths -> References]
    BY DEF Init, References
<1>6. PlainType
    BY SMT, <1>2 DEF Init, PlainType, Steps, Kinds
<1>7. FlagType
    BY Zenon, <1>1 DEF Init, FlagType
<1>3. TypeOK
    BY <1>6, <1>7, TypeParts
<1>4. PayloadsInOrder /\ LinkedIsSynced /\ WholeWhenCommitted
    BY DEF Init, PayloadsInOrder, LinkedIsSynced, WholeWhenCommitted, PublishSteps
<1>5. CommitIsFlagged
    BY PathFacts DEF Init, CommitIsFlagged
<1> QED
    BY <1>3, <1>4, <1>5 DEF IInv

OwnedType == [Kinds -> [identity : BOOLEAN, temporary : BOOLEAN, final_path : BOOLEAN]]

LEMMA OwnedUpdate ==
    ASSUME NEW o \in OwnedType, NEW k \in Kinds, NEW b \in BOOLEAN
    PROVE  /\ [o EXCEPT ![k].identity = b] \in OwnedType
           /\ [o EXCEPT ![k].temporary = b] \in OwnedType
           /\ [o EXCEPT ![k].final_path = b] \in OwnedType
BY ZenonT(60) DEF OwnedType

LEMMA ReserveTypes == TypeOK /\ Reserve => TypeOK'
<1> SUFFICES ASSUME TypeOK, Reserve PROVE TypeOK'
    OBVIOUS
<1>1. PlainType'
    BY SMT DEF Reserve, TypeOK, PlainType, Steps, Kinds, References, program, disk
<1>2. FlagType'
    BY Zenon DEF Reserve, TypeOK, FlagType, program, disk
<1> QED
    BY Zenon, <1>1, <1>2 DEF TypeOK, PlainType, FlagType

LEMMA StartPublishTypes == TypeOK /\ StartPublish => TypeOK'
<1> SUFFICES ASSUME TypeOK, StartPublish PROVE TypeOK'
    OBVIOUS
<1>1. PlainType'
    BY SMT DEF StartPublish, TypeOK, PlainType, Steps, Kinds, References, program, disk
<1>2. FlagType'
    BY Zenon DEF StartPublish, TypeOK, FlagType, program, disk
<1> QED
    BY Zenon, <1>1, <1>2 DEF TypeOK, PlainType, FlagType

LEMMA DiscardTypes == TypeOK /\ Discard => TypeOK'
<1> SUFFICES ASSUME TypeOK, Discard PROVE TypeOK'
    OBVIOUS
<1>1. PlainType'
    BY SMT DEF Discard, TypeOK, PlainType, Steps, Kinds, References, program, disk
<1>2. FlagType'
    BY Zenon DEF Discard, TypeOK, FlagType, program, disk
<1> QED
    BY Zenon, <1>1, <1>2 DEF TypeOK, PlainType, FlagType

LEMMA CreateTypes == TypeOK /\ Create => TypeOK'
<1> SUFFICES ASSUME TypeOK, Create PROVE TypeOK'
    OBVIOUS
<1>1. PlainType'
    BY SMT DEF Create, FailPublish, Goto, Temporary, TypeOK, PlainType, Steps, Kinds, References, program, disk
<1>2. FlagType'
  <2>1. owned \in OwnedType /\ kind \in Kinds
    BY Zenon DEF TypeOK, OwnedType
  <2>2. owned' \in OwnedType
    BY Zenon, <2>1, OwnedUpdate DEF Create, FailPublish, Goto, Temporary
  <2> QED
    BY Zenon, <2>2 DEF Create, FailPublish, Goto, Temporary, TypeOK, FlagType, OwnedType, program, disk
<1> QED
    BY Zenon, <1>1, <1>2 DEF TypeOK, PlainType, FlagType

LEMMA IdentifyTypes == TypeOK /\ Identify => TypeOK'
<1> SUFFICES ASSUME TypeOK, Identify PROVE TypeOK'
    OBVIOUS
<1>1. PlainType'
    BY SMT DEF Identify, FailPublish, Goto, TypeOK, PlainType, Steps, Kinds, References, program, disk
<1>2. FlagType'
  <2>1. owned \in OwnedType /\ kind \in Kinds
    BY Zenon DEF TypeOK, OwnedType
  <2>2. owned' \in OwnedType
    BY Zenon, <2>1, OwnedUpdate DEF Identify, FailPublish, Goto
  <2> QED
    BY Zenon, <2>2 DEF Identify, FailPublish, Goto, TypeOK, FlagType, OwnedType, program, disk
<1> QED
    BY Zenon, <1>1, <1>2 DEF TypeOK, PlainType, FlagType

LEMMA WriteTypes == TypeOK /\ Write => TypeOK'
<1> SUFFICES ASSUME TypeOK, Write PROVE TypeOK'
    OBVIOUS
<1>1. PlainType'
    BY SMT DEF Write, FailPublish, Goto, TypeOK, PlainType, Steps, Kinds, References, program, disk
<1>2. FlagType'
    BY Zenon DEF Write, FailPublish, Goto, TypeOK, FlagType, program, disk
<1> QED
    BY Zenon, <1>1, <1>2 DEF TypeOK, PlainType, FlagType

LEMMA SyncFileTypes == TypeOK /\ SyncFile => TypeOK'
<1> SUFFICES ASSUME TypeOK, SyncFile PROVE TypeOK'
    OBVIOUS
<1>1. PlainType'
    BY SMT DEF SyncFile, FailPublish, Goto, TypeOK, PlainType, Steps, Kinds, References, program, disk
<1>2. FlagType'
    BY Zenon DEF SyncFile, FailPublish, Goto, TypeOK, FlagType, program, disk
<1> QED
    BY Zenon, <1>1, <1>2 DEF TypeOK, PlainType, FlagType

LEMMA LinkTypes == TypeOK /\ Link => TypeOK'
<1> SUFFICES ASSUME TypeOK, Link PROVE TypeOK'
    OBVIOUS
<1>1. PlainType'
    BY SMT DEF Link, FailPublish, Goto, Temporary, Final, Commits, TrackedFinal, Verified, TypeOK, PlainType, Steps, Kinds, References, program, disk
<1>2. FlagType'
  <2>1. owned \in OwnedType /\ kind \in Kinds
    BY Zenon DEF TypeOK, OwnedType
  <2>2. owned' \in OwnedType
    BY Zenon, <2>1, OwnedUpdate DEF Link, FailPublish, Goto, Temporary, Final, Commits, TrackedFinal, Verified
  <2> QED
    BY Zenon, <2>2 DEF Link, FailPublish, Goto, Temporary, Final, Commits, TrackedFinal, Verified, TypeOK, FlagType, OwnedType, program, disk
<1> QED
    BY Zenon, <1>1, <1>2 DEF TypeOK, PlainType, FlagType

LEMMA VerifyFinalTypes == TypeOK /\ VerifyFinal => TypeOK'
<1> SUFFICES ASSUME TypeOK, VerifyFinal PROVE TypeOK'
    OBVIOUS
<1>1. PlainType'
    BY SMT DEF VerifyFinal, FailPublish, Goto, Verified, Final, TypeOK, PlainType, Steps, Kinds, References, program, disk
<1>2. FlagType'
    BY Zenon DEF VerifyFinal, FailPublish, Goto, Verified, Final, TypeOK, FlagType, program, disk
<1> QED
    BY Zenon, <1>1, <1>2 DEF TypeOK, PlainType, FlagType

LEMMA RemoveTemporaryTypes == TypeOK /\ RemoveTemporary => TypeOK'
<1> SUFFICES ASSUME TypeOK, RemoveTemporary PROVE TypeOK'
    OBVIOUS
<1>1. PlainType'
    BY SMT DEF RemoveTemporary, FailPublish, Goto, Temporary, Following, AfterFile, Verified, TypeOK, PlainType, Steps, Kinds, References, program, disk
<1>2. FlagType'
  <2>1. owned \in OwnedType /\ kind \in Kinds
    BY Zenon DEF TypeOK, OwnedType
  <2>2. owned' \in OwnedType
    BY Zenon, <2>1, OwnedUpdate DEF RemoveTemporary, FailPublish, Goto, Temporary, Following, AfterFile, Verified
  <2> QED
    BY Zenon, <2>2 DEF RemoveTemporary, FailPublish, Goto, Temporary, Following, AfterFile, Verified, TypeOK, FlagType, OwnedType, program, disk
<1> QED
    BY Zenon, <1>1, <1>2 DEF TypeOK, PlainType, FlagType

LEMMA SyncPayloadsTypes == TypeOK /\ SyncPayloads => TypeOK'
<1> SUFFICES ASSUME TypeOK, SyncPayloads PROVE TypeOK'
    OBVIOUS
<1>1. PlainType'
    BY SMT DEF SyncPayloads, FailPublish, Goto, SyncedEntries, TypeOK, PlainType, Steps, Kinds, References, program, disk
<1>2. FlagType'
    BY Zenon DEF SyncPayloads, FailPublish, Goto, SyncedEntries, TypeOK, FlagType, program, disk
<1> QED
    BY Zenon, <1>1, <1>2 DEF TypeOK, PlainType, FlagType

LEMMA SyncCommittedTypes == TypeOK /\ SyncCommitted => TypeOK'
<1> SUFFICES ASSUME TypeOK, SyncCommitted PROVE TypeOK'
    OBVIOUS
<1>1. PlainType'
    BY SMT DEF SyncCommitted, FailPublish, SyncedEntries, TypeOK, PlainType, Steps, Kinds, References, program, disk
<1>2. FlagType'
    BY Zenon DEF SyncCommitted, FailPublish, SyncedEntries, TypeOK, FlagType, program, disk
<1> QED
    BY Zenon, <1>1, <1>2 DEF TypeOK, PlainType, FlagType

LEMMA VerifyDirectoryTypes == TypeOK /\ VerifyDirectory => TypeOK'
<1> SUFFICES ASSUME TypeOK, VerifyDirectory PROVE TypeOK'
    OBVIOUS
<1>1. PlainType'
    BY SMT DEF VerifyDirectory, EndCleanup, Report, TypeOK, PlainType, Steps, Kinds, References, program, disk
<1>2. FlagType'
    BY Zenon DEF VerifyDirectory, EndCleanup, Report, TypeOK, FlagType, program, disk
<1> QED
    BY Zenon, <1>1, <1>2 DEF TypeOK, PlainType, FlagType

LEMMA VerifyTrackedTypes == TypeOK /\ VerifyTracked => TypeOK'
<1> SUFFICES ASSUME TypeOK, VerifyTracked PROVE TypeOK'
    OBVIOUS
<1>1. PlainType'
    BY SMT DEF VerifyTracked, EndCleanup, Report, TypeOK, PlainType, Steps, Kinds, References, program, disk
<1>2. FlagType'
    BY Zenon DEF VerifyTracked, EndCleanup, Report, TypeOK, FlagType, program, disk
<1> QED
    BY Zenon, <1>1, <1>2 DEF TypeOK, PlainType, FlagType

LEMMA RemoveOneTypes == TypeOK /\ RemoveOne => TypeOK'
<1> SUFFICES ASSUME TypeOK, RemoveOne PROVE TypeOK'
    OBVIOUS
<1>1. PlainType'
    BY SMT DEF RemoveOne, EndCleanup, Report, Advance, Tracked, TypeOK, PlainType, Steps, Kinds, References, program, disk
<1>2. FlagType'
    BY Zenon DEF RemoveOne, EndCleanup, Report, Advance, Tracked, TypeOK, FlagType, program, disk
<1> QED
    BY Zenon, <1>1, <1>2 DEF TypeOK, PlainType, FlagType

LEMMA RemoveDirectoryTypes == TypeOK /\ RemoveDirectory => TypeOK'
<1> SUFFICES ASSUME TypeOK, RemoveDirectory PROVE TypeOK'
    OBVIOUS
<1>1. PlainType'
    BY SMT DEF RemoveDirectory, EndCleanup, Report, TypeOK, PlainType, Steps, Kinds, References, program, disk
<1>2. FlagType'
    BY Zenon DEF RemoveDirectory, EndCleanup, Report, TypeOK, FlagType, program, disk
<1> QED
    BY Zenon, <1>1, <1>2 DEF TypeOK, PlainType, FlagType

LEMMA ForeignFileTypes == TypeOK /\ ForeignFile => TypeOK'
<1> SUFFICES ASSUME TypeOK, ForeignFile PROVE TypeOK'
    OBVIOUS
<1>1. PlainType'
    BY SMT DEF ForeignFile, Running, TypeOK, PlainType, Steps, Kinds, References, program, disk
<1>2. FlagType'
    BY Zenon DEF ForeignFile, Running, TypeOK, FlagType, program, disk
<1> QED
    BY Zenon, <1>1, <1>2 DEF TypeOK, PlainType, FlagType

LEMMA ForeignStrayTypes == TypeOK /\ ForeignStray => TypeOK'
<1> SUFFICES ASSUME TypeOK, ForeignStray PROVE TypeOK'
    OBVIOUS
<1>1. PlainType'
    BY SMT DEF ForeignStray, Running, TypeOK, PlainType, Steps, Kinds, References, program, disk
<1>2. FlagType'
    BY Zenon DEF ForeignStray, Running, TypeOK, FlagType, program, disk
<1> QED
    BY Zenon, <1>1, <1>2 DEF TypeOK, PlainType, FlagType

LEMMA ForeignDirectoryTypes == TypeOK /\ ForeignDirectory => TypeOK'
<1> SUFFICES ASSUME TypeOK, ForeignDirectory PROVE TypeOK'
    OBVIOUS
<1>1. PlainType'
    BY SMT DEF ForeignDirectory, TypeOK, PlainType, Steps, Kinds, References, program, disk
<1>2. FlagType'
    BY Zenon DEF ForeignDirectory, TypeOK, FlagType, program, disk
<1> QED
    BY Zenon, <1>1, <1>2 DEF TypeOK, PlainType, FlagType

LEMMA KillTypes == TypeOK /\ Kill => TypeOK'
<1> SUFFICES ASSUME TypeOK, Kill PROVE TypeOK'
    OBVIOUS
<1>1. PlainType'
    BY SMT DEF Kill, Running, TypeOK, PlainType, Steps, Kinds, References, program, disk
<1>2. FlagType'
    BY Zenon DEF Kill, Running, TypeOK, FlagType, program, disk
<1> QED
    BY Zenon, <1>1, <1>2 DEF TypeOK, PlainType, FlagType

LEMMA PowerLossTypes == TypeOK /\ PowerLoss => TypeOK'
<1> SUFFICES ASSUME TypeOK, PowerLoss PROVE TypeOK'
    OBVIOUS
<1>1. PlainType'
    BY SMT DEF PowerLoss, Running, Survivors, TypeOK, PlainType, Steps, Kinds, References, program, disk
<1>2. FlagType'
    BY Zenon DEF PowerLoss, Running, Survivors, TypeOK, FlagType, program, disk
<1> QED
    BY Zenon, <1>1, <1>2 DEF TypeOK, PlainType, FlagType

LEMMA ReserveKeeps == IInv /\ Reserve => (PayloadsInOrder /\ LinkedIsSynced /\ CommitIsFlagged /\ WholeWhenCommitted)'
<1> SUFFICES ASSUME IInv, Reserve
             PROVE  (PayloadsInOrder /\ LinkedIsSynced /\ CommitIsFlagged /\ WholeWhenCommitted)'
    OBVIOUS
<1> USE PathFacts DEF IInv, TypeOK, Reserve, program, disk, Kinds, Payloads, MF, Visible, OnDisk, PublishSteps, CommittedSteps, Steps
<1>1. PayloadsInOrder'
    BY DEF PayloadsInOrder, LinkedIsSynced, CommitIsFlagged
<1>2. LinkedIsSynced'
    BY DEF LinkedIsSynced
<1>3. CommitIsFlagged'
    BY DEF CommitIsFlagged
<1>4. WholeWhenCommitted'
    BY DEF WholeWhenCommitted, PayloadsInOrder, LinkedIsSynced, CommitIsFlagged
<1> QED
    BY <1>1, <1>2, <1>3, <1>4

LEMMA StartPublishKeeps == IInv /\ StartPublish => (PayloadsInOrder /\ LinkedIsSynced /\ CommitIsFlagged /\ WholeWhenCommitted)'
<1> SUFFICES ASSUME IInv, StartPublish
             PROVE  (PayloadsInOrder /\ LinkedIsSynced /\ CommitIsFlagged /\ WholeWhenCommitted)'
    OBVIOUS
<1> USE PathFacts DEF IInv, TypeOK, StartPublish, program, disk, Kinds, Payloads, MF, Visible, OnDisk, PublishSteps, CommittedSteps, Steps
<1>1. PayloadsInOrder'
    BY DEF PayloadsInOrder, LinkedIsSynced, CommitIsFlagged
<1>2. LinkedIsSynced'
    BY DEF LinkedIsSynced
<1>3. CommitIsFlagged'
    BY DEF CommitIsFlagged
<1>4. WholeWhenCommitted'
    BY DEF WholeWhenCommitted, PayloadsInOrder, LinkedIsSynced, CommitIsFlagged
<1> QED
    BY <1>1, <1>2, <1>3, <1>4

LEMMA DiscardKeeps == IInv /\ Discard => (PayloadsInOrder /\ LinkedIsSynced /\ CommitIsFlagged /\ WholeWhenCommitted)'
<1> SUFFICES ASSUME IInv, Discard
             PROVE  (PayloadsInOrder /\ LinkedIsSynced /\ CommitIsFlagged /\ WholeWhenCommitted)'
    OBVIOUS
<1> USE PathFacts DEF IInv, TypeOK, Discard, program, disk, Kinds, Payloads, MF, Visible, OnDisk, PublishSteps, CommittedSteps, Steps
<1>1. PayloadsInOrder'
    BY DEF PayloadsInOrder, LinkedIsSynced, CommitIsFlagged
<1>2. LinkedIsSynced'
    BY DEF LinkedIsSynced
<1>3. CommitIsFlagged'
    BY DEF CommitIsFlagged
<1>4. WholeWhenCommitted'
    BY DEF WholeWhenCommitted, PayloadsInOrder, LinkedIsSynced, CommitIsFlagged
<1> QED
    BY <1>1, <1>2, <1>3, <1>4

LEMMA CreateKeeps == IInv /\ Create => (PayloadsInOrder /\ LinkedIsSynced /\ CommitIsFlagged /\ WholeWhenCommitted)'
<1> SUFFICES ASSUME IInv, Create
             PROVE  (PayloadsInOrder /\ LinkedIsSynced /\ CommitIsFlagged /\ WholeWhenCommitted)'
    OBVIOUS
<1> USE PathFacts DEF IInv, TypeOK, Create, FailPublish, Goto, Temporary, program, disk, Kinds, Payloads, MF, Visible, OnDisk, PublishSteps, CommittedSteps, Steps
<1>1. PayloadsInOrder'
    BY DEF PayloadsInOrder, LinkedIsSynced, CommitIsFlagged
<1>2. LinkedIsSynced'
    BY DEF LinkedIsSynced
<1>3. CommitIsFlagged'
    BY DEF CommitIsFlagged
<1>4. WholeWhenCommitted'
    BY DEF WholeWhenCommitted, PayloadsInOrder, LinkedIsSynced, CommitIsFlagged
<1> QED
    BY <1>1, <1>2, <1>3, <1>4

LEMMA IdentifyKeeps == IInv /\ Identify => (PayloadsInOrder /\ LinkedIsSynced /\ CommitIsFlagged /\ WholeWhenCommitted)'
<1> SUFFICES ASSUME IInv, Identify
             PROVE  (PayloadsInOrder /\ LinkedIsSynced /\ CommitIsFlagged /\ WholeWhenCommitted)'
    OBVIOUS
<1> USE PathFacts DEF IInv, TypeOK, Identify, FailPublish, Goto, program, disk, Kinds, Payloads, MF, Visible, OnDisk, PublishSteps, CommittedSteps, Steps
<1>1. PayloadsInOrder'
    BY DEF PayloadsInOrder, LinkedIsSynced, CommitIsFlagged
<1>2. LinkedIsSynced'
    BY DEF LinkedIsSynced
<1>3. CommitIsFlagged'
    BY DEF CommitIsFlagged
<1>4. WholeWhenCommitted'
    BY DEF WholeWhenCommitted, PayloadsInOrder, LinkedIsSynced, CommitIsFlagged
<1> QED
    BY <1>1, <1>2, <1>3, <1>4

LEMMA WriteKeeps == IInv /\ Write => (PayloadsInOrder /\ LinkedIsSynced /\ CommitIsFlagged /\ WholeWhenCommitted)'
<1> SUFFICES ASSUME IInv, Write
             PROVE  (PayloadsInOrder /\ LinkedIsSynced /\ CommitIsFlagged /\ WholeWhenCommitted)'
    OBVIOUS
<1> USE PathFacts DEF IInv, TypeOK, Write, FailPublish, Goto, program, disk, Kinds, Payloads, MF, Visible, OnDisk, PublishSteps, CommittedSteps, Steps
<1>1. PayloadsInOrder'
    BY DEF PayloadsInOrder, LinkedIsSynced, CommitIsFlagged
<1>2. LinkedIsSynced'
    BY DEF LinkedIsSynced
<1>3. CommitIsFlagged'
    BY DEF CommitIsFlagged
<1>4. WholeWhenCommitted'
    BY DEF WholeWhenCommitted, PayloadsInOrder, LinkedIsSynced, CommitIsFlagged
<1> QED
    BY <1>1, <1>2, <1>3, <1>4

LEMMA SyncFileKeeps == IInv /\ SyncFile => (PayloadsInOrder /\ LinkedIsSynced /\ CommitIsFlagged /\ WholeWhenCommitted)'
<1> SUFFICES ASSUME IInv, SyncFile
             PROVE  (PayloadsInOrder /\ LinkedIsSynced /\ CommitIsFlagged /\ WholeWhenCommitted)'
    OBVIOUS
<1> USE PathFacts DEF IInv, TypeOK, SyncFile, FailPublish, Goto, program, disk, Kinds, Payloads, MF, Visible, OnDisk, PublishSteps, CommittedSteps, Steps
<1>1. PayloadsInOrder'
    BY DEF PayloadsInOrder, LinkedIsSynced, CommitIsFlagged
<1>2. LinkedIsSynced'
    BY DEF LinkedIsSynced
<1>3. CommitIsFlagged'
    BY DEF CommitIsFlagged
<1>4. WholeWhenCommitted'
    BY DEF WholeWhenCommitted, PayloadsInOrder, LinkedIsSynced, CommitIsFlagged
<1> QED
    BY <1>1, <1>2, <1>3, <1>4

LEMMA LinkKeeps == IInv /\ Link => (PayloadsInOrder /\ LinkedIsSynced /\ CommitIsFlagged /\ WholeWhenCommitted)'
<1> SUFFICES ASSUME IInv, Link
             PROVE  (PayloadsInOrder /\ LinkedIsSynced /\ CommitIsFlagged /\ WholeWhenCommitted)'
    OBVIOUS
<1> USE PathFacts DEF IInv, TypeOK, Link, FailPublish, Goto, Temporary, Final, Commits, TrackedFinal, Verified, program, disk, Kinds, Payloads, MF, Visible, OnDisk, PublishSteps, CommittedSteps, Steps
<1>1. PayloadsInOrder'
    BY DEF PayloadsInOrder, LinkedIsSynced, CommitIsFlagged
<1>2. LinkedIsSynced'
    BY DEF LinkedIsSynced
<1>3. CommitIsFlagged'
    BY DEF CommitIsFlagged
<1>4. WholeWhenCommitted'
  <2>1. CASE kind = "manifest"
    <3>1. \A k \in Kinds : inode[k] = "synced"
        BY <2>1 DEF PayloadsInOrder, LinkedIsSynced
    <3>2. \A k \in Payloads : Visible(k) /\ OnDisk(k)
        BY <2>1 DEF PayloadsInOrder
    <3>3. \A k \in Payloads : (Visible(k) /\ OnDisk(k))'
        BY <3>2, <2>1
    <3> QED
        BY <3>1, <3>3 DEF WholeWhenCommitted
  <2>2. CASE kind # "manifest"
    <3>1. ~committed
        BY DEF CommitIsFlagged
    <3>2. ~committed'
        BY Zenon, <3>1, <2>2
    <3> QED
        BY <3>2 DEF WholeWhenCommitted
  <2> QED
    BY <2>1, <2>2
<1> QED
    BY <1>1, <1>2, <1>3, <1>4

LEMMA VerifyFinalKeeps == IInv /\ VerifyFinal => (PayloadsInOrder /\ LinkedIsSynced /\ CommitIsFlagged /\ WholeWhenCommitted)'
<1> SUFFICES ASSUME IInv, VerifyFinal
             PROVE  (PayloadsInOrder /\ LinkedIsSynced /\ CommitIsFlagged /\ WholeWhenCommitted)'
    OBVIOUS
<1> USE PathFacts DEF IInv, TypeOK, VerifyFinal, FailPublish, Goto, Verified, Final, program, disk, Kinds, Payloads, MF, Visible, OnDisk, PublishSteps, CommittedSteps, Steps
<1>1. PayloadsInOrder'
    BY DEF PayloadsInOrder, LinkedIsSynced, CommitIsFlagged
<1>2. LinkedIsSynced'
    BY DEF LinkedIsSynced
<1>3. CommitIsFlagged'
    BY DEF CommitIsFlagged
<1>4. WholeWhenCommitted'
    BY DEF WholeWhenCommitted, PayloadsInOrder, LinkedIsSynced, CommitIsFlagged
<1> QED
    BY <1>1, <1>2, <1>3, <1>4

LEMMA RemoveTemporaryKeeps == IInv /\ RemoveTemporary => (PayloadsInOrder /\ LinkedIsSynced /\ CommitIsFlagged /\ WholeWhenCommitted)'
<1> SUFFICES ASSUME IInv, RemoveTemporary
             PROVE  (PayloadsInOrder /\ LinkedIsSynced /\ CommitIsFlagged /\ WholeWhenCommitted)'
    OBVIOUS
<1> USE PathFacts DEF IInv, TypeOK, RemoveTemporary, FailPublish, Goto, Temporary, Following, AfterFile, Verified, program, disk, Kinds, Payloads, MF, Visible, OnDisk, PublishSteps, CommittedSteps, Steps
<1>1. PayloadsInOrder'
    BY DEF PayloadsInOrder, LinkedIsSynced, CommitIsFlagged
<1>2. LinkedIsSynced'
    BY DEF LinkedIsSynced
<1>3. CommitIsFlagged'
    BY DEF CommitIsFlagged
<1>4. WholeWhenCommitted'
    BY DEF WholeWhenCommitted, PayloadsInOrder, LinkedIsSynced, CommitIsFlagged
<1> QED
    BY <1>1, <1>2, <1>3, <1>4

LEMMA SyncPayloadsKeeps == IInv /\ SyncPayloads => (PayloadsInOrder /\ LinkedIsSynced /\ CommitIsFlagged /\ WholeWhenCommitted)'
<1> SUFFICES ASSUME IInv, SyncPayloads
             PROVE  (PayloadsInOrder /\ LinkedIsSynced /\ CommitIsFlagged /\ WholeWhenCommitted)'
    OBVIOUS
<1> USE PathFacts DEF IInv, TypeOK, SyncPayloads, FailPublish, Goto, SyncedEntries, program, disk, Kinds, Payloads, MF, Visible, OnDisk, PublishSteps, CommittedSteps, Steps
<1>1. PayloadsInOrder'
    BY DEF PayloadsInOrder, LinkedIsSynced, CommitIsFlagged
<1>2. LinkedIsSynced'
    BY DEF LinkedIsSynced
<1>3. CommitIsFlagged'
    BY DEF CommitIsFlagged
<1>4. WholeWhenCommitted'
    BY DEF WholeWhenCommitted, PayloadsInOrder, LinkedIsSynced, CommitIsFlagged
<1> QED
    BY <1>1, <1>2, <1>3, <1>4

LEMMA SyncCommittedKeeps == IInv /\ SyncCommitted => (PayloadsInOrder /\ LinkedIsSynced /\ CommitIsFlagged /\ WholeWhenCommitted)'
<1> SUFFICES ASSUME IInv, SyncCommitted
             PROVE  (PayloadsInOrder /\ LinkedIsSynced /\ CommitIsFlagged /\ WholeWhenCommitted)'
    OBVIOUS
<1> USE PathFacts DEF IInv, TypeOK, SyncCommitted, FailPublish, SyncedEntries, program, disk, Kinds, Payloads, MF, Visible, OnDisk, PublishSteps, CommittedSteps, Steps
<1>1. PayloadsInOrder'
    BY DEF PayloadsInOrder, LinkedIsSynced, CommitIsFlagged
<1>2. LinkedIsSynced'
    BY DEF LinkedIsSynced
<1>3. CommitIsFlagged'
    BY DEF CommitIsFlagged
<1>4. WholeWhenCommitted'
    BY DEF WholeWhenCommitted, PayloadsInOrder, LinkedIsSynced, CommitIsFlagged
<1> QED
    BY <1>1, <1>2, <1>3, <1>4

LEMMA VerifyDirectoryKeeps == IInv /\ VerifyDirectory => (PayloadsInOrder /\ LinkedIsSynced /\ CommitIsFlagged /\ WholeWhenCommitted)'
<1> SUFFICES ASSUME IInv, VerifyDirectory
             PROVE  (PayloadsInOrder /\ LinkedIsSynced /\ CommitIsFlagged /\ WholeWhenCommitted)'
    OBVIOUS
<1> USE PathFacts DEF IInv, TypeOK, VerifyDirectory, EndCleanup, Report, program, disk, Kinds, Payloads, MF, Visible, OnDisk, PublishSteps, CommittedSteps, Steps
<1>1. PayloadsInOrder'
    BY DEF PayloadsInOrder, LinkedIsSynced, CommitIsFlagged
<1>2. LinkedIsSynced'
    BY DEF LinkedIsSynced
<1>3. CommitIsFlagged'
    BY DEF CommitIsFlagged
<1>4. WholeWhenCommitted'
    BY DEF WholeWhenCommitted, PayloadsInOrder, LinkedIsSynced, CommitIsFlagged
<1> QED
    BY <1>1, <1>2, <1>3, <1>4

LEMMA VerifyTrackedKeeps == IInv /\ VerifyTracked => (PayloadsInOrder /\ LinkedIsSynced /\ CommitIsFlagged /\ WholeWhenCommitted)'
<1> SUFFICES ASSUME IInv, VerifyTracked
             PROVE  (PayloadsInOrder /\ LinkedIsSynced /\ CommitIsFlagged /\ WholeWhenCommitted)'
    OBVIOUS
<1> USE PathFacts DEF IInv, TypeOK, VerifyTracked, EndCleanup, Report, program, disk, Kinds, Payloads, MF, Visible, OnDisk, PublishSteps, CommittedSteps, Steps
<1>1. PayloadsInOrder'
    BY DEF PayloadsInOrder, LinkedIsSynced, CommitIsFlagged
<1>2. LinkedIsSynced'
    BY DEF LinkedIsSynced
<1>3. CommitIsFlagged'
    BY DEF CommitIsFlagged
<1>4. WholeWhenCommitted'
    BY DEF WholeWhenCommitted, PayloadsInOrder, LinkedIsSynced, CommitIsFlagged
<1> QED
    BY <1>1, <1>2, <1>3, <1>4

LEMMA RemoveOneKeeps == IInv /\ RemoveOne => (PayloadsInOrder /\ LinkedIsSynced /\ CommitIsFlagged /\ WholeWhenCommitted)'
<1> SUFFICES ASSUME IInv, RemoveOne
             PROVE  (PayloadsInOrder /\ LinkedIsSynced /\ CommitIsFlagged /\ WholeWhenCommitted)'
    OBVIOUS
<1> USE PathFacts DEF IInv, TypeOK, RemoveOne, EndCleanup, Report, Advance, Tracked, program, disk, Kinds, Payloads, MF, Visible, OnDisk, PublishSteps, CommittedSteps, Steps
<1>1. PayloadsInOrder'
    BY DEF PayloadsInOrder, LinkedIsSynced, CommitIsFlagged
<1>2. LinkedIsSynced'
    BY DEF LinkedIsSynced
<1>3. CommitIsFlagged'
    BY DEF CommitIsFlagged
<1>4. WholeWhenCommitted'
    BY DEF WholeWhenCommitted, PayloadsInOrder, LinkedIsSynced, CommitIsFlagged
<1> QED
    BY <1>1, <1>2, <1>3, <1>4

LEMMA RemoveDirectoryKeeps == IInv /\ RemoveDirectory => (PayloadsInOrder /\ LinkedIsSynced /\ CommitIsFlagged /\ WholeWhenCommitted)'
<1> SUFFICES ASSUME IInv, RemoveDirectory
             PROVE  (PayloadsInOrder /\ LinkedIsSynced /\ CommitIsFlagged /\ WholeWhenCommitted)'
    OBVIOUS
<1> USE PathFacts DEF IInv, TypeOK, RemoveDirectory, EndCleanup, Report, program, disk, Kinds, Payloads, MF, Visible, OnDisk, PublishSteps, CommittedSteps, Steps
<1>1. PayloadsInOrder'
    BY DEF PayloadsInOrder, LinkedIsSynced, CommitIsFlagged
<1>2. LinkedIsSynced'
    BY DEF LinkedIsSynced
<1>3. CommitIsFlagged'
    BY DEF CommitIsFlagged
<1>4. WholeWhenCommitted'
    BY DEF WholeWhenCommitted, PayloadsInOrder, LinkedIsSynced, CommitIsFlagged
<1> QED
    BY <1>1, <1>2, <1>3, <1>4

LEMMA ForeignFileKeeps == IInv /\ ForeignFile => (PayloadsInOrder /\ LinkedIsSynced /\ CommitIsFlagged /\ WholeWhenCommitted)'
<1> SUFFICES ASSUME IInv, ForeignFile
             PROVE  (PayloadsInOrder /\ LinkedIsSynced /\ CommitIsFlagged /\ WholeWhenCommitted)'
    OBVIOUS
<1> USE PathFacts DEF IInv, TypeOK, ForeignFile, Running, program, disk, Kinds, Payloads, MF, Visible, OnDisk, PublishSteps, CommittedSteps, Steps
<1>1. PayloadsInOrder'
    BY DEF PayloadsInOrder, LinkedIsSynced, CommitIsFlagged
<1>2. LinkedIsSynced'
    BY DEF LinkedIsSynced
<1>3. CommitIsFlagged'
    BY DEF CommitIsFlagged
<1>4. WholeWhenCommitted'
    BY DEF WholeWhenCommitted, PayloadsInOrder, LinkedIsSynced, CommitIsFlagged
<1> QED
    BY <1>1, <1>2, <1>3, <1>4

LEMMA ForeignStrayKeeps == IInv /\ ForeignStray => (PayloadsInOrder /\ LinkedIsSynced /\ CommitIsFlagged /\ WholeWhenCommitted)'
<1> SUFFICES ASSUME IInv, ForeignStray
             PROVE  (PayloadsInOrder /\ LinkedIsSynced /\ CommitIsFlagged /\ WholeWhenCommitted)'
    OBVIOUS
<1> USE PathFacts DEF IInv, TypeOK, ForeignStray, Running, program, disk, Kinds, Payloads, MF, Visible, OnDisk, PublishSteps, CommittedSteps, Steps
<1>1. PayloadsInOrder'
    BY DEF PayloadsInOrder, LinkedIsSynced, CommitIsFlagged
<1>2. LinkedIsSynced'
    BY DEF LinkedIsSynced
<1>3. CommitIsFlagged'
    BY DEF CommitIsFlagged
<1>4. WholeWhenCommitted'
    BY DEF WholeWhenCommitted, PayloadsInOrder, LinkedIsSynced, CommitIsFlagged
<1> QED
    BY <1>1, <1>2, <1>3, <1>4

LEMMA ForeignDirectoryKeeps == IInv /\ ForeignDirectory => (PayloadsInOrder /\ LinkedIsSynced /\ CommitIsFlagged /\ WholeWhenCommitted)'
<1> SUFFICES ASSUME IInv, ForeignDirectory
             PROVE  (PayloadsInOrder /\ LinkedIsSynced /\ CommitIsFlagged /\ WholeWhenCommitted)'
    OBVIOUS
<1> USE PathFacts DEF IInv, TypeOK, ForeignDirectory, program, disk, Kinds, Payloads, MF, Visible, OnDisk, PublishSteps, CommittedSteps, Steps
<1>1. PayloadsInOrder'
    BY DEF PayloadsInOrder, LinkedIsSynced, CommitIsFlagged
<1>2. LinkedIsSynced'
    BY DEF LinkedIsSynced
<1>3. CommitIsFlagged'
    BY DEF CommitIsFlagged
<1>4. WholeWhenCommitted'
    BY DEF WholeWhenCommitted, PayloadsInOrder, LinkedIsSynced, CommitIsFlagged
<1> QED
    BY <1>1, <1>2, <1>3, <1>4

LEMMA KillKeeps == IInv /\ Kill => (PayloadsInOrder /\ LinkedIsSynced /\ CommitIsFlagged /\ WholeWhenCommitted)'
<1> SUFFICES ASSUME IInv, Kill
             PROVE  (PayloadsInOrder /\ LinkedIsSynced /\ CommitIsFlagged /\ WholeWhenCommitted)'
    OBVIOUS
<1> USE PathFacts DEF IInv, TypeOK, Kill, Running, program, disk, Kinds, Payloads, MF, Visible, OnDisk, PublishSteps, CommittedSteps, Steps
<1>1. PayloadsInOrder'
    BY DEF PayloadsInOrder, LinkedIsSynced, CommitIsFlagged
<1>2. LinkedIsSynced'
    BY DEF LinkedIsSynced
<1>3. CommitIsFlagged'
    BY DEF CommitIsFlagged
<1>4. WholeWhenCommitted'
    BY DEF WholeWhenCommitted, PayloadsInOrder, LinkedIsSynced, CommitIsFlagged
<1> QED
    BY <1>1, <1>2, <1>3, <1>4

LEMMA PowerLossKeeps == IInv /\ PowerLoss => (PayloadsInOrder /\ LinkedIsSynced /\ CommitIsFlagged /\ WholeWhenCommitted)'
<1> SUFFICES ASSUME IInv, PowerLoss
             PROVE  (PayloadsInOrder /\ LinkedIsSynced /\ CommitIsFlagged /\ WholeWhenCommitted)'
    OBVIOUS
<1> USE PathFacts DEF IInv, TypeOK, PowerLoss, Running, Survivors, program, disk, Kinds, Payloads, MF, Visible, OnDisk, PublishSteps, CommittedSteps, Steps
<1>1. PayloadsInOrder'
    BY DEF PayloadsInOrder, LinkedIsSynced, CommitIsFlagged
<1>2. LinkedIsSynced'
    BY DEF LinkedIsSynced
<1>3. CommitIsFlagged'
    BY DEF CommitIsFlagged
<1>4. WholeWhenCommitted'
    BY DEF WholeWhenCommitted, PayloadsInOrder, LinkedIsSynced, CommitIsFlagged
<1> QED
    BY <1>1, <1>2, <1>3, <1>4

-----------------------------------------------------------------------------
LEMMA NextInv == IInv /\ [Next]_vars => IInv'
<1> SUFFICES ASSUME IInv, [Next]_vars PROVE IInv'
    OBVIOUS
<1>0. TypeOK
    BY DEF IInv
<1>1. CASE Reserve
    BY <1>0, <1>1, ReserveTypes, ReserveKeeps DEF IInv
<1>2. CASE StartPublish
    BY <1>0, <1>2, StartPublishTypes, StartPublishKeeps DEF IInv
<1>3. CASE Discard
    BY <1>0, <1>3, DiscardTypes, DiscardKeeps DEF IInv
<1>4. CASE Create
    BY <1>0, <1>4, CreateTypes, CreateKeeps DEF IInv
<1>5. CASE Identify
    BY <1>0, <1>5, IdentifyTypes, IdentifyKeeps DEF IInv
<1>6. CASE Write
    BY <1>0, <1>6, WriteTypes, WriteKeeps DEF IInv
<1>7. CASE SyncFile
    BY <1>0, <1>7, SyncFileTypes, SyncFileKeeps DEF IInv
<1>8. CASE Link
    BY <1>0, <1>8, LinkTypes, LinkKeeps DEF IInv
<1>9. CASE VerifyFinal
    BY <1>0, <1>9, VerifyFinalTypes, VerifyFinalKeeps DEF IInv
<1>10. CASE RemoveTemporary
    BY <1>0, <1>10, RemoveTemporaryTypes, RemoveTemporaryKeeps DEF IInv
<1>11. CASE SyncPayloads
    BY <1>0, <1>11, SyncPayloadsTypes, SyncPayloadsKeeps DEF IInv
<1>12. CASE SyncCommitted
    BY <1>0, <1>12, SyncCommittedTypes, SyncCommittedKeeps DEF IInv
<1>13. CASE VerifyDirectory
    BY <1>0, <1>13, VerifyDirectoryTypes, VerifyDirectoryKeeps DEF IInv
<1>14. CASE VerifyTracked
    BY <1>0, <1>14, VerifyTrackedTypes, VerifyTrackedKeeps DEF IInv
<1>15. CASE RemoveOne
    BY <1>0, <1>15, RemoveOneTypes, RemoveOneKeeps DEF IInv
<1>16. CASE RemoveDirectory
    BY <1>0, <1>16, RemoveDirectoryTypes, RemoveDirectoryKeeps DEF IInv
<1>17. CASE ForeignFile
    BY <1>0, <1>17, ForeignFileTypes, ForeignFileKeeps DEF IInv
<1>18. CASE ForeignStray
    BY <1>0, <1>18, ForeignStrayTypes, ForeignStrayKeeps DEF IInv
<1>19. CASE ForeignDirectory
    BY <1>0, <1>19, ForeignDirectoryTypes, ForeignDirectoryKeeps DEF IInv
<1>20. CASE Kill
    BY <1>0, <1>20, KillTypes, KillKeeps DEF IInv
<1>21. CASE PowerLoss
    BY <1>0, <1>21, PowerLossTypes, PowerLossKeeps DEF IInv
<1>22. CASE UNCHANGED vars
  <2>3. PlainType'
    BY SMT, <1>0, <1>22 DEF TypeOK, PlainType, vars, program, disk
  <2>4. FlagType'
    BY Zenon, <1>0, <1>22 DEF TypeOK, FlagType, vars, program, disk
  <2>1. TypeOK'
    BY Zenon, <2>3, <2>4 DEF TypeOK, PlainType, FlagType
  <2>2. (PayloadsInOrder /\ LinkedIsSynced /\ CommitIsFlagged /\ WholeWhenCommitted)'
    BY Zenon, <1>22 DEF IInv, PayloadsInOrder, LinkedIsSynced, CommitIsFlagged, WholeWhenCommitted,
       Visible, OnDisk, vars, program, disk
  <2> QED
    BY <2>1, <2>2 DEF IInv
<1> QED
    BY <1>1, <1>2, <1>3, <1>4, <1>5, <1>6, <1>7, <1>8, <1>9, <1>10, <1>11, <1>12, <1>13, <1>14, <1>15, <1>16, <1>17, <1>18, <1>19, <1>20, <1>21, <1>22 DEF Next, Program, Publication, CleanupPrecommit

(***************************************************************************)
(* The inductive invariant holds of every publication: the flag is never   *)
(* behind the manifest's link, and by then both payloads are synchronized  *)
(* under their final names (publish_inner).                                *)
(***************************************************************************)
THEOREM InvariantHolds == Spec => []IInv
<1> QED
    BY InitInv, NextInv, PTL DEF Spec

(***************************************************************************)
(* Every reachable state of a publication is well formed: in particular no *)
(* destructor's cleanup reports a result of its own, and the cleanup never *)
(* looks past the paths it tracks.                                         *)
(***************************************************************************)
THEOREM TypeCorrect == Spec => []TypeOK
<1>1. IInv => TypeOK
    BY DEF IInv
<1> QED
    BY <1>1, InvariantHolds, PTL

(***************************************************************************)
(* A visible manifest means a complete bundle, at every moment and after   *)
(* every crash, whatever fails and however many paths someone else         *)
(* changes (publish_inner, publish_file).                                  *)
(***************************************************************************)
THEOREM ManifestComplete == Spec => []ManifestMeansComplete
<1>1. IInv => ManifestMeansComplete
    BY DEF IInv, CommitIsFlagged, WholeWhenCommitted, ManifestMeansComplete, MF, Visible
<1> QED
    BY <1>1, InvariantHolds, PTL

(***************************************************************************)
(* Nothing the program does after the manifest's link takes a final name   *)
(* away (the committed flag, publish's error path).                        *)
(***************************************************************************)
THEOREM CommittedKept == Spec => CommittedIsKept
<1> DEFINE Kept == Program /\ entry[<<"manifest", "final">>] = "ours" =>
                      \A k \in Kinds : entry'[<<k, "final">>] = entry[<<k, "final">>]
<1>1. IInv /\ [Next]_vars => [Kept]_vars
  <2> SUFFICES ASSUME IInv, Program, entry[<<"manifest", "final">>] = "ours"
               PROVE  \A k \in Kinds : entry'[<<k, "final">>] = entry[<<k, "final">>]
    OBVIOUS
  <2>1. pc \in CommittedSteps /\ kind = "manifest" /\ entry \in [Paths -> References]
    BY DEF IInv, TypeOK, CommitIsFlagged, MF
  <2>2. CASE RemoveTemporary
    BY <2>1, <2>2, PathFacts DEF RemoveTemporary, Temporary, Kinds
  <2>3. CASE VerifyFinal \/ SyncCommitted
    BY <2>3 DEF VerifyFinal, SyncCommitted, disk
  <2> QED
    BY <2>1, <2>2, <2>3 DEF CommittedSteps, Program, Publication, CleanupPrecommit, Reserve,
       StartPublish, Discard, Create, Identify, Write, SyncFile, Link, SyncPayloads,
       VerifyDirectory, VerifyTracked, RemoveOne, RemoveDirectory
<1>2. Spec => [][Kept]_vars
    BY <1>1, InvariantHolds, PTL DEF Spec
<1> QED
    BY <1>2 DEF CommittedIsKept

(***************************************************************************)
(* Past its first check the cleanup works in the directory it reserved,    *)
(* which is why remove_dir need not ask again.                             *)
(***************************************************************************)
CleansItsOwn == pc \in {"verify_tracked", "remove"} => dir = "ours"

LEMMA OwnDirectoryKept == IInv /\ CleansItsOwn /\ [Next]_vars => CleansItsOwn'
<1> SUFFICES ASSUME IInv, CleansItsOwn, [Next]_vars PROVE CleansItsOwn'
    OBVIOUS
<1> USE DEF CleansItsOwn, program, disk
<1>1. CASE Reserve
    BY <1>1 DEF Reserve
<1>2. CASE StartPublish
    BY <1>2 DEF StartPublish
<1>3. CASE Discard
    BY <1>3 DEF Discard
<1>4. CASE Create
    BY <1>4 DEF Create, FailPublish, Goto
<1>5. CASE Identify
    BY <1>5 DEF Identify, FailPublish, Goto
<1>6. CASE Write
    BY <1>6 DEF Write, FailPublish, Goto
<1>7. CASE SyncFile
    BY <1>7 DEF SyncFile, FailPublish, Goto
<1>8. CASE Link
    BY <1>8 DEF Link, FailPublish, Goto
<1>9. CASE VerifyFinal
    BY <1>9 DEF VerifyFinal, FailPublish, Goto
<1>10. CASE RemoveTemporary
  <2>1. kind \in Kinds
    BY DEF IInv, TypeOK
  <2>2. AfterFile[kind] \in {"create", "sync_payloads", "sync_committed"}
    BY <2>1 DEF AfterFile, Kinds
  <2> QED
    BY <1>10, <2>2 DEF RemoveTemporary, FailPublish, Goto
<1>11. CASE SyncPayloads
    BY <1>11 DEF SyncPayloads, FailPublish, Goto
<1>12. CASE SyncCommitted
    BY <1>12 DEF SyncCommitted, FailPublish, Goto
<1>13. CASE VerifyDirectory
    BY <1>13 DEF VerifyDirectory, EndCleanup
<1>14. CASE VerifyTracked
    BY <1>14 DEF VerifyTracked, EndCleanup
<1>15. CASE RemoveOne
    BY <1>15 DEF RemoveOne, EndCleanup, Advance
<1>16. CASE RemoveDirectory
    BY <1>16 DEF RemoveDirectory, EndCleanup
<1>17. CASE ForeignFile
    BY <1>17 DEF ForeignFile
<1>18. CASE ForeignStray
    BY <1>18 DEF ForeignStray
<1>19. CASE ForeignDirectory
    BY <1>19 DEF ForeignDirectory
<1>20. CASE Kill
    BY <1>20 DEF Kill
<1>21. CASE PowerLoss
    BY <1>21 DEF PowerLoss
<1>22. CASE UNCHANGED vars
    BY <1>22 DEF vars
<1> QED
    BY <1>1, <1>2, <1>3, <1>4, <1>5, <1>6, <1>7, <1>8, <1>9, <1>10, <1>11, <1>12, <1>13, <1>14,
       <1>15, <1>16, <1>17, <1>18, <1>19, <1>20, <1>21, <1>22 DEF Next, Program, Publication,
       CleanupPrecommit

(***************************************************************************)
(* No step of the program removes or overwrites what is not its own        *)
(* (verify_owned_path, verify_directory_identity, create_new, hard_link).  *)
(***************************************************************************)
THEOREM ForeignSpared == Spec => ForeignIsSpared
<1> DEFINE Spared == Program => /\ \A p \in Paths : entry[p] = "foreign" => entry'[p] = "foreign"
                                /\ dir = "foreign" => dir' = "foreign"
<1>1. IInv /\ CleansItsOwn /\ [Next]_vars => [Spared]_vars
  <2> SUFFICES ASSUME IInv, CleansItsOwn, Program PROVE Spared
    OBVIOUS
  <2>0. entry \in [Paths -> References]
    BY DEF IInv, TypeOK
  <2> HIDE DEF Spared
  <2>1. CASE Reserve
    BY <2>0, <2>1 DEF Spared, Reserve, disk
  <2>2. CASE StartPublish
    BY <2>0, <2>2 DEF Spared, StartPublish, disk
  <2>3. CASE Discard
    BY <2>0, <2>3 DEF Spared, Discard, disk
  <2>4. CASE Create
    BY <2>0, <2>4 DEF Spared, Create, Temporary, Goto, FailPublish, disk
  <2>5. CASE Identify
    BY <2>0, <2>5 DEF Spared, Identify, disk
  <2>6. CASE Write
    BY <2>0, <2>6 DEF Spared, Write, disk
  <2>7. CASE SyncFile
    BY <2>0, <2>7 DEF Spared, SyncFile, disk
  <2>8. CASE Link
    BY <2>0, <2>8 DEF Spared, Link, Final, Goto, FailPublish, disk
  <2>9. CASE VerifyFinal
    BY <2>0, <2>9 DEF Spared, VerifyFinal, disk
  <2>10. CASE RemoveTemporary
    BY <2>0, <2>10 DEF Spared, RemoveTemporary, Temporary, Verified, disk
  <2>11. CASE SyncPayloads
    BY <2>0, <2>11 DEF Spared, SyncPayloads, disk
  <2>12. CASE SyncCommitted
    BY <2>0, <2>12 DEF Spared, SyncCommitted, disk
  <2>13. CASE VerifyDirectory
    BY <2>0, <2>13 DEF Spared, VerifyDirectory, disk
  <2>14. CASE VerifyTracked
    BY <2>0, <2>14 DEF Spared, VerifyTracked, disk
  <2>15. CASE RemoveOne
    BY <2>0, <2>15 DEF Spared, RemoveOne, MayRemove, Verified, disk
  <2>16. CASE RemoveDirectory
    BY <2>0, <2>16 DEF Spared, RemoveDirectory, CleansItsOwn, disk
  <2> QED
    BY <2>1, <2>2, <2>3, <2>4, <2>5, <2>6, <2>7, <2>8, <2>9, <2>10, <2>11, <2>12, <2>13, <2>14, <2>15, <2>16 DEF Program, Publication, CleanupPrecommit
<1>2. Init => CleansItsOwn
    BY DEF Init, CleansItsOwn
<1>3. Spec => [][Spared]_vars
    BY <1>1, <1>2, OwnDirectoryKept, InvariantHolds, PTL DEF Spec
<1> QED
    BY <1>3 DEF ForeignIsSpared

-----------------------------------------------------------------------------
(***************************************************************************)
(* The result: what the caller is told, and what is left in the directory. *)
(***************************************************************************)
CleanupSteps == {"verify_directory", "verify_tracked", "remove"}

Temp(k) == entry[<<k, "temporary">>]
Named(k) == entry[<<k, "final">>]

(***************************************************************************)
(* What may have been reported where: nothing before the end, nothing but  *)
(* an incomplete cleanup while the destructor tries once more.             *)
(***************************************************************************)
ReportedInStep ==
    /\ pc \in PublishSteps \cup {"reserve", "reserved"} => result = "none"
    /\ pc \in CleanupSteps =>
          /\ ~committed
          /\ caller # "none"
          /\ caller # "drop" => result = "none"
          /\ result \in {"none", "failed_incomplete", "aborted_incomplete"}
    /\ pc = "done" =>
          /\ result \in {"failed", "aborted"} => dir = "absent"
          /\ result \in {"ok", "committed_error"} <=> committed

(***************************************************************************)
(* A file that is done with has no temporary name, and after the manifest's*)
(* link the publication is committed.                                      *)
(***************************************************************************)
TemporariesGone ==
    /\ pc \in PublishSteps /\ kind # "html" => Temp("html") # "ours"
    /\ pc \in PublishSteps /\ kind = "manifest" => Temp("json") # "ours"
    /\ pc \in {"verify_final", "remove_temporary"} /\ kind = "manifest" => committed
    /\ pc = "sync_committed" =>
          /\ kind = "manifest" /\ committed
          /\ Visible("manifest") /\ Temp("manifest") # "ours"
    /\ pc = "done" /\ result = "ok" =>
          /\ \A k \in Kinds : Visible(k)
          /\ \A k \in Kinds : Temp(k) # "ours"

(***************************************************************************)
(* Where nobody interferes, every name in the directory is one the         *)
(* publication has recorded as its own, with the identity that lets the    *)
(* cleanup remove it.                                                      *)
(***************************************************************************)
Accounted(k) ==
    /\ Temp(k) \in {"none", "ours"} /\ Named(k) \in {"none", "ours"}
    /\ Temp(k) = "ours" => owned[k].temporary
    /\ Named(k) = "ours" => owned[k].final_path
    /\ Temp(k) = "ours" \/ Named(k) = "ours" =>
          owned[k].identity \/ (pc = "identify" /\ k = kind)

EveryNameIsTracked ==
    ~excused /\ pc \notin {"done", "crashed"} =>
        /\ ~stray /\ ~failed
        /\ pc # "reserve" => dir = "ours" /\ identity
        /\ \A k \in Kinds : Accounted(k)

(***************************************************************************)
(* The cleanup's second pass leaves no name behind it, and one that is not *)
(* disturbed takes the directory.                                          *)
(***************************************************************************)
RemovedInOrder ==
    /\ pc = "reserve" => dir # "ours"
    /\ ~excused /\ pc = "remove" =>
          /\ at > 1 => Temp("manifest") = "none"
          /\ at > 2 => Named("manifest") = "none"
          /\ at > 3 => Temp("json") = "none"
          /\ at > 4 => Named("json") = "none"
          /\ at > 5 => Temp("html") = "none"
          /\ at > 6 => Named("html") = "none"
    /\ pc \in {"verify_directory", "verify_tracked"} => at = 1
    /\ ~excused /\ pc = "done" /\ ~committed /\ result # "no_identity" => dir # "ours"

RInv == /\ IInv
        /\ ReportedInStep
        /\ TemporariesGone
        /\ EveryNameIsTracked
        /\ RemovedInOrder

LEMMA PathShape ==
    \A p \in Paths : \E k \in Kinds : p = <<k, "temporary">> \/ p = <<k, "final">>
BY DEF Paths, Slots

LEMMA ReportedKept == RInv /\ [Next]_vars => ReportedInStep'
<1> SUFFICES ASSUME RInv, [Next]_vars PROVE ReportedInStep'
    OBVIOUS
<1> USE PathFacts DEF RInv, IInv, TypeOK, ReportedInStep, Temp, Named, Visible, Kinds, PublishSteps,
       CommittedSteps, CleanupSteps, program, disk
<1>1. CASE Reserve
    BY <1>1 DEF Reserve, CommitIsFlagged
<1>2. CASE StartPublish
    BY <1>2 DEF StartPublish, CommitIsFlagged
<1>3. CASE Discard
    BY <1>3 DEF Discard, CommitIsFlagged
<1>4. CASE Create
    BY <1>4 DEF Create, FailPublish, Goto, Temporary, CommitIsFlagged
<1>5. CASE Identify
    BY <1>5 DEF Identify, FailPublish, Goto, CommitIsFlagged
<1>6. CASE Write
    BY <1>6 DEF Write, FailPublish, Goto, CommitIsFlagged
<1>7. CASE SyncFile
    BY <1>7 DEF SyncFile, FailPublish, Goto, CommitIsFlagged
<1>8. CASE Link
    BY <1>8 DEF Link, FailPublish, Goto, Temporary, Final, Commits, TrackedFinal, Verified,
       CommitIsFlagged
<1>9. CASE VerifyFinal
    BY <1>9 DEF VerifyFinal, FailPublish, Goto, Verified, Final, CommitIsFlagged
<1>10. CASE RemoveTemporary
    BY <1>10 DEF RemoveTemporary, FailPublish, Goto, Temporary, Following, AfterFile, Verified,
       CommitIsFlagged
<1>11. CASE SyncPayloads
    BY <1>11 DEF SyncPayloads, FailPublish, Goto, SyncedEntries, CommitIsFlagged
<1>12. CASE SyncCommitted
    BY <1>12 DEF SyncCommitted, FailPublish, SyncedEntries, CommitIsFlagged, TemporariesGone
<1>13. CASE VerifyDirectory
    BY <1>13 DEF VerifyDirectory, EndCleanup, Report, CommitIsFlagged
<1>14. CASE VerifyTracked
    BY <1>14 DEF VerifyTracked, EndCleanup, Report, CommitIsFlagged
<1>15. CASE RemoveOne
    BY <1>15 DEF RemoveOne, EndCleanup, Report, Advance, Tracked, CommitIsFlagged
<1>16. CASE RemoveDirectory
    BY <1>16 DEF RemoveDirectory, EndCleanup, Report, CommitIsFlagged, DirectoryGone, Empty
<1>17. CASE ForeignFile
    BY <1>17 DEF ForeignFile, Running, CommitIsFlagged
<1>18. CASE ForeignStray
    BY <1>18 DEF ForeignStray, Running, CommitIsFlagged
<1>19. CASE ForeignDirectory
    BY <1>19 DEF ForeignDirectory, CommitIsFlagged
<1>20. CASE Kill
    BY <1>20 DEF Kill, Running, CommitIsFlagged
<1>21. CASE PowerLoss
    BY <1>21 DEF PowerLoss, Running, CommitIsFlagged
<1>22. CASE UNCHANGED vars
    BY <1>22 DEF vars
<1> QED
    BY <1>1, <1>2, <1>3, <1>4, <1>5, <1>6, <1>7, <1>8, <1>9, <1>10, <1>11, <1>12, <1>13, <1>14,
       <1>15, <1>16, <1>17, <1>18, <1>19, <1>20, <1>21, <1>22 DEF Next, Program, Publication,
       CleanupPrecommit

LEMMA TemporariesKept == RInv /\ [Next]_vars => TemporariesGone'
<1> SUFFICES ASSUME RInv, [Next]_vars PROVE TemporariesGone'
    OBVIOUS
<1> USE PathFacts DEF RInv, IInv, TypeOK, TemporariesGone, Temp, Named, Visible, Kinds,
       PublishSteps, CommittedSteps, CleanupSteps, program, disk
<1>1. CASE Reserve
    BY <1>1 DEF Reserve, PayloadsInOrder, LinkedIsSynced, CommitIsFlagged, WholeWhenCommitted,
       ReportedInStep
<1>2. CASE StartPublish
    BY <1>2 DEF StartPublish, PayloadsInOrder, LinkedIsSynced, CommitIsFlagged, WholeWhenCommitted,
       ReportedInStep
<1>3. CASE Discard
    BY <1>3 DEF Discard, PayloadsInOrder, LinkedIsSynced, CommitIsFlagged, WholeWhenCommitted,
       ReportedInStep
<1>4. CASE Create
    BY <1>4 DEF Create, FailPublish, Goto, Temporary, PayloadsInOrder, LinkedIsSynced,
       CommitIsFlagged, WholeWhenCommitted, ReportedInStep
<1>5. CASE Identify
    BY <1>5 DEF Identify, FailPublish, Goto, PayloadsInOrder, LinkedIsSynced, CommitIsFlagged,
       WholeWhenCommitted, ReportedInStep
<1>6. CASE Write
    BY <1>6 DEF Write, FailPublish, Goto, PayloadsInOrder, LinkedIsSynced, CommitIsFlagged,
       WholeWhenCommitted, ReportedInStep
<1>7. CASE SyncFile
    BY <1>7 DEF SyncFile, FailPublish, Goto, PayloadsInOrder, LinkedIsSynced, CommitIsFlagged,
       WholeWhenCommitted, ReportedInStep
<1>8. CASE Link
    BY <1>8 DEF Link, FailPublish, Goto, Temporary, Final, Commits, TrackedFinal, Verified,
       PayloadsInOrder, LinkedIsSynced, CommitIsFlagged, WholeWhenCommitted, ReportedInStep
<1>9. CASE VerifyFinal
    BY <1>9 DEF VerifyFinal, FailPublish, Goto, Verified, Final, PayloadsInOrder, LinkedIsSynced,
       CommitIsFlagged, WholeWhenCommitted, ReportedInStep
<1>10. CASE RemoveTemporary
    BY <1>10 DEF RemoveTemporary, FailPublish, Goto, Temporary, Following, AfterFile, Verified,
       PayloadsInOrder, LinkedIsSynced, CommitIsFlagged, WholeWhenCommitted, ReportedInStep
<1>11. CASE SyncPayloads
    BY <1>11 DEF SyncPayloads, FailPublish, Goto, SyncedEntries, PayloadsInOrder, LinkedIsSynced,
       CommitIsFlagged, WholeWhenCommitted, ReportedInStep
<1>12. CASE SyncCommitted
    BY <1>12 DEF SyncCommitted, FailPublish, SyncedEntries, PayloadsInOrder, LinkedIsSynced,
       CommitIsFlagged, WholeWhenCommitted, ReportedInStep
<1>13. CASE VerifyDirectory
    BY <1>13 DEF VerifyDirectory, EndCleanup, Report, PayloadsInOrder, LinkedIsSynced,
       CommitIsFlagged, WholeWhenCommitted, ReportedInStep
<1>14. CASE VerifyTracked
    BY <1>14 DEF VerifyTracked, EndCleanup, Report, PayloadsInOrder, LinkedIsSynced,
       CommitIsFlagged, WholeWhenCommitted, ReportedInStep
<1>15. CASE RemoveOne
    BY <1>15 DEF RemoveOne, EndCleanup, Report, Advance, Tracked, PayloadsInOrder, LinkedIsSynced,
       CommitIsFlagged, WholeWhenCommitted, ReportedInStep, MayRemove, Verified
<1>16. CASE RemoveDirectory
    BY <1>16 DEF RemoveDirectory, EndCleanup, Report, PayloadsInOrder, LinkedIsSynced,
       CommitIsFlagged, WholeWhenCommitted, ReportedInStep
<1>17. CASE ForeignFile
    BY <1>17 DEF ForeignFile, Running, PayloadsInOrder, LinkedIsSynced, CommitIsFlagged,
       WholeWhenCommitted, ReportedInStep
<1>18. CASE ForeignStray
    BY <1>18 DEF ForeignStray, Running, PayloadsInOrder, LinkedIsSynced, CommitIsFlagged,
       WholeWhenCommitted, ReportedInStep
<1>19. CASE ForeignDirectory
    BY <1>19 DEF ForeignDirectory, PayloadsInOrder, LinkedIsSynced, CommitIsFlagged,
       WholeWhenCommitted, ReportedInStep
<1>20. CASE Kill
    BY <1>20 DEF Kill, Running, PayloadsInOrder, LinkedIsSynced, CommitIsFlagged,
       WholeWhenCommitted, ReportedInStep
<1>21. CASE PowerLoss
    BY <1>21 DEF PowerLoss, Running, PayloadsInOrder, LinkedIsSynced, CommitIsFlagged,
       WholeWhenCommitted, ReportedInStep
<1>22. CASE UNCHANGED vars
    BY <1>22 DEF vars
<1> QED
    BY <1>1, <1>2, <1>3, <1>4, <1>5, <1>6, <1>7, <1>8, <1>9, <1>10, <1>11, <1>12, <1>13, <1>14,
       <1>15, <1>16, <1>17, <1>18, <1>19, <1>20, <1>21, <1>22 DEF Next, Program, Publication,
       CleanupPrecommit

LEMMA NamesKept == RInv /\ [Next]_vars => EveryNameIsTracked'
<1> SUFFICES ASSUME RInv, [Next]_vars PROVE EveryNameIsTracked'
    OBVIOUS
<1> USE PathFacts DEF RInv, IInv, TypeOK, EveryNameIsTracked, Temp, Named, Visible, Kinds,
       PublishSteps, CommittedSteps, CleanupSteps, program, disk
<1>1. CASE Reserve
    BY <1>1 DEF Reserve, CommitIsFlagged, Accounted
<1>2. CASE StartPublish
    BY <1>2 DEF StartPublish, CommitIsFlagged, Accounted
<1>3. CASE Discard
    BY <1>3 DEF Discard, CommitIsFlagged, Accounted
<1>4. CASE Create
    BY <1>4 DEF Create, FailPublish, Goto, Temporary, CommitIsFlagged, Accounted
<1>5. CASE Identify
    BY <1>5 DEF Identify, FailPublish, Goto, CommitIsFlagged, Accounted
<1>6. CASE Write
    BY <1>6 DEF Write, FailPublish, Goto, CommitIsFlagged, Accounted
<1>7. CASE SyncFile
    BY <1>7 DEF SyncFile, FailPublish, Goto, CommitIsFlagged, Accounted
<1>8. CASE Link
    BY <1>8 DEF Link, FailPublish, Goto, Temporary, Final, Commits, TrackedFinal, Verified,
       CommitIsFlagged, Accounted
<1>9. CASE VerifyFinal
    BY <1>9 DEF VerifyFinal, FailPublish, Goto, Verified, Final, CommitIsFlagged, Accounted
<1>10. CASE RemoveTemporary
    BY <1>10 DEF RemoveTemporary, FailPublish, Goto, Temporary, Following, AfterFile, Verified,
       CommitIsFlagged, Accounted
<1>11. CASE SyncPayloads
    BY <1>11 DEF SyncPayloads, FailPublish, Goto, SyncedEntries, CommitIsFlagged, Accounted
<1>12. CASE SyncCommitted
    BY <1>12 DEF SyncCommitted, FailPublish, SyncedEntries, CommitIsFlagged, Accounted
<1>13. CASE VerifyDirectory
    BY <1>13 DEF VerifyDirectory, EndCleanup, Report, CommitIsFlagged, Accounted
<1>14. CASE VerifyTracked
    BY <1>14 DEF VerifyTracked, EndCleanup, Report, CommitIsFlagged, Accounted, AllVerified, Owns,
       Verified
<1>15. CASE RemoveOne
    BY <1>15 DEF RemoveOne, EndCleanup, Report, Advance, Tracked, CommitIsFlagged, Accounted,
       MayRemove, Verified, Owns
<1>16. CASE RemoveDirectory
    BY <1>16 DEF RemoveDirectory, EndCleanup, Report, CommitIsFlagged, Accounted, DirectoryGone,
       Empty
<1>17. CASE ForeignFile
    BY <1>17 DEF ForeignFile, Running, CommitIsFlagged, Accounted
<1>18. CASE ForeignStray
    BY <1>18 DEF ForeignStray, Running, CommitIsFlagged, Accounted
<1>19. CASE ForeignDirectory
    BY <1>19 DEF ForeignDirectory, CommitIsFlagged, Accounted
<1>20. CASE Kill
    BY <1>20 DEF Kill, Running, CommitIsFlagged, Accounted
<1>21. CASE PowerLoss
    BY <1>21 DEF PowerLoss, Running, CommitIsFlagged, Accounted
<1>22. CASE UNCHANGED vars
    BY <1>22 DEF vars, Accounted
<1> QED
    BY <1>1, <1>2, <1>3, <1>4, <1>5, <1>6, <1>7, <1>8, <1>9, <1>10, <1>11, <1>12, <1>13, <1>14,
       <1>15, <1>16, <1>17, <1>18, <1>19, <1>20, <1>21, <1>22 DEF Next, Program, Publication,
       CleanupPrecommit

LEMMA OrderKept == RInv /\ [Next]_vars => RemovedInOrder'
<1> SUFFICES ASSUME RInv, [Next]_vars PROVE RemovedInOrder'
    OBVIOUS
<1> USE PathFacts DEF RInv, IInv, TypeOK, RemovedInOrder, Temp, Named, Visible, Kinds, PublishSteps,
       CommittedSteps, CleanupSteps, program, disk
<1>1. CASE Reserve
    BY <1>1 DEF Reserve, CommitIsFlagged, EveryNameIsTracked, Accounted, ReportedInStep
<1>2. CASE StartPublish
    BY <1>2 DEF StartPublish, CommitIsFlagged, EveryNameIsTracked, Accounted, ReportedInStep
<1>3. CASE Discard
    BY <1>3 DEF Discard, CommitIsFlagged, EveryNameIsTracked, Accounted, ReportedInStep
<1>4. CASE Create
    BY <1>4 DEF Create, FailPublish, Goto, Temporary, CommitIsFlagged, EveryNameIsTracked,
       Accounted, ReportedInStep
<1>5. CASE Identify
    BY <1>5 DEF Identify, FailPublish, Goto, CommitIsFlagged, EveryNameIsTracked, Accounted,
       ReportedInStep
<1>6. CASE Write
    BY <1>6 DEF Write, FailPublish, Goto, CommitIsFlagged, EveryNameIsTracked, Accounted,
       ReportedInStep
<1>7. CASE SyncFile
    BY <1>7 DEF SyncFile, FailPublish, Goto, CommitIsFlagged, EveryNameIsTracked, Accounted,
       ReportedInStep
<1>8. CASE Link
    BY <1>8 DEF Link, FailPublish, Goto, Temporary, Final, Commits, TrackedFinal, Verified,
       CommitIsFlagged, EveryNameIsTracked, Accounted, ReportedInStep
<1>9. CASE VerifyFinal
    BY <1>9 DEF VerifyFinal, FailPublish, Goto, Verified, Final, CommitIsFlagged,
       EveryNameIsTracked, Accounted, ReportedInStep
<1>10. CASE RemoveTemporary
    BY <1>10 DEF RemoveTemporary, FailPublish, Goto, Temporary, Following, AfterFile, Verified,
       CommitIsFlagged, EveryNameIsTracked, Accounted, ReportedInStep
<1>11. CASE SyncPayloads
    BY <1>11 DEF SyncPayloads, FailPublish, Goto, SyncedEntries, CommitIsFlagged,
       EveryNameIsTracked, Accounted, ReportedInStep
<1>12. CASE SyncCommitted
    BY <1>12 DEF SyncCommitted, FailPublish, SyncedEntries, CommitIsFlagged, EveryNameIsTracked,
       Accounted, ReportedInStep, TemporariesGone
<1>13. CASE VerifyDirectory
    BY <1>13 DEF VerifyDirectory, EndCleanup, Report, CommitIsFlagged, EveryNameIsTracked,
       Accounted, ReportedInStep
<1>14. CASE VerifyTracked
  <2>1. ~excused => \A k \in Kinds : Accounted(k)
    BY <1>14 DEF VerifyTracked, EveryNameIsTracked
  <2>2. ~excused => AllVerified
    BY <1>14, <2>1 DEF VerifyTracked, AllVerified, Owns, Verified, Accounted, Paths, Slots
  <2>3. CASE pc' = "remove"
    BY <1>14, <2>3 DEF VerifyTracked, EndCleanup, Report
  <2>4. CASE pc' /= "remove"
    BY <1>14, <2>2, <2>4 DEF VerifyTracked, EndCleanup, Report, ReportedInStep
  <2> QED
    BY <2>3, <2>4
<1>15. CASE RemoveOne
    BY <1>15 DEF RemoveOne, EndCleanup, Report, Advance, Tracked, CommitIsFlagged,
       EveryNameIsTracked, Accounted, ReportedInStep, MayRemove, Verified, Owns
<1>16. CASE RemoveDirectory
  <2>1. ASSUME ~excused PROVE DirectoryGone
    <3>1. at = 7
      BY <1>16 DEF RemoveDirectory, Tracked
    <3>2. \A k \in Kinds : Temp(k) = "none" /\ Named(k) = "none"
      BY <1>16, <2>1, <3>1 DEF RemoveDirectory
    <3>3. \A p \in Paths : entry[p] = "none"
      BY <3>2, PathShape
    <3> QED
      BY <1>16, <2>1, <3>3 DEF RemoveDirectory, DirectoryGone, Empty, EveryNameIsTracked
  <2>2. CASE excused
    BY <1>16, <2>2 DEF RemoveDirectory, EndCleanup, Report, ReportedInStep
  <2>3. CASE ~excused
    BY <1>16, <2>1, <2>3 DEF RemoveDirectory, EndCleanup, Report, ReportedInStep, DirectoryGone
  <2> QED
    BY <2>2, <2>3
<1>17. CASE ForeignFile
    BY <1>17 DEF ForeignFile, Running, CommitIsFlagged, EveryNameIsTracked, Accounted,
       ReportedInStep
<1>18. CASE ForeignStray
    BY <1>18 DEF ForeignStray, Running, CommitIsFlagged, EveryNameIsTracked, Accounted,
       ReportedInStep
<1>19. CASE ForeignDirectory
    BY <1>19 DEF ForeignDirectory, CommitIsFlagged, EveryNameIsTracked, Accounted, ReportedInStep
<1>20. CASE Kill
    BY <1>20 DEF Kill, Running, CommitIsFlagged, EveryNameIsTracked, Accounted, ReportedInStep
<1>21. CASE PowerLoss
    BY <1>21 DEF PowerLoss, Running, CommitIsFlagged, EveryNameIsTracked, Accounted, ReportedInStep
<1>22. CASE UNCHANGED vars
    BY <1>22 DEF vars, Accounted
<1> QED
    BY <1>1, <1>2, <1>3, <1>4, <1>5, <1>6, <1>7, <1>8, <1>9, <1>10, <1>11, <1>12, <1>13, <1>14,
       <1>15, <1>16, <1>17, <1>18, <1>19, <1>20, <1>21, <1>22 DEF Next, Program, Publication,
       CleanupPrecommit

-----------------------------------------------------------------------------
LEMMA InitResult == Init => RInv
<1> SUFFICES ASSUME Init PROVE RInv
    OBVIOUS
<1>1. \A k \in Kinds : Temp(k) = "none" /\ Named(k) = "none"
    BY PathFacts DEF Init, Temp, Named
<1>2. ReportedInStep /\ TemporariesGone /\ RemovedInOrder
    BY DEF Init, ReportedInStep, TemporariesGone, RemovedInOrder, PublishSteps, CleanupSteps
<1>3. EveryNameIsTracked
    BY <1>1 DEF Init, EveryNameIsTracked, Accounted
<1> QED
    BY <1>2, <1>3, InitInv DEF RInv

(***************************************************************************)
(* The stronger invariant holds of every publication: where nobody         *)
(* interferes the directory holds only names the publication has recorded  *)
(* with their identity, and the cleanup's second pass leaves none behind   *)
(* (publish_file, cleanup_precommit).                                      *)
(***************************************************************************)
THEOREM ResultInvariance == Spec => []RInv
<1>1. RInv /\ [Next]_vars => RInv'
    BY NextInv, ReportedKept, TemporariesKept, NamesKept, OrderKept DEF RInv
<1> QED
    BY <1>1, InitResult, PTL DEF Spec

(***************************************************************************)
(* What publish, abort and drop return is so, whichever calls fail and     *)
(* however many paths someone else changes: "completed" means three final  *)
(* names and no temporary one, a clean failure means no directory, and a   *)
(* publication left alone forgets nothing it created (publish, abort,      *)
(* cleanup_precommit, Drop).                                               *)
(***************************************************************************)
THEOREM ResultTruthful == Spec => []ResultIsTruthful
<1>1. RInv => ResultIsTruthful
  <2> SUFFICES ASSUME RInv PROVE ResultIsTruthful
    OBVIOUS
  <2>1. TypeOK
    BY DEF RInv, IInv
  <2>2. ReportIsTruthful
    BY DEF RInv, ReportedInStep, TemporariesGone, ReportIsTruthful, Visible, Temp
  <2>3. NothingLeftBehind
    BY DEF RInv, RemovedInOrder, NothingLeftBehind
  <2> QED
    BY <2>1, <2>2, <2>3 DEF ResultIsTruthful
<1> QED
    BY <1>1, ResultInvariance, PTL
=============================================================================
