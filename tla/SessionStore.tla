---------------------------- MODULE SessionStore ----------------------------
(***************************************************************************)
(* The JSONL file of one session key (rincode/session/manager.py and       *)
(* rincode/utils/atomic_io.py): Session objects in several processes or    *)
(* held as stale references, each with the snapshot it last read or wrote, *)
(* and on disk the file, the epoch that fences deletions and rewrites, and *)
(* the marker that says the key has one.                                   *)
(*                                                                         *)
(* Every operation runs under the key's lock, so others see it whole,      *)
(* unless its process dies in it or a system call fails: then the disk     *)
(* keeps what was written until then, and in the second case the object    *)
(* lives on.  A turn stands for its records; metadata, last_consolidated   *)
(* and pending_clarification, compared together by the code, are one       *)
(* value; 0 is that of a file that holds no metadata line yet.             *)
(***************************************************************************)
EXTENDS Integers, Sequences, SequencesExt

CONSTANTS
  Sessions,    (* Session objects                                           *)
  Turns,       (* turns that may be recorded, each once                     *)
  MaxEpoch, MaxMeta,
  MaxCrashes   (* bounds; the last of operations that die or fail half-way  *)

ASSUME StoreAssumption ==
  MaxEpoch \in Nat /\ MaxMeta \in Nat \ {0} /\ MaxCrashes \in Nat

VARIABLES
  disk,        (* the file and its generation metadata                      *)
  mem,         (* the Session objects                                       *)
  unused,      (* turns not recorded yet                                    *)
  crashes,
  erased       (* turns that were in the file and are not (history)         *)

vars == <<disk, mem, unused, crashes, erased>>

Disk == [there : BOOLEAN, msgs : Seq(Turns), meta : Nat, torn : BOOLEAN,
         marker : {"unknown", "marked", "fenced"}, epoch : Nat]
\* A Session, and what session.delete checked before it asked the user, with the
\* history the object then knew.
Session == [open : BOOLEAN, msgs : Seq(Turns), meta : Nat, persisted : BOOLEAN,
            snapMsgs : Seq(Turns), snapMeta : Nat, epoch : Nat, rewrite : BOOLEAN,
            asking : BOOLEAN, askEpoch : Nat, askExisted : BOOLEAN, asked : Seq(Turns)]

TypeOK ==
  /\ disk \in Disk /\ mem \in [Sessions -> Session]
  /\ unused \subseteq Turns /\ crashes \in 0 .. MaxCrashes /\ erased \subseteq Turns

Absent == [there |-> FALSE, msgs |-> <<>>, meta |-> 0, torn |-> FALSE,
           marker |-> "unknown", epoch |-> 0]
Closed == [open |-> FALSE, msgs |-> <<>>, meta |-> 0, persisted |-> FALSE,
           snapMsgs |-> <<>>, snapMeta |-> 0, epoch |-> 0, rewrite |-> FALSE,
           asking |-> FALSE, askEpoch |-> 0, askExisted |-> FALSE, asked |-> <<>>]

Init ==
  /\ disk = Absent /\ mem = [h \in Sessions |-> Closed]
  /\ unused = Turns /\ crashes = 0 /\ erased = {}
-----------------------------------------------------------------------------
(* The generation metadata.                                                 *)

\* read_epoch answers, and a file that must be there is there.
Readable == /\ disk.marker # "marked"
            /\ ~(disk.marker = "fenced" /\ disk.epoch = 0 /\ ~disk.there)

\* Fault: any epoch will do.
AnyEpoch(e) == Readable

EpochIs(e) == Readable /\ disk.epoch = e        \* _check_epoch

Marked   == [disk EXCEPT !.marker = IF @ = "unknown" THEN "marked" ELSE @]
Fenced(e) == [disk EXCEPT !.marker = "fenced", !.epoch = e]   \* _write_epoch

Gone(d) == [d EXCEPT !.there = FALSE, !.msgs = <<>>, !.meta = 0, !.torn = FALSE]

\* An operation of h that takes the disk through the states of stages to final
\* and leaves h as session; or the process dies on the way, or before it knows;
\* or a system call fails, which leaves h as undone and the disk as it was or, when
\* an append or the restoring of the epoch fails half-way, in one of the stages.
Write(h, stages, final, session, undone) ==
  /\ \/ /\ disk' = final
        /\ mem' = [mem EXCEPT ![h] = session]
        /\ UNCHANGED crashes
     \/ /\ crashes < MaxCrashes /\ crashes' = crashes + 1
        /\ \/ disk' \in stages \cup {final} /\ mem' = [mem EXCEPT ![h] = Closed]
           \/ disk' \in stages \cup {disk} /\ mem' = [mem EXCEPT ![h] = undone]
  /\ disk'.epoch <= MaxEpoch
  /\ erased' = erased \cup (ToSet(disk.msgs) \ ToSet(disk'.msgs))
-----------------------------------------------------------------------------
(* Session objects.                                                         *)

Load(h) ==                \* SessionManager._load_state
  /\ ~mem[h].open /\ Readable
  /\ mem' = [mem EXCEPT ![h] =
       IF disk.there
       THEN [Closed EXCEPT !.open = TRUE, !.msgs = disk.msgs, !.meta = disk.meta,
               !.persisted = TRUE, !.snapMsgs = disk.msgs, !.snapMeta = disk.meta,
               !.epoch = disk.epoch, !.rewrite = disk.torn]
       ELSE [Closed EXCEPT !.open = TRUE, !.meta = 1, !.epoch = disk.epoch]]
  /\ UNCHANGED <<disk, unused, crashes, erased>>

Invalidate(h) ==
  /\ mem[h].open
  /\ mem' = [mem EXCEPT ![h] = Closed]
  /\ UNCHANGED <<disk, unused, crashes, erased>>

Record(h) ==
  /\ mem[h].open
  /\ \E t \in unused :
       /\ mem' = [mem EXCEPT ![h].msgs = Append(@, t)]
       /\ unused' = unused \ {t}
  /\ UNCHANGED <<disk, crashes, erased>>

-----------------------------------------------------------------------------
(* save: an append, or a rewrite under a new epoch.                         *)

Saved(s, e, keep) ==      \* the end of save, and invalidate unless the object is kept
  IF ~keep THEN Closed ELSE
  [s EXCEPT !.persisted = TRUE, !.snapMsgs = s.msgs, !.snapMeta = s.meta,
            !.epoch = e, !.rewrite = FALSE]

\* _validate_append_base: not the messages, only what save writes over.
AppendBase(s) == disk.there =>
  ~disk.torn /\ disk.meta = IF s.persisted THEN s.snapMeta ELSE s.meta

\* Fault: only the metadata is compared before a rewrite.
MetaBase(s) == s.persisted => disk.meta = s.snapMeta

RewriteBase(s) ==         \* _validate_rewrite_base
  s.persisted => disk.msgs = s.snapMsgs /\ disk.meta = s.snapMeta

\* Fault: the file is replaced if only it is there.
MayReplace(s) == Readable /\ (s.persisted => disk.there)

MayRewrite(s) == disk.there = s.persisted /\ EpochIs(s.epoch) /\ RewriteBase(s)

\* What save appends, and the file after n turns of it.
Unsaved(s) == SubSeq(s.msgs, IF s.persisted THEN Len(s.snapMsgs) + 1 ELSE 1, Len(s.msgs))

Grown(s, n, meta, torn) ==
  [Fenced(disk.epoch) EXCEPT !.there = TRUE, !.msgs = disk.msgs \o SubSeq(Unsaved(s), 1, n),
                             !.meta = meta, !.torn = torn]

\* What an append may leave that dies or fails: fsync, too, may raise.
PartlyGrown(s) == {Marked, Fenced(disk.epoch), Grown(s, Len(Unsaved(s)), s.meta, FALSE)} \cup
  {Grown(s, 0, disk.meta, t) : t \in BOOLEAN} \cup
  {Grown(s, n, s.meta, t) : n \in 0 .. Len(Unsaved(s)) - 1, t \in BOOLEAN}

AppendTo(h, s, keep) ==   \* locked_append
  /\ s.persisted => disk.there
  /\ EpochIs(s.epoch) /\ AppendBase(s)
  /\ Write(h, PartlyGrown(s), Grown(s, Len(Unsaved(s)), s.meta, FALSE),
           Saved(s, disk.epoch, keep), s)

\* Fault: a rewrite stays in its generation.
SameEpoch == disk.epoch
\* Fault: the epoch counts down.
LastEpoch == disk.epoch - 1

NextEpoch == disk.epoch + 1

Rewritten(s) ==
  [Fenced(NextEpoch) EXCEPT !.there = TRUE, !.msgs = s.msgs, !.meta = s.meta, !.torn = FALSE]

RewriteAs(h, s, keep, undone) ==  \* atomic_replace
  /\ MayRewrite(s)
  /\ Write(h, {Marked, Fenced(NextEpoch)}, Rewritten(s), Saved(s, NextEpoch, keep), undone)

Dirty(s) == \/ s.rewrite
            \/ ~s.persisted /\ (s.msgs # <<>> \/ s.meta # 1)
            \/ s.persisted /\ (s.msgs # s.snapMsgs \/ s.meta # s.snapMeta)

AppendOnly(s) == IsPrefix(s.snapMsgs, s.msgs)

SaveAs(h, s, keep) ==     \* save fills in the reserved metadata first
  LET ready == [s EXCEPT !.meta = IF @ = 0 THEN 1 ELSE @]
  IN IF s.rewrite \/ (s.persisted /\ ~AppendOnly(s))
     THEN RewriteAs(h, ready, keep, ready) ELSE AppendTo(h, ready, keep)

Save(h) == mem[h].open /\ Dirty(mem[h]) /\ SaveAs(h, mem[h], TRUE) /\ UNCHANGED unused

\* session.title saves at once if there is a file; when that fails, and after a
\* consolidation or a clarification, the object waits for a later save.
SetMeta(h) ==
  /\ mem[h].open /\ mem[h].meta < MaxMeta
  /\ LET s == [mem[h] EXCEPT !.meta = @ + 1]
     IN \/ disk.there /\ SaveAs(h, s, TRUE)
        \/ /\ mem' = [mem EXCEPT ![h] = s]
           /\ UNCHANGED <<disk, crashes, erased>>
  /\ UNCHANGED unused

\* clear and undo_last_turn, which may also drop a consolidation or clarification
Shortened(s, n) ==
  {[s EXCEPT !.msgs = SubSeq(@, 1, n), !.meta = m] : m \in s.meta .. s.meta + 1}

\* session.clear and session.undo: edit the history and commit it, or put it
\* back when that fails.
CommitHistoryRewrite(h) ==
  /\ mem[h].open
  /\ \E n \in {0, Len(mem[h].msgs) - 1} \cap Nat : \E s \in Shortened(mem[h], n) :
       /\ s.meta <= MaxMeta
       /\ IF s.persisted \/ Dirty(s)
          THEN RewriteAs(h, [s EXCEPT !.meta = IF @ = 0 THEN 1 ELSE @], TRUE, mem[h])
          ELSE /\ ~disk.there /\ EpochIs(s.epoch)
               /\ Write(h, {Marked}, Fenced(NextEpoch), [s EXCEPT !.epoch = @ + 1], mem[h])
  /\ UNCHANGED unused

\* The command /new: clear, save, invalidate.  When the save is refused or fails
\* the object stays in the cache, cleared.
NewSession(h) ==
  /\ mem[h].open
  /\ \E s \in Shortened(mem[h], 0) :
       /\ s.meta <= MaxMeta
       /\ \/ SaveAs(h, s, FALSE)
          \/ /\ mem' = [mem EXCEPT ![h] = s]
             /\ UNCHANGED <<disk, crashes, erased>>
  /\ UNCHANGED unused
-----------------------------------------------------------------------------
(* Deletion: by the CLI at once, by session.delete after a confirmation.    *)

NotAsking(s) ==
  [s EXCEPT !.asking = FALSE, !.askEpoch = 0, !.askExisted = FALSE, !.asked = <<>>]

DeleteBy(h) ==
  Write(h, {Marked, Fenced(NextEpoch)}, Gone(Fenced(NextEpoch)), NotAsking(mem[h]), NotAsking(mem[h]))

CliDelete(h) ==
  /\ ~mem[h].open /\ disk.there /\ Readable
  /\ DeleteBy(h)
  /\ UNCHANGED unused

AskDelete(h) ==
  /\ mem[h].open /\ ~mem[h].asking
  /\ mem' = [mem EXCEPT ![h] = [@ EXCEPT !.asking = TRUE, !.askEpoch = mem[h].epoch,
                                         !.askExisted = disk.there,
                                         !.asked = mem[h].snapMsgs]]
  /\ UNCHANGED <<disk, unused, crashes, erased>>

\* Fault: only the existence of the file is checked after the confirmation.
DeleteWhatIsThere(h) ==
  mem[h].asking /\ disk.there = mem[h].askExisted /\ Readable /\ DeleteBy(h) /\ UNCHANGED unused

ConfirmedDelete(h) ==
  /\ mem[h].asking /\ disk.there = mem[h].askExisted /\ EpochIs(mem[h].askEpoch)
  /\ DeleteBy(h)
  /\ UNCHANGED unused

Next == \E h \in Sessions :
  \/ Load(h) \/ Invalidate(h) \/ Record(h) \/ SetMeta(h) \/ Save(h)
  \/ CommitHistoryRewrite(h) \/ NewSession(h)
  \/ CliDelete(h) \/ AskDelete(h) \/ ConfirmedDelete(h)

Spec == Init /\ [][Next]_vars
-----------------------------------------------------------------------------
(* A turn that was undone, cleared or deleted is in no later file: stale    *)
(* objects and crashes do not bring it back (the epoch, atomic_io.py).      *)
ErasedStaysErased == erased \cap ToSet(disk.msgs) = {}

(* The file is a history in generations, numbered by the epoch.             *)
Log == INSTANCE GenerationLog WITH generation <- disk.epoch, log <- disk.msgs, gone <- erased
KeepsGenerationLog == Log!Spec

\* The places of new where the elements of old stand, in that order.
KeptIn(old, new) ==
  \E at \in [DOMAIN old -> DOMAIN new] :
    /\ \A i \in DOMAIN old : new[at[i]] = old[i]
    /\ \A i, j \in DOMAIN old : i < j => at[i] < at[j]

(* What an object of the present generation believes to be on disk is on    *)
(* disk, in that order, whatever other writers have appended since and      *)
(* whatever died or failed: an append loses nothing.  (It may repeat what   *)
(* an append that failed, say in fsync, did write.)                         *)
SnapshotIsKept ==
  \A h \in Sessions : LET s == mem[h] IN
    s.persisted /\ s.epoch = disk.epoch => disk.there /\ KeptIn(s.snapMsgs, disk.msgs)

(* Turns leave the file only with the file, or by a writer that had read    *)
(* the whole history it replaces, and metadata only by one that had read    *)
(* that metadata: nothing of another writer is overwritten unseen           *)
(* (_validate_append_base, _validate_rewrite_base).                         *)
NothingOverwrittenUnseen ==
  [][LET grows == ToSet(disk.msgs) \subseteq ToSet(disk'.msgs) IN
     disk.there /\ disk'.there /\ ~(grows /\ disk'.meta = disk.meta) =>
       \E h \in Sessions : /\ \A g \in Sessions \ {h} : mem'[g] = mem[g]
                           /\ mem[h].snapMeta = disk.meta
                           /\ grows \/ mem[h].snapMsgs = disk.msgs]_vars

(* A deletion the user confirmed (session_delete, tui_rpc/methods/          *)
(* session.py) removes the history it was confirmed for, with what was      *)
(* appended since: while the user was asked, no one cut or replaced it.     *)
DeletionWasSeen ==
  [][disk.there /\ ~disk'.there =>
       \A h \in Sessions : mem'[h] # mem[h] => KeptIn(mem[h].asked, disk.msgs)]_vars

(* A crash leaves the key usable (atomic_io.py:1 calls the file primitives  *)
(* crash-safe, and the comment at 168-169 takes a missing primary file for  *)
(* a legal snapshot of epoch zero).  It does not: with the marker written   *)
(* and the epoch or the first data not, every later operation refuses.      *)
CrashKeepsKeyUsable == Readable
-----------------------------------------------------------------------------
(* The inductive invariant behind ErasedStaysErased.                        *)

NoFutureEpoch == \A h \in Sessions : mem[h].epoch <= disk.epoch

\* A turn not recorded yet is nowhere.
UnusedIsFresh ==
  /\ unused \cap (erased \cup ToSet(disk.msgs)) = {}
  /\ \A h \in Sessions : unused \cap ToSet(mem[h].msgs) = {}

\* An object that the epoch still lets write holds no erased turn.
CurrentIsClean ==
  \A h \in Sessions : mem[h].epoch = disk.epoch => ToSet(mem[h].msgs) \cap erased = {}

StoreInv ==
  TypeOK /\ NoFutureEpoch /\ UnusedIsFresh /\ CurrentIsClean /\ ErasedStaysErased

(* And the one behind the refinement of GenerationLog.                      *)

\* The history of an object starts as its snapshot does, and goes on with turns
\* that the snapshot does not have and no one has still to record.
HistoryContinues ==
  \A h \in Sessions : LET s == mem[h] IN
    /\ Log!Continues(s.snapMsgs, s.msgs)
    /\ ~s.persisted => s.snapMsgs = <<>>
    /\ unused \cap ToSet(s.snapMsgs) = {}

\* What a question for a deletion in the present generation is about.
AskedIsKept ==
  \A h \in Sessions : LET s == mem[h] IN
    /\ s.askEpoch <= disk.epoch
    /\ IF s.asking THEN s.open /\ (s.askEpoch = disk.epoch => KeptIn(s.asked, disk.msgs))
                    ELSE s.asked = <<>>

NoFileIsEmpty == ~disk.there => disk.msgs = <<>>

HistoryInv == StoreInv /\ SnapshotIsKept /\ AskedIsKept /\ HistoryContinues /\ NoFileIsEmpty
=============================================================================
