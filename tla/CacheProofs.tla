----------------------------- MODULE CacheProofs ------------------------------
(***************************************************************************)
(* What a sidecar says is what the network served: after any puts,         *)
(* evictions, purges, interruptions and power losses, for any threads,     *)
(* keys, contents and limits, a verified read is one of the (bytes, url)   *)
(* pairs that were downloaded.  With it the type invariant, whose part on  *)
(* locks needs to know which key a thread in each place may hold.          *)
(***************************************************************************)
EXTENDS Cache, TLAPS

\* What stands in a sidecar, or may stand in it after a power loss, or is about
\* to be put into one, was downloaded.
Backed(f) == f # None => <<f.bytes, f.url>> \in served

SidecarsBacked ==
  \A n \in SidecarNames : Backed(content[n]) /\ \A f \in disk[n] : Backed(f)

WritersBacked ==
  \A t \in Threads :
    op[t].at \in {"opened", "bare", "zipped"} /\ op[t].file.url # None
      => <<op[t].file.bytes, op[t].file.url>> \in served

\* What each place of a thread knows of its name and file.
Shape ==
  \A t \in Threads :
    /\ op[t].at \in {"opened", "bare", "zipped", "paired", "trimming"} => op[t].file \in File
    /\ op[t].at = "opened" => op[t].name \in ZipNames \cup MdNames
    /\ op[t].at \in {"bare", "zipped", "paired", "reading", "verifying"} => op[t].name \in ZipNames
    /\ op[t].at = "zipped" => op[t].file.url # None
    /\ op[t].at = "verifying" => op[t].file \in File \cup {None}

\* A put or a read holds its own key between two places; a purge holds keys only
\* while it has files under zips/ to delete.
LockShape ==
  \A t \in Threads, k \in ZipKeys :
    keyLock[k] = t =>
      \/ /\ op[t].at \in {"bare", "zipped", "paired", "reading", "verifying"}
         /\ k = KeyOf(op[t].name)
      \/ /\ op[t].at = "purging"
         /\ todo \cap Durable # {}

\* The part about the directories, and the part about the threads.
FilesTyped ==
  /\ content \in [Names -> File \cup {None}]
  /\ disk \in [Durable -> SUBSET (File \cup {None})]
  /\ SidecarsBacked

OpsTyped ==
  /\ op \in [Threads -> [at : Stage, name : Names \cup {None}, file : File \cup Answer \cup {None}]]
  /\ WritersBacked /\ Shape /\ VerifiedWasServed

LocksTyped ==
  /\ tree \in Threads \cup {None}
  /\ keyLock \in [ZipKeys -> Threads \cup {None}]
  /\ \A t \in Threads : Writing(t) <=> tree = t
  /\ LockShape

RestTyped ==
  /\ todo \in SUBSET Names
  /\ served \in SUBSET (Payloads \X Urls)
  /\ cut \in Nat
  /\ puts \in 0 .. MaxPuts /\ losses \in 0 .. MaxLosses

IInv == FilesTyped /\ OpsTyped /\ LocksTyped /\ RestTyped

\* Names are what they look like.
LEMMA NameFacts ==
  /\ ZipNames \subseteq Durable /\ SidecarNames \subseteq Durable
  /\ Durable \subseteq Names /\ MdNames \subseteq Names
  /\ ZipNames \cap SidecarNames = {} /\ MdNames \cap Durable = {}
  /\ \A k \in ZipKeys : Zip(k) \in ZipNames /\ KeyOf(Zip(k)) = k
  /\ \A n \in Durable : KeyOf(n) \in ZipKeys
  /\ \A k \in ZipKeys : Sidecar(k) \in SidecarNames
  BY DEF ZipNames, SidecarNames, MdNames, Durable, Names, Zip, Sidecar, Md, KeyOf

\* The invariant contains the type invariant.
LEMMA Typed == IInv => TypeOK
  BY NoneApart DEF IInv, FilesTyped, OpsTyped, LocksTyped, RestTyped, TypeOK, LockShape, Free

\* An empty cache and idle threads.
LEMMA Initially == Init => IInv
<1> SUFFICES ASSUME Init PROVE IInv
  OBVIOUS
<1>1. FilesTyped
  BY NameFacts DEF Init, FilesTyped, SidecarsBacked, Backed
<1>2. OpsTyped
  BY DEF Init, OpsTyped, WritersBacked, Shape, VerifiedWasServed, Idle, Stage
<1>3. LocksTyped
  BY NoneApart DEF Init, LocksTyped, LockShape, Writing, Idle
<1>4. RestTyped
  BY BoundsNat DEF Init, RestTyped
<1> QED BY <1>1, <1>2, <1>3, <1>4 DEF IInv

-----------------------------------------------------------------------------
\* Directories: each change of a name keeps the sidecars backed.

\* Renaming over a name, or unlinking it.
LEMMA ShowKeeps ==
  ASSUME FilesTyped, NEW n \in Names, NEW f \in File \cup {None}, Show(n, f),
         served' = served, n \in SidecarNames => Backed(f)
  PROVE  FilesTyped'
<1>1. content' \in [Names -> File \cup {None}] /\ disk' \in [Durable -> SUBSET (File \cup {None})]
  BY DEF FilesTyped, Show
<1>2. SidecarsBacked'
  <2> SUFFICES ASSUME NEW m \in SidecarNames
               PROVE  Backed(content[m])' /\ \A g \in disk'[m] : Backed(g)'
    BY DEF SidecarsBacked, Backed
  <2>1. m \in Durable /\ m \in Names
    BY NameFacts
  <2> QED BY <2>1, NameFacts DEF FilesTyped, SidecarsBacked, Show, Backed
<1> QED BY <1>1, <1>2 DEF FilesTyped

\* Syncing the directories of the names S.
LEMMA SyncKeeps ==
  ASSUME FilesTyped, NEW S,
         content' \in [Names -> File \cup {None}],
         \A m \in SidecarNames : content'[m] = content[m] \/ content'[m] = None,
         disk' = [m \in Durable |-> IF m \in S THEN {content'[m]} ELSE disk[m]],
         served' = served
  PROVE  FilesTyped'
  BY NameFacts DEF FilesTyped, SidecarsBacked, Backed

\* Nothing in the directories changes; more may have been served.
LEMMA FilesIdle ==
  ASSUME FilesTyped, UNCHANGED <<content, disk>>, served \subseteq served'
  PROVE  FilesTyped'
  BY DEF FilesTyped, SidecarsBacked, Backed

-----------------------------------------------------------------------------
\* Threads: only the one that moves changes.

\* t moves to a place that carries what the move says.
LEMMA MoveKeeps ==
  ASSUME OpsTyped, NEW t \in Threads, NEW o, op' = [op EXCEPT ![t] = o],
         o \in [at : Stage, name : Names \cup {None}, file : File \cup Answer \cup {None}],
         served \subseteq served',
         o.at \in {"opened", "bare", "zipped", "paired", "trimming"} => o.file \in File,
         o.at = "opened" => o.name \in ZipNames \cup MdNames,
         o.at \in {"bare", "zipped", "paired", "reading", "verifying"} => o.name \in ZipNames,
         o.at = "zipped" => o.file.url # None,
         o.at = "verifying" => o.file \in File \cup {None},
         o.at \in {"opened", "bare", "zipped"} /\ o.file.url # None
           => <<o.file.bytes, o.file.url>> \in served',
         o.at = "answered" => <<o.file.bytes, o.file.url>> \in served'
  PROVE  OpsTyped'
<1>1. op' \in [Threads -> [at : Stage, name : Names \cup {None}, file : File \cup Answer \cup {None}]]
  BY DEF OpsTyped
<1>2. op'[t] = o /\ \A u \in Threads : u # t => op'[u] = op[u]
  BY DEF OpsTyped
<1>3. WritersBacked'
  BY <1>2 DEF OpsTyped, WritersBacked
<1>4. Shape'
  BY <1>2 DEF OpsTyped, Shape
<1>5. VerifiedWasServed'
  BY <1>2 DEF OpsTyped, VerifiedWasServed
<1> QED BY <1>1, <1>3, <1>4, <1>5 DEF OpsTyped

\* t goes on to the next place with the name and file it has.
LEMMA GotoKeeps ==
  ASSUME OpsTyped, NEW t \in Threads, NEW s \in Stage, Goto(t, s), served' = served,
         s \in {"bare", "zipped", "paired", "trimming", "raised"},
         s \in {"bare", "zipped", "paired", "trimming"} => op[t].file \in File,
         s \in {"bare", "zipped", "paired"} => op[t].name \in ZipNames,
         s = "zipped" => op[t].file.url # None,
         s \in {"bare", "zipped"} /\ op[t].file.url # None
           => <<op[t].file.bytes, op[t].file.url>> \in served
  PROVE  OpsTyped'
<1>1. /\ op' \in [Threads -> [at : Stage, name : Names \cup {None}, file : File \cup Answer \cup {None}]]
      /\ op'[t].at = s /\ op'[t].name = op[t].name /\ op'[t].file = op[t].file
      /\ \A u \in Threads : u # t => op'[u] = op[u]
  BY DEF OpsTyped, Goto
<1>2. WritersBacked' /\ Shape' /\ VerifiedWasServed'
  BY <1>1 DEF OpsTyped, WritersBacked, Shape, VerifiedWasServed
<1> QED BY <1>1, <1>2 DEF OpsTyped

\* t is done or cut short.
LEMMA IdleKeeps ==
  ASSUME OpsTyped, NEW t \in Threads, op' = [op EXCEPT ![t] = Idle], served' = served
  PROVE  OpsTyped'
  BY MoveKeeps DEF Idle, Stage

\* No thread moves.
LEMMA OpsIdle == ASSUME OpsTyped, UNCHANGED <<op, served>> PROVE OpsTyped'
  BY DEF OpsTyped, WritersBacked, Shape, VerifiedWasServed

-----------------------------------------------------------------------------
\* Actions.

\* The stage of the thread that moves, and the stages of the others.
LEMMA StageOf ==
  ASSUME OpsTyped, NEW t \in Threads
  PROVE  /\ \A s : Goto(t, s) =>
              /\ op'[t].at = s /\ op'[t].name = op[t].name /\ op'[t].file = op[t].file
              /\ \A u \in Threads : u # t => op'[u] = op[u]
         /\ op' = [op EXCEPT ![t] = Idle] =>
              /\ op'[t].at = "idle"
              /\ \A u \in Threads : u # t => op'[u] = op[u]
  BY DEF OpsTyped, Goto, Idle

\* The beginning of a put.
LEMMA OpenKeeps ==
  ASSUME IInv, NEW t \in Threads, NEW n \in ZipNames \cup MdNames, NEW p \in Payloads,
         NEW u \in Urls \cup {None}, Open(t, n, p, u)
  PROVE  IInv'
<1> DEFINE f == [bytes |-> p, url |-> u, ctime |-> puts + 1]
<1>1. f \in File /\ puts + 1 \in 0 .. MaxPuts
  BY BoundsNat DEF IInv, RestTyped, Open, File
<1>2. served \subseteq served' /\ served' \in SUBSET (Payloads \X Urls)
  BY DEF IInv, RestTyped, Open
<1>3. FilesTyped'
  BY <1>2, FilesIdle DEF IInv, Open
<1>4. op' = [op EXCEPT ![t] = [at |-> "opened", name |-> n, file |-> f]]
  BY DEF Open, At
<1>5. u # None => <<p, u>> \in served'
  BY DEF Open
<1>6. OpsTyped'
  BY <1>1, <1>2, <1>4, <1>5, NameFacts, MoveKeeps DEF IInv, Stage
<1>7. LocksTyped'
  BY <1>4, NoneApart DEF IInv, OpsTyped, LocksTyped, LockShape, Writing, Free, Open
<1>8. RestTyped'
  BY <1>1, <1>2 DEF IInv, RestTyped, Open
<1> QED BY <1>3, <1>6, <1>7, <1>8 DEF IInv

\* The sidecar is removed and the key taken.
LEMMA DropSidecarKeeps == ASSUME IInv, NEW t \in Threads, DropSidecar(t) PROVE IInv'
<1> DEFINE side == Sidecar(KeyOf(op[t].name))
<1>1. /\ op[t].at = "opened" /\ op[t].name \in ZipNames
      /\ op[t].file \in File
      /\ KeyOf(op[t].name) \in ZipKeys /\ side \in SidecarNames /\ side \in Names
  BY NameFacts DEF DropSidecar, IInv, OpsTyped, Shape
<1>2. ASSUME UnlinkSynced(side, SidecarNames) PROVE FilesTyped'
  <2>1. content' \in [Names -> File \cup {None}]
        /\ \A m \in SidecarNames : content'[m] = content[m] \/ content'[m] = None
    BY <1>1, <1>2, NameFacts DEF UnlinkSynced, IInv, FilesTyped
  <2> QED BY <1>2, <2>1, SyncKeeps DEF UnlinkSynced, IInv, DropSidecar
<1>3. FilesTyped'
  BY <1>2, FilesIdle DEF DropSidecar, IInv
<1>4. OpsTyped'
  BY <1>1, GotoKeeps DEF DropSidecar, IInv, OpsTyped, WritersBacked, Stage
<1>5. LocksTyped'
  BY <1>1, StageOf DEF IInv, LocksTyped, LockShape, LockKey, Writing, DropSidecar
<1>6. RestTyped'
  BY DEF IInv, RestTyped, DropSidecar
<1> QED BY <1>3, <1>4, <1>5, <1>6 DEF IInv

\* The ZIP is renamed into place.
LEMMA InstallZipKeeps == ASSUME IInv, NEW t \in Threads, InstallZip(t) PROVE IInv'
<1>1. /\ op[t].at = "bare" /\ op[t].name \in ZipNames /\ op[t].file \in File
      /\ op[t].name \in Names /\ op[t].name \notin SidecarNames
      /\ KeyOf(op[t].name) \in ZipKeys
  BY NameFacts DEF InstallZip, IInv, OpsTyped, Shape
<1>2. FilesTyped'
  BY <1>1, ShowKeeps DEF InstallZip, IInv
<1>3. OpsTyped'
  BY <1>1, GotoKeeps DEF InstallZip, IInv, OpsTyped, WritersBacked, Stage
<1>4. LocksTyped'
  <2>1. CASE Goto(t, "zipped") /\ UNCHANGED keyLock
    BY <1>1, <2>1, StageOf DEF IInv, LocksTyped, LockShape, Writing, InstallZip
  <2>2. CASE Goto(t, "trimming") /\ UnlockKey(KeyOf(op[t].name))
    BY <1>1, <2>2, StageOf, NoneApart DEF IInv, LocksTyped, LockShape, UnlockKey, Writing, InstallZip
  <2> QED BY <2>1, <2>2 DEF InstallZip
<1>5. RestTyped'
  BY DEF IInv, RestTyped, InstallZip
<1> QED BY <1>2, <1>3, <1>4, <1>5 DEF IInv

\* The sidecar is renamed into place: what it says was downloaded.
LEMMA InstallSidecarKeeps == ASSUME IInv, NEW t \in Threads, InstallSidecar(t) PROVE IInv'
<1>1. /\ op[t].at = "zipped" /\ op[t].name \in ZipNames /\ op[t].file \in File
      /\ Sidecar(KeyOf(op[t].name)) \in Names
      /\ Backed(op[t].file)
  BY NameFacts DEF InstallSidecar, IInv, OpsTyped, Shape, WritersBacked, Backed
<1>2. FilesTyped'
  BY <1>1, ShowKeeps DEF InstallSidecar, IInv
<1>3. OpsTyped'
  BY <1>1, GotoKeeps DEF InstallSidecar, IInv, Stage
<1>4. LocksTyped'
  BY <1>1, StageOf DEF IInv, LocksTyped, LockShape, Writing, InstallSidecar
<1>5. RestTyped'
  BY DEF IInv, RestTyped, InstallSidecar
<1> QED BY <1>2, <1>3, <1>4, <1>5 DEF IInv

\* Both directories are synced and the key released.
LEMMA SyncPairKeeps == ASSUME IInv, NEW t \in Threads, SyncPair(t) PROVE IInv'
<1>1. /\ op[t].at = "paired" /\ op[t].name \in ZipNames /\ op[t].file \in File
      /\ KeyOf(op[t].name) \in ZipKeys
  BY NameFacts DEF SyncPair, IInv, OpsTyped, Shape
<1>2. FilesTyped'
  <2>1. disk' = [m \in Durable |-> IF m \in Durable THEN {content'[m]} ELSE disk[m]]
    BY DEF SyncPair
  <2> QED BY <2>1, SyncKeeps DEF SyncPair, IInv, FilesTyped
<1>3. OpsTyped'
  BY <1>1, GotoKeeps DEF SyncPair, IInv, Stage
<1>4. LocksTyped'
  BY <1>1, StageOf, NoneApart DEF IInv, LocksTyped, LockShape, UnlockKey, Writing, SyncPair
<1>5. RestTyped'
  BY DEF IInv, RestTyped, SyncPair
<1> QED BY <1>2, <1>3, <1>4, <1>5 DEF IInv

\* A Markdown archive is renamed into place.
LEMMA InstallMdKeeps == ASSUME IInv, NEW t \in Threads, InstallMd(t) PROVE IInv'
<1>1. /\ op[t].at = "opened" /\ op[t].file \in File
      /\ op[t].name \in Names /\ op[t].name \notin SidecarNames
  BY NameFacts DEF InstallMd, IInv, OpsTyped, Shape
<1>2. FilesTyped'
  BY <1>1, ShowKeeps DEF InstallMd, IInv
<1>3. OpsTyped'
  BY <1>1, GotoKeeps DEF InstallMd, IInv, Stage
<1>4. LocksTyped'
  BY <1>1, StageOf DEF IInv, LocksTyped, LockShape, Writing, InstallMd
<1>5. RestTyped'
  BY DEF IInv, RestTyped, InstallMd
<1> QED BY <1>2, <1>3, <1>4, <1>5 DEF IInv

\* Eviction, and the end of a put.
LEMMA TrimKeeps ==
  ASSUME IInv, NEW t \in Threads, EndPut(t) \/ \E n \in Names : Evict(t, n)
  PROVE  IInv'
<1>1. ASSUME NEW n \in Names, Evict(t, n) PROVE IInv'
  <2>1. FilesTyped'
    BY <1>1, ShowKeeps DEF Evict, IInv, Backed
  <2>2. OpsTyped' /\ LocksTyped' /\ RestTyped'
    BY <1>1, OpsIdle DEF Evict, IInv, LocksTyped, LockShape, Writing, RestTyped
  <2> QED BY <2>1, <2>2 DEF IInv
<1>2. CASE EndPut(t)
  <2>1. FilesTyped' /\ OpsTyped'
    BY <1>2, FilesIdle, IdleKeeps DEF EndPut, IInv
  <2>2. op'[t].at = "idle" /\ \A u \in Threads : u # t => op'[u] = op[u]
    BY <1>2, StageOf DEF EndPut, IInv
  <2>3. LocksTyped'
    BY <1>2, <2>2, NoneApart DEF EndPut, IInv, LocksTyped, LockShape, Writing
  <2>4. RestTyped'
    BY <1>2 DEF EndPut, IInv, RestTyped
  <2> QED BY <2>1, <2>3, <2>4 DEF IInv
<1> QED BY <1>1, <1>2

\* The beginning of a purge.
LEMMA OpenPurgeKeeps ==
  ASSUME IInv, NEW t \in Threads, NEW scope \in SUBSET Names, OpenPurge(t, scope)
  PROVE  IInv'
<1>1. FilesTyped'
  BY FilesIdle DEF OpenPurge, IInv
<1>2. OpsTyped'
  BY MoveKeeps DEF OpenPurge, At, IInv, Stage
<1>3. op'[t].at = "purging" /\ \A u \in Threads : u # t => op'[u] = op[u]
  BY DEF OpenPurge, At, IInv, OpsTyped
<1>4. \A u \in Threads : ~ Writing(u)
  BY NoneApart DEF OpenPurge, IInv, LocksTyped
<1>5. LockShape'
  BY <1>3, <1>4 DEF OpenPurge, IInv, LocksTyped, LockShape, Writing, Free
<1>6. LocksTyped'
  BY <1>3, <1>4, <1>5 DEF OpenPurge, IInv, LocksTyped, Writing
<1>7. RestTyped'
  BY DEF OpenPurge, IInv, RestTyped
<1> QED BY <1>1, <1>2, <1>6, <1>7 DEF IInv

\* A purge collects its keys, deletes and ends.
LEMMA PurgeKeeps ==
  ASSUME IInv, NEW t \in Threads,
         \/ EndPurge(t)
         \/ \E k \in ZipKeys : PurgeLock(t, k)
         \/ \E n \in Names : PurgeFile(t, n)
  PROVE  IInv'
<1>1. ASSUME NEW k \in ZipKeys, PurgeLock(t, k) PROVE IInv'
  <2>1. FilesTyped' /\ OpsTyped' /\ RestTyped'
    BY <1>1, FilesIdle, OpsIdle DEF PurgeLock, IInv, RestTyped
  <2>2. todo \cap Durable # {}
    BY <1>1 DEF PurgeLock, ToLock
  <2>3. LocksTyped'
    BY <1>1, <2>2 DEF PurgeLock, LockKey, IInv, LocksTyped, LockShape, Writing
  <2> QED BY <2>1, <2>3 DEF IInv
<1>2. ASSUME NEW n \in Names, PurgeFile(t, n) PROVE IInv'
  <2>1. FilesTyped' /\ OpsTyped' /\ RestTyped'
    BY <1>2, ShowKeeps, OpsIdle DEF PurgeFile, IInv, RestTyped, Backed
  <2>2. op[t].at = "purging" /\ tree = t
    BY <1>2 DEF PurgeFile, IInv, LocksTyped, Writing
  <2>3. \A u \in Threads : u # t => op[u].at # "purging"
    BY <2>2, NoneApart DEF IInv, LocksTyped, Writing
  <2>4. keyLock' \in [ZipKeys -> Threads \cup {None}]
    BY <1>2 DEF PurgeFile, Unheld, IInv, LocksTyped
  <2>5. \A u \in Threads, k \in ZipKeys :
          keyLock'[k] = u => keyLock[k] = u /\ (u = t => todo' \cap Durable # {})
    BY <1>2, NoneApart DEF PurgeFile, Unheld, IInv, LocksTyped
  <2>6. LockShape'
    BY <1>2, <2>2, <2>3, <2>5 DEF PurgeFile, IInv, LocksTyped, LockShape
  <2>7. LocksTyped'
    BY <1>2, <2>4, <2>6 DEF PurgeFile, IInv, LocksTyped, Writing
  <2> QED BY <2>1, <2>7 DEF IInv
<1>3. CASE EndPurge(t)
  <2>1. FilesTyped' /\ OpsTyped' /\ RestTyped'
    BY <1>3, FilesIdle, IdleKeeps DEF EndPurge, IInv, RestTyped
  <2>2. op'[t].at = "idle" /\ \A u \in Threads : u # t => op'[u] = op[u]
    BY <1>3, StageOf DEF EndPurge, IInv
  <2>3. LocksTyped'
    BY <1>3, <2>2, NoneApart DEF EndPurge, IInv, LocksTyped, LockShape, Writing
  <2> QED BY <2>1, <2>3 DEF IInv
<1> QED BY <1>1, <1>2, <1>3

\* A verified read takes the key and the bytes.
LEMMA ReadKeeps ==
  ASSUME IInv, NEW t \in Threads, ReadZip(t) \/ \E k \in ZipKeys : OpenRead(t, k)
  PROVE  IInv'
<1>1. ASSUME NEW k \in ZipKeys, OpenRead(t, k) PROVE IInv'
  <2>1. Zip(k) \in ZipNames /\ Zip(k) \in Names /\ KeyOf(Zip(k)) = k
    BY NameFacts
  <2>2. FilesTyped' /\ RestTyped'
    BY <1>1, FilesIdle DEF OpenRead, IInv, RestTyped
  <2>3. OpsTyped'
    BY <1>1, <2>1, MoveKeeps DEF OpenRead, At, IInv, Stage
  <2>4. /\ op'[t].at = "reading" /\ op'[t].name = Zip(k)
        /\ \A u \in Threads : u # t => op'[u] = op[u]
    BY <1>1 DEF OpenRead, At, IInv, OpsTyped
  <2>5. keyLock' \in [ZipKeys -> Threads \cup {None}]
    BY <1>1 DEF OpenRead, LockKey, IInv, LocksTyped
  <2>6. LockShape'
    BY <1>1, <2>1, <2>4 DEF OpenRead, LockKey, IInv, LocksTyped, LockShape, Free
  <2>7. LocksTyped'
    BY <1>1, <2>4, <2>5, <2>6 DEF OpenRead, IInv, LocksTyped, Writing, Free
  <2> QED BY <2>2, <2>3, <2>7 DEF IInv
<1>2. CASE ReadZip(t)
  <2>1. op[t].at = "reading" /\ op[t].name \in ZipNames /\ op[t].name \in Names
    BY <1>2, NameFacts DEF ReadZip, IInv, OpsTyped, Shape
  <2>2. content[op[t].name] \in File \cup {None}
    BY <2>1 DEF IInv, FilesTyped
  <2>3. FilesTyped' /\ RestTyped'
    BY <1>2, FilesIdle DEF ReadZip, IInv, RestTyped
  <2>4. OpsTyped'
    BY <1>2, <2>1, <2>2, MoveKeeps DEF ReadZip, At, IInv, Stage
  <2>5. /\ op'[t].at = "verifying" /\ op'[t].name = op[t].name
        /\ \A u \in Threads : u # t => op'[u] = op[u]
    BY <1>2 DEF ReadZip, At, IInv, OpsTyped
  <2>6. LocksTyped'
    BY <1>2, <2>1, <2>5 DEF ReadZip, IInv, LocksTyped, LockShape, Writing
  <2> QED BY <2>3, <2>4, <2>6 DEF IInv
<1> QED BY <1>1, <1>2

\* The answer: the bytes match a sidecar whose (bytes, url) was downloaded.
LEMMA VerifyKeeps == ASSUME IInv, NEW t \in Threads, Verify(t) PROVE IInv'
<1> DEFINE zip == op[t].file
           side == content[Sidecar(KeyOf(op[t].name))]
           o == IF Verified(zip, side)
                THEN [at |-> "answered", name |-> None,
                      file |-> [bytes |-> zip.bytes, url |-> side.url, source |-> zip.url]]
                ELSE Idle
<1>1. /\ op[t].at = "verifying" /\ op[t].name \in ZipNames /\ zip \in File \cup {None}
      /\ Sidecar(KeyOf(op[t].name)) \in SidecarNames
  BY NameFacts DEF Verify, IInv, OpsTyped, Shape
<1>2. side \in File \cup {None} /\ Backed(side)
  BY <1>1, NameFacts DEF IInv, FilesTyped, SidecarsBacked
<1>3. Verified(zip, side) =>
        /\ <<zip.bytes, side.url>> \in served
        /\ [bytes |-> zip.bytes, url |-> side.url, source |-> zip.url] \in Answer
  <2> SUFFICES ASSUME Verified(zip, side)
               PROVE  /\ <<zip.bytes, side.url>> \in served
                      /\ [bytes |-> zip.bytes, url |-> side.url, source |-> zip.url] \in Answer
    OBVIOUS
  <2>1. /\ zip \in File /\ side \in File /\ zip.bytes = side.bytes
        /\ <<side.bytes, side.url>> \in served
    BY <1>1, <1>2 DEF Verified, Backed
  <2>2. side.url \in Urls
    BY <2>1 DEF IInv, RestTyped
  <2> QED BY <2>1, <2>2 DEF File, Answer
<1>4. op' = [op EXCEPT ![t] = o]
  BY DEF Verify, At
<1>5. o \in [at : Stage, name : Names \cup {None}, file : File \cup Answer \cup {None}]
  BY <1>3 DEF Idle, Stage
<1>6. o.at \in {"answered", "idle"} /\ (o.at = "answered" => <<o.file.bytes, o.file.url>> \in served)
  BY <1>3 DEF Idle
<1>7. OpsTyped'
  BY <1>4, <1>5, <1>6, MoveKeeps DEF Verify, IInv
<1>8. FilesTyped' /\ RestTyped'
  BY FilesIdle DEF Verify, IInv, RestTyped
<1>9. op'[t].at \in {"answered", "idle"} /\ \A u \in Threads : u # t => op'[u] = op[u]
  BY <1>4, <1>6 DEF IInv, OpsTyped
<1>10. LocksTyped'
  BY <1>1, <1>9, NoneApart DEF Verify, Unheld, IInv, LocksTyped, LockShape, Writing
<1> QED BY <1>7, <1>8, <1>10 DEF IInv

\* The unlocked read.
LEMMA GetBytesKeeps ==
  ASSUME IInv, NEW t \in Threads, ReadBytes(t) \/ \E n \in MdNames : Check(t, n)
  PROVE  IInv'
<1>1. FilesTyped' /\ RestTyped'
  BY FilesIdle DEF ReadBytes, Check, IInv, RestTyped
<1>2. OpsTyped'
  <2>1. ASSUME NEW n \in MdNames, Check(t, n) PROVE OpsTyped'
    BY <2>1, NameFacts, MoveKeeps DEF Check, At, IInv, Stage
  <2>2. CASE ReadBytes(t)
    BY <2>2, IdleKeeps, GotoKeeps DEF ReadBytes, IInv, Stage
  <2> QED BY <2>1, <2>2
<1>3. /\ op'[t].at \in {"idle", "raised", "checked"}
      /\ op[t].at \in {"idle", "raised", "checked", "answered"}
      /\ \A u \in Threads : u # t => op'[u] = op[u]
  BY DEF ReadBytes, Check, At, Goto, Idle, IInv, OpsTyped, Free
<1>4. UNCHANGED <<tree, keyLock, todo>>
  BY DEF ReadBytes, Check
<1>5. LocksTyped'
  BY <1>3, <1>4 DEF IInv, LocksTyped, LockShape, Writing
<1> QED BY <1>1, <1>2, <1>5 DEF IInv

\* An exception or a death in one thread.
LEMMA InterruptKeeps == ASSUME IInv, NEW t \in Threads, Interrupt(t) PROVE IInv'
<1>1. FilesTyped' /\ RestTyped'
  BY FilesIdle DEF Interrupt, IInv, RestTyped
<1>2. OpsTyped'
  BY IdleKeeps DEF Interrupt, IInv
<1>3. op'[t].at = "idle" /\ \A u \in Threads : u # t => op'[u] = op[u]
  BY StageOf DEF Interrupt, IInv
<1>4. \A u \in Threads, k \in ZipKeys : keyLock'[k] = u => keyLock[k] = u /\ u # t
  BY NoneApart DEF Interrupt, Unheld, IInv, LocksTyped
<1>5. \A u \in Threads : op[u].at = "purging" /\ u # t => todo' = todo
  BY NoneApart DEF Interrupt, IInv, LocksTyped, Writing
<1>6. LockShape'
  BY <1>3, <1>4, <1>5 DEF IInv, LocksTyped, LockShape
<1>7. LocksTyped'
  BY <1>3, <1>6, NoneApart DEF Interrupt, Unheld, IInv, LocksTyped, Writing
<1> QED BY <1>1, <1>2, <1>7 DEF IInv

\* A power loss leaves under each name something that was there.
LEMMA PowerLossKeeps == ASSUME IInv, PowerLoss PROVE IInv'
<1>1. PICK left \in [Durable -> UNION {disk[n] : n \in Durable}] :
        /\ \A n \in Durable : left[n] \in disk[n]
        /\ content' = [n \in Names |-> IF n \in Durable THEN left[n] ELSE content[n]]
        /\ disk' = [n \in Durable |-> {left[n]}]
  BY DEF PowerLoss
<1>2. content' \in [Names -> File \cup {None}] /\ disk' \in [Durable -> SUBSET (File \cup {None})]
  BY <1>1 DEF IInv, FilesTyped
<1>3. SidecarsBacked'
  BY <1>1, NameFacts DEF PowerLoss, IInv, FilesTyped, SidecarsBacked, Backed
<1>4. \A t \in Threads : op'[t].at = "idle"
  BY DEF PowerLoss, Idle
<1>5. OpsTyped'
  BY <1>4 DEF PowerLoss, Idle, Stage, OpsTyped, WritersBacked, Shape, VerifiedWasServed
<1>6. LocksTyped'
  BY <1>4, NoneApart DEF PowerLoss, LocksTyped, LockShape, Writing
<1>7. RestTyped'
  BY BoundsNat DEF PowerLoss, IInv, RestTyped
<1> QED BY <1>2, <1>3, <1>5, <1>6, <1>7 DEF IInv, FilesTyped

\* The invariant is inductive.
LEMMA Inductive == IInv /\ [Next]_vars => IInv'
<1> SUFFICES ASSUME IInv, [Next]_vars PROVE IInv'
  OBVIOUS
<1>1. ASSUME NEW t \in Threads, Begin(t) PROVE IInv'
  <2>1. {Durable, MdNames, Names} \subseteq SUBSET Names
    BY NameFacts
  <2> QED BY <1>1, <2>1, OpenKeeps, OpenPurgeKeeps, ReadKeeps, GetBytesKeeps DEF Begin
<1>2. ASSUME NEW t \in Threads, Step(t) PROVE IInv'
  BY <1>2, DropSidecarKeeps, InstallZipKeeps, InstallSidecarKeeps, SyncPairKeeps, InstallMdKeeps,
     TrimKeeps, PurgeKeeps, ReadKeeps, VerifyKeeps, GetBytesKeeps DEF Step
<1>3. CASE UNCHANGED vars
  BY <1>3, FilesIdle, OpsIdle DEF vars, IInv, LocksTyped, LockShape, Writing, RestTyped
<1> QED BY <1>1, <1>2, <1>3, InterruptKeeps, PowerLossKeeps DEF Next

-----------------------------------------------------------------------------
\* Types and lock ownership, for any threads, keys, contents and limits.
THEOREM TypeCorrect == Spec => []TypeOK
  BY Initially, Inductive, Typed, PTL DEF Spec

\* A verified read returns bytes that were downloaded from the url it names.
THEOREM VerifiedReadsWereServed == Spec => []VerifiedWasServed
<1>1. IInv => VerifiedWasServed
  BY DEF IInv, OpsTyped
<1> QED BY <1>1, Initially, Inductive, PTL DEF Spec

-----------------------------------------------------------------------------
\* Authority.

\* Between its first and its last step on a key a thread has that key's lock.
Holding == {"bare", "zipped", "paired", "reading", "verifying"}
Holds == \A t \in Threads : op[t].at \in Holding => keyLock[KeyOf(op[t].name)] = t

\* A sidecar beside a ZIP is the one of that ZIP's url.
Paired ==
  \A k \in ZipKeys :
    content[Zip(k)] # None /\ content[Sidecar(k)] # None
      => content[Sidecar(k)].url = content[Zip(k)].url

\* What a thread knows of the names whose key it holds.
KnowsOf(t) ==
  /\ op[t].at = "verifying" => op[t].file = content[op[t].name]
  /\ op[t].at \in {"bare", "zipped"} => content[Sidecar(KeyOf(op[t].name))] = None
  /\ op[t].at = "zipped" => content[op[t].name] = op[t].file
SourceOf(t) == op[t].at = "answered" => op[t].file.url = op[t].file.source

AuthorityInv ==
  /\ Holds
  /\ losses = 0 => Paired /\ \A t \in Threads : KnowsOf(t) /\ SourceOf(t)

\* Names of a key, and the key of a name.
LEMMA KeyFacts ==
  /\ \A k \in ZipKeys : Zip(k) \in Names /\ Sidecar(k) \in Names
  /\ \A k \in ZipKeys : KeyOf(Zip(k)) = k /\ KeyOf(Sidecar(k)) = k
  /\ \A n \in ZipNames : n = Zip(KeyOf(n)) /\ KeyOf(n) \in ZipKeys /\ n \in Names
  /\ \A j, k \in ZipKeys : Zip(j) # Sidecar(k) /\ (j # k => Zip(j) # Zip(k) /\ Sidecar(j) # Sidecar(k))
  /\ \A k \in ZipKeys, n \in MdNames : n # Zip(k) /\ n # Sidecar(k)
BY DEF ZipNames, SidecarNames, MdNames, Durable, Names, Zip, Sidecar, Md, KeyOf

\* What must be shown of a step of one thread: it leaves alone what is under the
\* lock of another.
LEMMA OneThread ==
  ASSUME IInv, AuthorityInv, NEW t \in Threads, losses' = losses,
         \A u \in Threads \ {t} : op'[u] = op[u],
         \A u \in Threads \ {t}, k \in ZipKeys :
           keyLock[k] = u => /\ keyLock'[k] = u
                             /\ content'[Zip(k)] = content[Zip(k)]
                             /\ content'[Sidecar(k)] = content[Sidecar(k)],
         op'[t].at \in Holding => keyLock'[KeyOf(op'[t].name)] = t,
         losses = 0 => Paired' /\ KnowsOf(t)' /\ SourceOf(t)'
  PROVE  AuthorityInv'
<1>1. ASSUME NEW u \in Threads \ {t}, op[u].at \in Holding
      PROVE  /\ op[u].name = Zip(KeyOf(op[u].name)) /\ KeyOf(op[u].name) \in ZipKeys
             /\ keyLock[KeyOf(op[u].name)] = u
  BY <1>1, KeyFacts DEF AuthorityInv, Holds, IInv, OpsTyped, Shape, Holding
<1>2. Holds'
  BY <1>1 DEF Holds
<1>3. ASSUME losses = 0, NEW u \in Threads \ {t}
      PROVE  KnowsOf(u)' /\ SourceOf(u)'
  <2>1. op'[u] = op[u] /\ KnowsOf(u) /\ SourceOf(u)
    BY <1>3 DEF AuthorityInv
  <2>2. CASE op[u].at \in Holding
    <3>1. /\ content'[op[u].name] = content[op[u].name]
          /\ content'[Sidecar(KeyOf(op[u].name))] = content[Sidecar(KeyOf(op[u].name))]
      BY <1>1, <2>2
    <3> QED
      BY <2>1, <3>1 DEF KnowsOf, SourceOf
  <2>3. CASE op[u].at \notin Holding
    BY <2>1, <2>3 DEF KnowsOf, SourceOf, Holding
  <2> QED
    BY <2>2, <2>3
<1> QED
  BY <1>2, <1>3 DEF AuthorityInv

\* The typing that every step needs.
LEMMA Plain ==
  ASSUME IInv
  PROVE  /\ content \in [Names -> File \cup {None}]
         /\ op \in [Threads -> [at : Stage, name : Names \cup {None},
                                file : File \cup Answer \cup {None}]]
         /\ keyLock \in [ZipKeys -> Threads \cup {None}]
         /\ \A u \in Threads : Writing(u) <=> tree = u
BY DEF IInv, FilesTyped, OpsTyped, LocksTyped

\* A step that touches no file and brings its thread to a place of no account.
LEMMA Elsewhere ==
  ASSUME IInv, AuthorityInv, NEW t \in Threads, UNCHANGED <<content, losses>>,
         \A u \in Threads \ {t} : op'[u] = op[u],
         \A u \in Threads \ {t}, k \in ZipKeys : keyLock[k] = u => keyLock'[k] = u,
         op'[t].at \notin Holding \cup {"answered"}
  PROVE  AuthorityInv'
BY OneThread DEF AuthorityInv, Paired, KnowsOf, SourceOf, Holding

\* Removing a file leaves pairs.
LEMMA RemovalPairs ==
  ASSUME IInv, Paired, NEW n \in Names, content' = [content EXCEPT ![n] = None]
  PROVE  Paired'
BY Plain, KeyFacts DEF Paired

\* The steps of a put.
LEMMA PutAuthority ==
  ASSUME IInv, AuthorityInv, NEW t \in Threads,
         \/ \E n \in ZipNames \cup MdNames, p \in Payloads, u \in Urls \cup {None} : Open(t, n, p, u)
         \/ DropSidecar(t) \/ InstallZip(t) \/ InstallSidecar(t) \/ SyncPair(t) \/ InstallMd(t)
         \/ EndPut(t)
  PROVE  AuthorityInv'
<1>1. /\ content \in [Names -> File \cup {None}]
      /\ op \in [Threads -> [at : Stage, name : Names \cup {None},
                             file : File \cup Answer \cup {None}]]
      /\ keyLock \in [ZipKeys -> Threads \cup {None}]
      /\ None \notin Threads
  BY Plain, NoneApart
<1>2. CASE \E n \in ZipNames \cup MdNames, p \in Payloads, u \in Urls \cup {None} : Open(t, n, p, u)
  BY <1>1, <1>2, Elsewhere DEF Open, At, Holding
<1>3. CASE DropSidecar(t)
  <2> DEFINE k == KeyOf(op[t].name)
  <2>1. op[t].name = Zip(k) /\ k \in ZipKeys /\ keyLock[k] = None
    BY <1>3, KeyFacts DEF DropSidecar, LockKey
  <2>2. content' = content \/ content' = [content EXCEPT ![Sidecar(k)] = None]
    BY <1>3 DEF DropSidecar, UnlinkSynced
  <2>3. content'[Sidecar(k)] = None
    BY <1>1, <1>3, <2>1, KeyFacts DEF DropSidecar, UnlinkSynced, Present
  <2>4. op' = [op EXCEPT ![t].at = "bare"] /\ keyLock' = [keyLock EXCEPT ![k] = t] /\ losses' = losses
    BY <1>3 DEF DropSidecar, Goto, LockKey
  <2>5. ASSUME losses = 0 PROVE Paired'
    BY <2>1, <2>2, <2>5, KeyFacts, RemovalPairs DEF AuthorityInv, Paired
  <2>6. ASSUME NEW u \in Threads \ {t}, NEW j \in ZipKeys, keyLock[j] = u
        PROVE  /\ keyLock'[j] = u /\ content'[Zip(j)] = content[Zip(j)]
               /\ content'[Sidecar(j)] = content[Sidecar(j)]
    <3>1. j # k
      BY <1>1, <2>1, <2>6
    <3> QED
      BY <1>1, <2>1, <2>2, <2>4, <2>6, <3>1, KeyFacts
  <2>7. op'[t].at = "bare" /\ op'[t].name = op[t].name /\ \A u \in Threads \ {t} : op'[u] = op[u]
    BY <1>1, <2>4
  <2>8. KnowsOf(t)' /\ SourceOf(t)' /\ keyLock'[KeyOf(op'[t].name)] = t
    BY <1>1, <2>1, <2>3, <2>4, <2>7 DEF KnowsOf, SourceOf
  <2> QED
    BY <2>4, <2>5, <2>6, <2>7, <2>8, OneThread
<1>4. ASSUME op[t].at \in {"bare", "zipped", "paired"}
      PROVE  /\ op[t].name = Zip(KeyOf(op[t].name)) /\ KeyOf(op[t].name) \in ZipKeys
             /\ keyLock[KeyOf(op[t].name)] = t
             /\ op[t].file \in File
             /\ losses = 0 => Paired /\ KnowsOf(t)
  BY <1>4, KeyFacts DEF AuthorityInv, Holds, Holding, IInv, OpsTyped, Shape
<1>5. CASE InstallZip(t)
  <2> DEFINE k == KeyOf(op[t].name)
  <2>1. op[t].name = Zip(k) /\ k \in ZipKeys /\ keyLock[k] = t /\ op[t].file \in File
    BY <1>4, <1>5 DEF InstallZip
  <2>2. content' = [content EXCEPT ![Zip(k)] = op[t].file] /\ losses' = losses
    BY <1>5, <2>1 DEF InstallZip, Show
  <2>3. \/ op' = [op EXCEPT ![t].at = "zipped"] /\ keyLock' = keyLock
        \/ op' = [op EXCEPT ![t].at = "trimming"] /\ keyLock' = [keyLock EXCEPT ![k] = None]
    BY <1>5 DEF InstallZip, Goto, UnlockKey
  <2>4. ASSUME losses = 0 PROVE content'[Sidecar(k)] = None
    <3>1. content[Sidecar(k)] = None
      BY <1>4, <1>5, <2>4 DEF InstallZip, KnowsOf
    <3> QED
      BY <1>1, <2>1, <2>2, <3>1, KeyFacts
  <2>5. ASSUME losses = 0 PROVE Paired'
    <3> SUFFICES ASSUME NEW j \in ZipKeys, content'[Zip(j)] # None, content'[Sidecar(j)] # None
                 PROVE  content'[Sidecar(j)].url = content'[Zip(j)].url
      BY DEF Paired
    <3>1. j # k
      BY <2>4, <2>5
    <3>2. content'[Zip(j)] = content[Zip(j)] /\ content'[Sidecar(j)] = content[Sidecar(j)]
      BY <1>1, <2>1, <2>2, <3>1, KeyFacts
    <3> QED
      BY <2>5, <3>2 DEF AuthorityInv, Paired
  <2>6. ASSUME NEW u \in Threads \ {t}, NEW j \in ZipKeys, keyLock[j] = u
        PROVE  /\ keyLock'[j] = u /\ content'[Zip(j)] = content[Zip(j)]
               /\ content'[Sidecar(j)] = content[Sidecar(j)]
    <3>1. j # k
      BY <2>1, <2>6
    <3> QED
      BY <1>1, <2>1, <2>2, <2>3, <2>6, <3>1, KeyFacts
  <2>7. /\ op'[t].at \in {"zipped", "trimming"} /\ op'[t].name = op[t].name /\ op'[t].file = op[t].file
        /\ \A u \in Threads \ {t} : op'[u] = op[u]
        /\ op'[t].at = "zipped" => keyLock'[k] = t
    BY <1>1, <2>1, <2>3
  <2>8. content'[op[t].name] = op[t].file
    BY <1>1, <2>1, <2>2, KeyFacts
  <2>9. losses = 0 => KnowsOf(t)' /\ SourceOf(t)'
    BY <2>4, <2>7, <2>8 DEF KnowsOf, SourceOf
  <2> QED
    BY <2>2, <2>5, <2>6, <2>7, <2>9, OneThread DEF Holding
<1>6. CASE InstallSidecar(t)
  <2> DEFINE k == KeyOf(op[t].name)
  <2>1. op[t].name = Zip(k) /\ k \in ZipKeys /\ keyLock[k] = t /\ op[t].file \in File
    BY <1>4, <1>6 DEF InstallSidecar
  <2>2. content' = [content EXCEPT ![Sidecar(k)] = op[t].file] /\ losses' = losses
        /\ keyLock' = keyLock /\ op' = [op EXCEPT ![t].at = "paired"]
    BY <1>6 DEF InstallSidecar, Show, Goto
  <2>3. losses = 0 => Paired /\ content[Zip(k)] = op[t].file
    BY <1>4, <1>6, <2>1 DEF InstallSidecar, KnowsOf
  <2>4. ASSUME losses = 0 PROVE Paired'
    <3> SUFFICES ASSUME NEW j \in ZipKeys, content'[Zip(j)] # None, content'[Sidecar(j)] # None
                 PROVE  content'[Sidecar(j)].url = content'[Zip(j)].url
      BY DEF Paired
    <3>1. CASE j # k
      BY <1>1, <2>1, <2>2, <2>3, <2>4, <3>1, KeyFacts DEF Paired
    <3>2. CASE j = k
      BY <1>1, <2>1, <2>2, <2>3, <2>4, <3>2, KeyFacts
    <3> QED
      BY <3>1, <3>2
  <2>5. ASSUME NEW u \in Threads \ {t}, NEW j \in ZipKeys, keyLock[j] = u
        PROVE  /\ keyLock'[j] = u /\ content'[Zip(j)] = content[Zip(j)]
               /\ content'[Sidecar(j)] = content[Sidecar(j)]
    <3>1. j # k
      BY <2>1, <2>5
    <3> QED
      BY <1>1, <2>1, <2>2, <2>5, <3>1, KeyFacts
  <2>6. /\ op'[t].at = "paired" /\ op'[t].name = op[t].name
        /\ \A u \in Threads \ {t} : op'[u] = op[u]
    BY <1>1, <2>2
  <2>7. KnowsOf(t)' /\ SourceOf(t)'
    BY <2>6 DEF KnowsOf, SourceOf
  <2> QED
    BY <2>1, <2>2, <2>4, <2>5, <2>6, <2>7, OneThread
<1>7. CASE SyncPair(t)
  <2>1. /\ keyLock[KeyOf(op[t].name)] = t /\ KeyOf(op[t].name) \in ZipKeys
        /\ UNCHANGED <<content, losses>>
        /\ keyLock' = [keyLock EXCEPT ![KeyOf(op[t].name)] = None]
        /\ op' = [op EXCEPT ![t].at = "trimming"]
    BY <1>4, <1>7 DEF SyncPair, UnlockKey, Goto
  <2>2. \A u \in Threads \ {t}, k \in ZipKeys : keyLock[k] = u => keyLock'[k] = u
    BY <1>1, <2>1
  <2>3. op'[t].at = "trimming" /\ \A u \in Threads \ {t} : op'[u] = op[u]
    BY <1>1, <2>1
  <2> QED
    BY <2>1, <2>2, <2>3, Elsewhere DEF Holding
<1>8. CASE InstallMd(t)
  <2>1. /\ op[t].name \in MdNames /\ UNCHANGED <<keyLock, losses>>
        /\ content' = [content EXCEPT ![op[t].name] = op[t].file]
        /\ op' = [op EXCEPT ![t].at = "trimming"]
    BY <1>8 DEF InstallMd, Show, Goto
  <2>2. \A k \in ZipKeys : content'[Zip(k)] = content[Zip(k)] /\ content'[Sidecar(k)] = content[Sidecar(k)]
    BY <1>1, <2>1, KeyFacts
  <2>3. losses = 0 => Paired'
    BY <2>2 DEF AuthorityInv, Paired
  <2>4. op'[t].at = "trimming" /\ \A u \in Threads \ {t} : op'[u] = op[u]
    BY <1>1, <2>1
  <2>5. KnowsOf(t)' /\ SourceOf(t)'
    BY <2>4 DEF KnowsOf, SourceOf
  <2> QED
    BY <2>1, <2>2, <2>3, <2>4, <2>5, OneThread DEF Holding
<1>9. CASE EndPut(t)
  BY <1>1, <1>9, Elsewhere DEF EndPut, Idle, Holding
<1> QED
  BY <1>2, <1>3, <1>5, <1>6, <1>7, <1>8, <1>9

\* Evictions and purges delete under a key that is free or their own.
LEMMA DeleteAuthority ==
  ASSUME IInv, AuthorityInv, NEW t \in Threads,
         \/ \E n \in Names : Evict(t, n) \/ PurgeFile(t, n)
         \/ \E scope \in {Durable, MdNames, Names} : OpenPurge(t, scope)
         \/ \E k \in ZipKeys : PurgeLock(t, k)
         \/ EndPurge(t)
  PROVE  AuthorityInv'
<1>1. /\ content \in [Names -> File \cup {None}]
      /\ op \in [Threads -> [at : Stage, name : Names \cup {None},
                             file : File \cup Answer \cup {None}]]
      /\ keyLock \in [ZipKeys -> Threads \cup {None}]
      /\ None \notin Threads
  BY Plain, NoneApart
<1>2. ASSUME NEW n \in Names, Evict(t, n) \/ PurgeFile(t, n)
      PROVE  AuthorityInv'
  <2>1. /\ content' = [content EXCEPT ![n] = None] /\ UNCHANGED <<op, losses>>
        /\ op[t].at \in {"trimming", "purging"}
    BY <1>2 DEF Evict, PurgeFile, Show
  <2>2. n \in Durable => keyLock[KeyOf(n)] \in {None, t}
    BY <1>2 DEF Evict, PurgeFile, ToLock
  <2>3. keyLock' = keyLock \/ keyLock' = [k \in ZipKeys |-> IF keyLock[k] = t THEN None ELSE keyLock[k]]
    BY <1>2 DEF Evict, PurgeFile, Unheld
  <2>4. ASSUME NEW u \in Threads \ {t}, NEW k \in ZipKeys, keyLock[k] = u
        PROVE  /\ keyLock'[k] = u /\ content'[Zip(k)] = content[Zip(k)]
               /\ content'[Sidecar(k)] = content[Sidecar(k)]
    <3>1. n # Zip(k) /\ n # Sidecar(k)
      BY <1>1, <2>2, <2>4, KeyFacts, NameFacts
    <3> QED
      BY <1>1, <2>1, <2>3, <2>4, <3>1
  <2>5. losses = 0 => Paired'
    BY <2>1, RemovalPairs DEF AuthorityInv
  <2>6. KnowsOf(t)' /\ SourceOf(t)'
    BY <2>1 DEF KnowsOf, SourceOf
  <2> QED
    BY <2>1, <2>4, <2>5, <2>6, OneThread DEF Holding
<1>3. CASE (\E scope \in {Durable, MdNames, Names} : OpenPurge(t, scope)) \/ EndPurge(t)
  BY <1>1, <1>3, Elsewhere DEF OpenPurge, EndPurge, At, Idle, Holding
<1>4. ASSUME NEW k \in ZipKeys, PurgeLock(t, k)
      PROVE  AuthorityInv'
  <2>1. /\ UNCHANGED <<content, op, losses>> /\ op[t].at = "purging"
        /\ keyLock[k] = None /\ keyLock' = [keyLock EXCEPT ![k] = t]
    BY <1>4 DEF PurgeLock, LockKey
  <2> QED
    BY <1>1, <2>1, Elsewhere DEF Holding
<1> QED
  BY <1>2, <1>3, <1>4

\* A read has the key's lock from the ZIP to its sidecar.
LEMMA ReadAuthority ==
  ASSUME IInv, AuthorityInv, NEW t \in Threads,
         \/ \E k \in ZipKeys : OpenRead(t, k)
         \/ ReadZip(t) \/ Verify(t)
         \/ \E n \in MdNames : Check(t, n)
         \/ ReadBytes(t)
  PROVE  AuthorityInv'
<1>1. /\ content \in [Names -> File \cup {None}]
      /\ op \in [Threads -> [at : Stage, name : Names \cup {None},
                             file : File \cup Answer \cup {None}]]
      /\ keyLock \in [ZipKeys -> Threads \cup {None}]
      /\ None \notin Threads
  BY Plain, NoneApart
<1>2. ASSUME UNCHANGED <<content, losses>>
      PROVE  losses = 0 => Paired'
  BY <1>2 DEF AuthorityInv, Paired
<1>3. ASSUME NEW k \in ZipKeys, OpenRead(t, k)
      PROVE  AuthorityInv'
  <2>1. /\ UNCHANGED <<content, losses>>
        /\ keyLock[k] = None /\ keyLock' = [keyLock EXCEPT ![k] = t]
        /\ op' = [op EXCEPT ![t] = [at |-> "reading", name |-> Zip(k), file |-> None]]
    BY <1>3 DEF OpenRead, LockKey, At
  <2>2. /\ op'[t] = [at |-> "reading", name |-> Zip(k), file |-> None]
        /\ \A u \in Threads \ {t} : op'[u] = op[u]
    BY <1>1, <2>1
  <2>3. keyLock'[KeyOf(op'[t].name)] = t
    BY <1>1, <2>1, <2>2, KeyFacts
  <2>4. \A u \in Threads \ {t}, j \in ZipKeys : keyLock[j] = u => keyLock'[j] = u
    BY <1>1, <2>1
  <2>5. KnowsOf(t)' /\ SourceOf(t)'
    BY <2>2 DEF KnowsOf, SourceOf
  <2> QED
    BY <1>2, <2>1, <2>2, <2>3, <2>4, <2>5, OneThread
<1>4. CASE ReadZip(t)
  <2>1. /\ op[t].at = "reading" /\ UNCHANGED <<content, losses, keyLock>>
        /\ op' = [op EXCEPT ![t] = [at |-> "verifying", name |-> op[t].name,
                                    file |-> content[op[t].name]]]
    BY <1>4 DEF ReadZip, At
  <2>2. /\ op'[t] = [at |-> "verifying", name |-> op[t].name, file |-> content[op[t].name]]
        /\ \A u \in Threads \ {t} : op'[u] = op[u]
    BY <1>1, <2>1
  <2>3. keyLock'[KeyOf(op'[t].name)] = t
    BY <2>1, <2>2 DEF AuthorityInv, Holds, Holding
  <2>4. KnowsOf(t)' /\ SourceOf(t)'
    BY <2>1, <2>2 DEF KnowsOf, SourceOf
  <2> QED
    BY <1>2, <2>1, <2>2, <2>3, <2>4, OneThread
<1>5. CASE Verify(t)
  <2> DEFINE k == KeyOf(op[t].name)
             zip == op[t].file
             side == content[Sidecar(k)]
  <2>1. /\ op[t].at = "verifying" /\ UNCHANGED <<content, losses>>
        /\ keyLock' = [j \in ZipKeys |-> IF keyLock[j] = t THEN None ELSE keyLock[j]]
    BY <1>5 DEF Verify, Unheld
  <2>2. \/ /\ Verified(zip, side)
           /\ op' = [op EXCEPT ![t] = [at |-> "answered", name |-> None,
                       file |-> [bytes |-> zip.bytes, url |-> side.url, source |-> zip.url]]]
        \/ op' = [op EXCEPT ![t] = Idle]
    BY <1>5 DEF Verify, At
  <2>3. op[t].name = Zip(k) /\ k \in ZipKeys
    BY <2>1, KeyFacts DEF IInv, OpsTyped, Shape
  <2>4. losses = 0 => zip = content[Zip(k)] /\ Paired
    BY <2>1, <2>3 DEF AuthorityInv, KnowsOf
  <2>5. losses = 0 /\ Verified(zip, side) => side.url = zip.url
    BY <2>3, <2>4 DEF Paired, Verified
  <2>6. \A u \in Threads \ {t} : op'[u] = op[u]
    BY <1>1, <2>2
  <2>7. op'[t].at \in {"answered", "idle"}
    BY <1>1, <2>2 DEF Idle
  <2>8. losses = 0 => SourceOf(t)'
    BY <1>1, <2>2, <2>5 DEF SourceOf, Idle
  <2>9. KnowsOf(t)'
    BY <2>7 DEF KnowsOf
  <2>10. \A u \in Threads \ {t}, j \in ZipKeys : keyLock[j] = u => keyLock'[j] = u
    BY <2>1
  <2> QED
    BY <1>2, <2>1, <2>6, <2>7, <2>8, <2>9, <2>10, OneThread DEF Holding
<1>6. CASE (\E n \in MdNames : Check(t, n)) \/ ReadBytes(t)
  BY <1>1, <1>6, Elsewhere DEF Check, ReadBytes, At, Goto, Idle, Holding
<1> QED
  BY <1>3, <1>4, <1>5, <1>6

\* Short of a power loss a verified read names the url that the very file it read
\* came from, also when two urls serve the same bytes.
THEOREM AuthorityIsTheFiles == Spec => []AuthorityFollowsBytes
<1>1. Init => AuthorityInv
  BY KeyFacts DEF Init, AuthorityInv, Holds, Holding, Paired, KnowsOf, SourceOf, Idle
<1>2. IInv /\ AuthorityInv /\ [Next]_vars => AuthorityInv'
  <2> SUFFICES ASSUME IInv, AuthorityInv, [Next]_vars PROVE AuthorityInv'
    OBVIOUS
  <2>1. CASE UNCHANGED vars
    BY <2>1 DEF vars, AuthorityInv, Holds, Paired, KnowsOf, SourceOf
  <2>2. ASSUME NEW t \in Threads, Begin(t) \/ Step(t)
        PROVE  AuthorityInv'
    BY <2>2, PutAuthority, DeleteAuthority, ReadAuthority DEF Begin, Step
  <2>3. ASSUME NEW t \in Threads, Interrupt(t)
        PROVE  AuthorityInv'
    <3>1. /\ op \in [Threads -> [at : Stage, name : Names \cup {None},
                                 file : File \cup Answer \cup {None}]]
          /\ op' = [op EXCEPT ![t] = Idle] /\ UNCHANGED <<content, losses>>
          /\ keyLock' = [j \in ZipKeys |-> IF keyLock[j] = t THEN None ELSE keyLock[j]]
      BY <2>3, Plain DEF Interrupt, Unheld
    <3> QED
      BY <3>1, Elsewhere DEF Idle, Holding
  <2>4. CASE PowerLoss
    <3>1. losses \in Nat
      BY BoundsNat DEF IInv, RestTyped
    <3>2. losses' # 0 /\ op' = [t \in Threads |-> Idle]
      BY <2>4, <3>1 DEF PowerLoss
    <3> QED
      BY <3>2 DEF AuthorityInv, Holds, Holding, Idle
  <2> QED
    BY <2>1, <2>2, <2>3, <2>4 DEF Next
<1>3. Init => IInv
  BY Initially
<1>4. IInv /\ [Next]_vars => IInv'
  BY Inductive
<1>5. AuthorityInv => AuthorityFollowsBytes
  BY DEF AuthorityInv, SourceOf, AuthorityFollowsBytes
<1> QED
  BY <1>1, <1>2, <1>3, <1>4, <1>5, PTL DEF Spec
=============================================================================
