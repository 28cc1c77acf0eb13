-------------------------------- MODULE Cache --------------------------------
(***************************************************************************)
(* The TDoc disk cache (TDocCache in scraping/cache.py): ZIPs and their    *)
(* provenance sidecars under zips/, derived Markdown under markdown/,      *)
(* installed by rename, trimmed oldest first and purged, by threads of one *)
(* or several processes.                                                   *)
(*                                                                         *)
(* One step is one change a directory can show.  Abstracted: the instance  *)
(* lock (always taken inside the tree lock), hidden temporary files (never *)
(* counted), and the digest, which stands for the bytes it is taken from.  *)
(* What a power loss may do to a rename or an unlink that no fsync of its  *)
(* directory followed is the file system's, not the code's: each name      *)
(* comes back with any content it had since its directory was last synced. *)
(***************************************************************************)
EXTENDS Naturals, FiniteSetsExt, Functions

CONSTANTS
  Threads,       \* threads that use the cache
  ZipKeys,       \* keys under zips/
  MdKeys,        \* keys under markdown/
  Payloads,      \* file contents
  Urls,          \* addresses ZIPs are downloaded from
  Size,          \* size of each payload
  SidecarSize,   \* size of a sidecar
  Limit,         \* size_limit_bytes; 0 is unlimited
  MaxPuts,       \* bound: files installed
  MaxLosses,     \* bound: power losses
  None           \* no file, no url, no name

ASSUME SizesNat == Size \in [Payloads -> Nat] /\ SidecarSize \in Nat /\ Limit \in Nat
ASSUME BoundsNat == MaxPuts \in Nat /\ MaxLosses \in Nat
ASSUME NoneApart == None \notin Urls \cup Threads

VARIABLES
  content,   \* what each name shows
  disk,      \* what a power loss may leave under it
  tree,      \* holder of cache-tree.lock
  keyLock,   \* holder of each per-key lock
  op,        \* what each thread is doing
  todo,      \* files a purge has yet to delete
  served,    \* history: (bytes, url) that the network returned
  cut,       \* history: puts cut short since the last complete trim
  puts,      \* files installed so far, also their ctime
  losses     \* power losses so far

vars == <<content, disk, tree, keyLock, op, todo, served, cut, puts, losses>>

Zip(k) == <<"zip", k>>
Sidecar(k) == <<"sidecar", k>>
Md(k) == <<"md", k>>
ZipNames == {Zip(k) : k \in ZipKeys}
SidecarNames == {Sidecar(k) : k \in ZipKeys}
MdNames == {Md(k) : k \in MdKeys}
Durable == ZipNames \cup SidecarNames   \* names whose loss is modelled
Names == Durable \cup MdNames

\* A ZIP's url is history (where its bytes came from, None for a plain put); a
\* sidecar's is its record, beside the digest of `bytes`.
File == [bytes : Payloads, url : Urls \cup {None}, ctime : 1 .. MaxPuts]
Present(n) == content[n] # None

\* "opened": the tree lock is held and the temporary files are written;
\* "bare": the sidecar is gone; "zipped", "paired": the renames are done;
\* "checked": get_bytes saw a file; "answered": a read returned `file`.
Stage == {"idle", "opened", "bare", "zipped", "paired", "trimming", "purging",
          "reading", "verifying", "checked", "answered", "raised"}
Idle == [at |-> "idle", name |-> None, file |-> None]
Free(t) == op[t].at \in {"idle", "answered", "raised"}
Writing(t) == op[t].at \in {"opened", "bare", "zipped", "paired", "trimming", "purging"}
Answer == [bytes : Payloads, url : Urls, source : Urls \cup {None}]

\* Types, and who may hold a lock: a writer or a purge holds the tree, nobody
\* else does, and a thread that is done holds no key.
TypeOK ==
  /\ content \in [Names -> File \cup {None}]
  /\ disk \in [Durable -> SUBSET (File \cup {None})]
  /\ tree \in Threads \cup {None}
  /\ keyLock \in [ZipKeys -> Threads \cup {None}]
  /\ op \in [Threads -> [at : Stage, name : Names \cup {None}, file : File \cup Answer \cup {None}]]
  /\ \A t \in Threads :
       /\ Writing(t) <=> tree = t
       /\ \A k \in ZipKeys : keyLock[k] = t => ~ Free(t)
  /\ todo \in SUBSET Names
  /\ served \in SUBSET (Payloads \X Urls)
  /\ cut \in Nat
  /\ puts \in 0 .. MaxPuts /\ losses \in 0 .. MaxLosses

Init ==
  /\ content = [n \in Names |-> None]
  /\ disk = [n \in Durable |-> {None}]
  /\ tree = None
  /\ keyLock = [k \in ZipKeys |-> None]
  /\ op = [t \in Threads |-> Idle]
  /\ todo = {}
  /\ served = {}
  /\ cut = 0
  /\ puts = 0 /\ losses = 0

-----------------------------------------------------------------------------
\* Files.

\* Show(n, c): n is renamed over or unlinked.
Show(n, c) ==
  /\ content' = [content EXCEPT ![n] = c]
  /\ disk' = [m \in Durable |-> IF m = n THEN disk[m] \cup {c} ELSE disk[m]]

\* Unlink n and fsync the directory, whose names are S.
UnlinkSynced(n, S) ==
  /\ content' = [content EXCEPT ![n] = None]
  /\ disk' = [m \in Durable |-> IF m \in S THEN {content'[m]} ELSE disk[m]]

SizeOf(n) ==
  IF ~ Present(n) THEN 0
  ELSE IF n \in SidecarNames THEN SidecarSize ELSE Size[content[n].bytes]
Total == SumFunction([n \in Names |-> SizeOf(n)])

At(t, stage, name, file) ==
  op' = [op EXCEPT ![t] = [at |-> stage, name |-> name, file |-> file]]
Goto(t, stage) == op' = [op EXCEPT ![t].at = stage]

KeyOf(n) == n[2]
LockKey(t, k) == keyLock[k] = None /\ keyLock' = [keyLock EXCEPT ![k] = t]
UnlockKey(k) == keyLock' = [keyLock EXCEPT ![k] = None]
Unheld(t) == [k \in ZipKeys |-> IF keyLock[k] = t THEN None ELSE keyLock[k]]

-----------------------------------------------------------------------------
\* put_zip_with_provenance and put_bytes.

\* Lock the tree and write the temporary files; a ZIP put with provenance has
\* just downloaded them (download_tdoc_zip, _fetch_direct_zip).
Open(t, name, bytes, url) ==
  /\ Free(t) /\ tree = None
  /\ puts < MaxPuts
  /\ name \in MdNames => url = None
  /\ puts' = puts + 1
  /\ tree' = t
  /\ At(t, "opened", name, [bytes |-> bytes, url |-> url, ctime |-> puts + 1])
  /\ served' = IF url = None THEN served ELSE served \cup {<<bytes, url>>}
  /\ UNCHANGED <<content, disk, keyLock, todo, cut, losses>>

\* Mutant: the old sidecar stays until the new one replaces it.
DropSidecarNever(t) ==
  /\ op[t].at = "opened" /\ op[t].name \in ZipNames
  /\ LockKey(t, KeyOf(op[t].name))
  /\ Goto(t, "bare")
  /\ UNCHANGED <<content, disk, tree, todo, served, cut, puts, losses>>

\* Lock the key and remove the sidecar; a plain put syncs only if there was one.
DropSidecar(t) ==
  /\ op[t].at = "opened" /\ op[t].name \in ZipNames
  /\ LET side == Sidecar(KeyOf(op[t].name))
     IN  IF op[t].file.url # None \/ Present(side)
         THEN UnlinkSynced(side, SidecarNames)
         ELSE UNCHANGED <<content, disk>>
  /\ LockKey(t, KeyOf(op[t].name))
  /\ Goto(t, "bare")
  /\ UNCHANGED <<tree, todo, served, cut, puts, losses>>

\* os.replace of the ZIP; a plain put is done with the key.
InstallZip(t) ==
  /\ op[t].at = "bare"
  /\ Show(op[t].name, op[t].file)
  /\ IF op[t].file.url # None
     THEN Goto(t, "zipped") /\ UNCHANGED keyLock
     ELSE Goto(t, "trimming") /\ UnlockKey(KeyOf(op[t].name))
  /\ UNCHANGED <<tree, todo, served, cut, puts, losses>>

\* os.replace of the sidecar.
InstallSidecar(t) ==
  /\ op[t].at = "zipped"
  /\ Show(Sidecar(KeyOf(op[t].name)), op[t].file)
  /\ Goto(t, "paired")
  /\ UNCHANGED <<tree, keyLock, todo, served, cut, puts, losses>>

\* fsync of both directories; the key is released.
SyncPair(t) ==
  /\ op[t].at = "paired"
  /\ disk' = [n \in Durable |-> {content[n]}]
  /\ UnlockKey(KeyOf(op[t].name))
  /\ Goto(t, "trimming")
  /\ UNCHANGED <<content, tree, todo, served, cut, puts, losses>>

\* put_bytes under markdown/.
InstallMd(t) ==
  /\ op[t].at = "opened" /\ op[t].name \in MdNames
  /\ Show(op[t].name, op[t].file)
  /\ Goto(t, "trimming")
  /\ UNCHANGED <<tree, keyLock, todo, served, cut, puts, losses>>

-----------------------------------------------------------------------------
\* enforce_size_limit.

\* Mutant: the sort is by descending ctime.
OldestReversed ==
  {n \in Names : Present(n) /\ \A m \in Names : Present(m) => content[n].ctime >= content[m].ctime}

\* Files of equal ctime (a ZIP and its sidecar) may go in either order.
Oldest ==
  {n \in Names : Present(n) /\ \A m \in Names : Present(m) => content[n].ctime <= content[m].ctime}

OverLimit == Limit # 0 /\ Total > Limit

\* Delete one of the oldest files; under zips/ its key must be free.
Evict(t, n) ==
  /\ op[t].at = "trimming" /\ OverLimit
  /\ n \in Oldest
  /\ n \in Durable => keyLock[KeyOf(n)] = None
  /\ Show(n, None)
  /\ UNCHANGED <<tree, keyLock, op, todo, served, cut, puts, losses>>

EndPut(t) ==
  /\ op[t].at = "trimming" /\ ~ OverLimit
  /\ tree' = None
  /\ cut' = 0
  /\ op' = [op EXCEPT ![t] = Idle]
  /\ UNCHANGED <<content, disk, keyLock, todo, served, puts, losses>>

-----------------------------------------------------------------------------
\* purge and purge_subdir.

\* Lock the tree and list the files of one subtree (or, for purge, of both).
OpenPurge(t, scope) ==
  /\ Free(t) /\ tree = None
  /\ tree' = t
  /\ todo' = {n \in scope : Present(n)}
  /\ At(t, "purging", None, None)
  /\ UNCHANGED <<content, disk, keyLock, served, cut, puts, losses>>

ToLock(t) == {KeyOf(n) : n \in {m \in todo \cap Durable : keyLock[KeyOf(m)] # t}}

PurgeLock(t, k) ==
  /\ op[t].at = "purging" /\ k \in ToLock(t)
  /\ LockKey(t, k)
  /\ UNCHANGED <<content, disk, tree, op, todo, served, cut, puts, losses>>

\* Every key is locked: delete, file by file, Markdown after the ZIPs; the keys
\* are released when zips/ is done.
PurgeFile(t, n) ==
  /\ op[t].at = "purging" /\ ToLock(t) = {}
  /\ n \in todo /\ (n \in MdNames => todo \cap Durable = {})
  /\ Show(n, None)
  /\ todo' = todo \ {n}
  /\ keyLock' = IF todo' \cap Durable = {} THEN Unheld(t) ELSE keyLock
  /\ UNCHANGED <<tree, op, served, cut, puts, losses>>

EndPurge(t) ==
  /\ op[t].at = "purging" /\ todo = {}
  /\ tree' = None
  /\ op' = [op EXCEPT ![t] = Idle]
  /\ UNCHANGED <<content, disk, keyLock, todo, served, cut, puts, losses>>

-----------------------------------------------------------------------------
\* Readers.

\* get_zip_with_provenance: lock the key ...
OpenRead(t, k) ==
  /\ Free(t)
  /\ LockKey(t, k)
  /\ At(t, "reading", Zip(k), None)
  /\ UNCHANGED <<content, disk, tree, todo, served, cut, puts, losses>>

\* ... read the ZIP ...
ReadZip(t) ==
  /\ op[t].at = "reading"
  /\ At(t, "verifying", op[t].name, content[op[t].name])
  /\ UNCHANGED <<content, disk, tree, keyLock, todo, served, cut, puts, losses>>

\* Mutant: any sidecar will do.
VerifiedAny(zip, side) == zip # None /\ side # None

\* The sidecar's digest is the digest of the bytes that were read.
Verified(zip, side) == zip # None /\ side # None /\ zip.bytes = side.bytes

\* Mutant: a miss returns without the key lock's release.
VerifyKeepsLock(t) ==
  /\ op[t].at = "verifying"
  /\ LET zip == op[t].file
         side == content[Sidecar(KeyOf(op[t].name))]
     IN  IF Verified(zip, side)
         THEN /\ At(t, "answered", None,
                    [bytes |-> zip.bytes, url |-> side.url, source |-> zip.url])
              /\ keyLock' = Unheld(t)
         ELSE /\ op' = [op EXCEPT ![t] = Idle]
              /\ UNCHANGED keyLock
  /\ UNCHANGED <<content, disk, tree, todo, served, cut, puts, losses>>

\* ... compare with the sidecar, answer the bytes and its url, or miss.
Verify(t) ==
  /\ op[t].at = "verifying"
  /\ LET zip == op[t].file
         side == content[Sidecar(KeyOf(op[t].name))]
     IN  IF Verified(zip, side)
         THEN At(t, "answered", None,
                 [bytes |-> zip.bytes, url |-> side.url, source |-> zip.url])
         ELSE op' = [op EXCEPT ![t] = Idle]
  /\ keyLock' = Unheld(t)
  /\ UNCHANGED <<content, disk, tree, todo, served, cut, puts, losses>>

\* get_bytes: is_file says yes ...
Check(t, n) ==
  /\ Free(t) /\ Present(n)
  /\ At(t, "checked", n, None)
  /\ UNCHANGED <<content, disk, tree, keyLock, todo, served, cut, puts, losses>>

\* ... and read_bytes follows, without a lock.
ReadBytes(t) ==
  /\ op[t].at = "checked"
  /\ IF Present(op[t].name) THEN op' = [op EXCEPT ![t] = Idle] ELSE Goto(t, "raised")
  /\ UNCHANGED <<content, disk, tree, keyLock, todo, served, cut, puts, losses>>

-----------------------------------------------------------------------------
\* An exception in the thread, or the death of its process: locks are released,
\* temporary files are of no account, the names stay as they are.
Interrupt(t) ==
  /\ ~ Free(t)
  /\ op' = [op EXCEPT ![t] = Idle]
  /\ tree' = IF tree = t THEN None ELSE tree
  /\ todo' = IF tree = t THEN {} ELSE todo
  /\ keyLock' = Unheld(t)
  /\ cut' = IF op[t].at \in {"zipped", "paired", "trimming"} THEN cut + 1 ELSE cut
  /\ UNCHANGED <<content, disk, served, puts, losses>>

PowerLoss ==
  /\ losses < MaxLosses
  /\ losses' = losses + 1
  /\ \E left \in [Durable -> UNION {disk[n] : n \in Durable}] :
       /\ \A n \in Durable : left[n] \in disk[n]
       /\ content' = [n \in Names |-> IF n \in Durable THEN left[n] ELSE content[n]]
       /\ disk' = [n \in Durable |-> {left[n]}]
  /\ tree' = None
  /\ keyLock' = [k \in ZipKeys |-> None]
  /\ op' = [t \in Threads |-> Idle]
  /\ todo' = {}
  /\ cut' = cut + 1
  /\ UNCHANGED <<served, puts>>

-----------------------------------------------------------------------------
\* What a thread that has begun does next.
Step(t) ==
  \/ DropSidecar(t) \/ InstallZip(t) \/ InstallSidecar(t) \/ SyncPair(t) \/ InstallMd(t)
  \/ \E n \in Names : Evict(t, n) \/ PurgeFile(t, n)
  \/ EndPut(t) \/ EndPurge(t)
  \/ \E k \in ZipKeys : PurgeLock(t, k)
  \/ ReadZip(t) \/ Verify(t) \/ ReadBytes(t)

Begin(t) ==
  \/ \E n \in ZipNames \cup MdNames, p \in Payloads, u \in Urls \cup {None} : Open(t, n, p, u)
  \/ \E scope \in {Durable, MdNames, Names} : OpenPurge(t, scope)
  \/ \E k \in ZipKeys : OpenRead(t, k)
  \/ \E n \in MdNames : Check(t, n)

Next == (\E t \in Threads : Begin(t) \/ Step(t) \/ Interrupt(t)) \/ PowerLoss

Spec == Init /\ [][Next]_vars

\* Threads run.
Fairness == \A t \in Threads : WF_vars(Step(t))

FairSpec == Spec /\ Fairness

-----------------------------------------------------------------------------
\* Properties.

\* A verified read returns bytes that were downloaded from the url it names,
\* whatever puts, evictions, purges, interruptions and power losses came between
\* (get_zip_with_provenance: "digest-verified").
VerifiedWasServed ==
  \A t \in Threads : op[t].at = "answered" => <<op[t].file.bytes, op[t].file.url>> \in served

\* Short of a power loss, that url is where the very file that was read came
\* from, also when two urls serve the same bytes: old authority never outlives
\* the bytes it was given for.
AuthorityFollowsBytes ==
  \A t \in Threads :
    op[t].at = "answered" /\ losses = 0 => op[t].file.url = op[t].file.source

\* At rest the cache is within its limit, and even half way through a put, or after
\* puts that were cut short before their trim, it is over by no more than what those
\* puts installed (enforce_size_limit, "Trim the cache until total size <=
\* size_limit_bytes").
Largest == Max({Size[p] : p \in Payloads}) + SidecarSize
SizeBounded ==
  Limit # 0 /\ losses = 0 =>
    Total <= Limit + (cut + IF tree = None THEN 0 ELSE 1) * Largest

\* A put that fits under the limit returns, and the file it installed is not there or
\* is without its sidecar.
UndoesItself(t) ==
  LET n == op[t].name
      f == op[t].file
  IN  /\ op[t].at = "trimming" /\ op'[t].at = "idle" /\ cut' = 0
      /\ Size[f.bytes] + SidecarSize <= Limit
      /\ content'[n] # f \/ (f.url # None /\ content'[Sidecar(KeyOf(n))] # f)

\* The trim of a put takes enough, over all files and sidecars of two trees and what
\* earlier puts left untrimmed, and never what was just installed.
TrimIsRight == [][SizeBounded' /\ \A t \in Threads : ~ UndoesItself(t)]_vars

\* No operation is stuck behind a lock, whoever died holding one: once callers
\* stop coming, every put, purge and read that began ends.
OperationsEnd ==
  (\A t \in Threads : <>[][~ Begin(t)]_vars) => \A t \in Threads : ~ Free(t) ~> Free(t)
=============================================================================
