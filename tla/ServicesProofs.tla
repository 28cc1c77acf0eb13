--------------------------- MODULE ServicesProofs ---------------------------
(* What the services that fetch and store promise, for any workers, URLs, meetings,
   specifications and numbers of runs, deaths and publications: each service by
   itself, and then any of them as the module Services sets them side by side.  *)
EXTENDS Services, TLAPS

----------------------------------------------------------------------------
(* Specification documents: a version that is marked parsed is whole.         *)

Bytes == Nat \ {0}
DocPcs == {"idle", "invalidate first", "check", "open zip", "write zip", "read zip", "fetched",
        "convert", "inventory only", "invalidate", "inventory", "source", "toc", "content", "parsed"}
SourceType == [exists : BOOLEAN, parsed : BOOLEAN, chunks : Nat]
DocRuns == [pc : DocPcs, kind : {"cli", "batch", "fetch"}, force : BOOLEAN, bytes : Nat,
            invalidate : BOOLEAN, record : BOOLEAN, alone : BOOLEAN]
DocsTypes ==
  /\ server \in Bytes /\ zip \in Nat \cup {D!Partial}
  /\ source \in SourceType /\ toc \in Nat /\ content \in Nat
  /\ run \in [Workers -> DocRuns] /\ disturbed \in BOOLEAN

\* From here on a run has bytes, and from there on it stores.
HasBytes == {"write zip", "convert", "inventory only", "invalidate", "inventory", "source", "toc",
             "content", "parsed"}
Storing == {"inventory", "source", "toc", "content", "parsed"}

\* What a run that shares its time with nobody may rely on.
RunInOrder(r) ==
  /\ r.pc \in HasBytes => r.bytes # 0
  /\ r.pc \in {"read zip", "convert"} => r.kind # "fetch"
  /\ r.alone =>
       /\ r.pc \in Storing => ~source.parsed
       /\ r.pc \in {"open zip", "write zip", "read zip", "convert"} /\ r.kind # "fetch"
          /\ ~r.invalidate => ~source.parsed
       /\ r.pc \in {"content", "parsed"} => toc = r.bytes
       /\ r.pc = "parsed" => content = r.bytes
Solo == \A v, w \in Workers : v # w /\ D!Active(v) /\ D!Active(w) => ~run[v].alone

DocsInv ==
  /\ DocsTypes /\ Solo
  /\ source.parsed => source.exists
  /\ \A w \in Workers : RunInOrder(run[w])
  /\ D!ParsedIsWhole

----------------------------------------------------------------------------
\* Before the first run nothing is marked.
LEMMA DocsBegin == D!Init => DocsInv
<1> SUFFICES ASSUME D!Init PROVE DocsInv
  OBVIOUS
<1>1. \A w \in Workers : run[w] = D!Idle
  BY DEF D!Init
<1>2. DocsTypes
  <2>1. D!Idle \in DocRuns
    BY DEF D!Idle, DocRuns, DocPcs, D!Absent
  <2>2. run \in [Workers -> DocRuns]
    BY <2>1 DEF D!Init
  <2>3. source \in SourceType /\ 1 \in Bytes
    BY DEF D!Init, SourceType, Bytes, D!Absent
  <2> QED
    BY <2>2, <2>3 DEF D!Init, DocsTypes, D!Absent
<1>3. \A w \in Workers : run[w].pc = "idle"
  <2>1. D!Idle.pc = "idle"
    BY DEF D!Idle
  <2> QED
    BY <1>1, <2>1
<1>4. Solo
  BY <1>3 DEF Solo, D!Active
<1>5. \A w \in Workers : RunInOrder(run[w])
  BY <1>3 DEF RunInOrder, HasBytes, Storing
<1>6. source.parsed = FALSE
  BY DEF D!Init
<1> QED
  BY <1>2, <1>4, <1>5, <1>6 DEF DocsInv, D!ParsedIsWhole, D!Parsed

\* Move replaces the run of one worker.
LEMMA DocRunMoved ==
  ASSUME run \in [Workers -> DocRuns], NEW w \in Workers, NEW r \in DocRuns, D!Move(w, r)
  PROVE  /\ run' \in [Workers -> DocRuns] /\ run'[w] = r
         /\ \A v \in Workers \ {w} : run'[v] = run[v]
  BY DEF D!Move

\* Goto changes the place and nothing else.
LEMMA DocRunWent ==
  ASSUME run \in [Workers -> DocRuns], NEW w \in Workers, NEW pc \in DocPcs, D!Goto(w, pc)
  PROVE  /\ run' \in [Workers -> DocRuns] /\ \A v \in Workers \ {w} : run'[v] = run[v]
         /\ run'[w].pc = pc /\ run'[w].bytes = run[w].bytes /\ run'[w].kind = run[w].kind
         /\ run'[w].alone = run[w].alone /\ run'[w].invalidate = run[w].invalidate
<1> DEFINE r == [run[w] EXCEPT !.pc = pc]
<1>1. run[w] \in DocRuns
  OBVIOUS
<1>2. /\ r \in DocRuns /\ r.pc = pc /\ r.bytes = run[w].bytes /\ r.kind = run[w].kind
      /\ r.alone = run[w].alone /\ r.invalidate = run[w].invalidate
  BY <1>1 DEF DocRuns
<1>3. D!Move(w, r)
  BY DEF D!Goto
<1> HIDE DEF r
<1> QED
  BY <1>2, <1>3, DocRunMoved

\* A run that ends is idle.
LEMMA DocRunEnded ==
  ASSUME run \in [Workers -> DocRuns], NEW w \in Workers, D!Move(w, D!Idle)
  PROVE  /\ run' \in [Workers -> DocRuns] /\ \A v \in Workers \ {w} : run'[v] = run[v]
         /\ run'[w].pc = "idle"
<1>1. D!Idle \in DocRuns /\ D!Idle.pc = "idle"
  BY DEF D!Idle, DocRuns, DocPcs, D!Absent
<1> QED
  BY <1>1, DocRunMoved

\* A step of one run moves that run only.  Another one that is active shares its
\* time with it and relies on nothing.
LEMMA OneDocRun ==
  ASSUME DocsInv, NEW w \in Workers, D!Active(w), DocsTypes', \A v \in Workers \ {w} : run'[v] = run[v],
         run'[w].pc = "idle" \/ run'[w].alone = run[w].alone, RunInOrder(run[w])',
         source'.parsed => source'.exists, D!ParsedIsWhole'
  PROVE  DocsInv'
<1>1. Solo'
  BY DEF DocsInv, Solo, D!Active
<1>2. ASSUME NEW v \in Workers PROVE RunInOrder(run[v])'
  <2>1. CASE v = w
    BY <2>1
  <2>2. CASE v # w /\ run[v].pc = "idle"
    BY <2>2 DEF RunInOrder, HasBytes, Storing
  <2>3. CASE v # w /\ D!Active(v)
    BY <2>3 DEF RunInOrder, DocsInv, Solo
  <2> QED
    BY <2>1, <2>2, <2>3 DEF D!Active
<1> QED
  BY <1>1, <1>2 DEF DocsInv

\* The step: beginnings, steps that leave the rows alone, steps that store, the mark.
LEMMA DocsKept == DocsInv /\ [D!Next]_(D!vars) => DocsInv'
<1> SUFFICES ASSUME DocsInv, [D!Next]_(D!vars) PROVE DocsInv'
  OBVIOUS
<1>t. DocsTypes /\ source.parsed \in BOOLEAN /\ source.exists \in BOOLEAN /\ source.chunks \in Nat
  BY DEF DocsInv, DocsTypes, SourceType
<1>r. \A w \in Workers : run[w] \in DocRuns /\ RunInOrder(run[w])
  BY DEF DocsInv, DocsTypes
<1>1. ASSUME NEW w \in Workers, NEW kind \in {"cli", "batch", "fetch"}, NEW force \in BOOLEAN,
             D!Begin(w, kind, force)
      PROVE  DocsInv'
  <2> DEFINE others == \E v \in Workers \ {w} : D!Active(v)
  <2>1. /\ UNCHANGED <<server, zip, source, toc, content, disturbed>> /\ ~D!Active(w)
        /\ run' = [v \in Workers |->
             IF v = w THEN [D!Idle EXCEPT !.kind = kind, !.force = force, !.alone = ~others,
                            !.pc = IF force /\ kind # "batch" THEN "invalidate first" ELSE "check"]
             ELSE IF D!Active(v) THEN [run[v] EXCEPT !.alone = FALSE] ELSE run[v]]
    BY <1>1 DEF D!Begin, D!rows
  <2>2. /\ run'[w] \in DocRuns /\ run'[w].pc \in {"invalidate first", "check"}
        /\ run'[w].alone = ~others
    BY <2>1 DEF D!Idle, DocRuns, DocPcs, D!Absent
  <2>3. \A v \in Workers \ {w} : /\ run'[v] \in DocRuns
                                 /\ run'[v].pc = run[v].pc /\ run'[v].bytes = run[v].bytes
                                 /\ run'[v].kind = run[v].kind
                                 /\ D!Active(v) => ~run'[v].alone
    BY <2>1, <1>r DEF DocRuns
  <2>4. DocsTypes'
    <3>1. run' \in [Workers -> DocRuns]
      BY <2>1, <2>2, <2>3
    <3> QED
      BY <2>1, <3>1, <1>t DEF DocsTypes
  <2>5. Solo'
    <3> SUFFICES ASSUME NEW u \in Workers, NEW v \in Workers, u # v, D!Active(u)', D!Active(v)'
                 PROVE  ~run'[u].alone
      BY DEF Solo
    <3>1. CASE u = w
      BY <3>1, <2>2, <2>3 DEF D!Active
    <3>2. CASE u # w
      BY <3>2, <2>3 DEF D!Active
    <3> QED
      BY <3>1, <3>2
  <2>6. ASSUME NEW v \in Workers PROVE RunInOrder(run[v])'
    <3>1. CASE v = w
      BY <3>1, <2>2 DEF RunInOrder, HasBytes, Storing
    <3>2. CASE v # w /\ D!Active(v)
      BY <3>2, <2>3, <1>r DEF RunInOrder
    <3>3. CASE v # w /\ ~D!Active(v)
      BY <3>3, <2>3 DEF D!Active, RunInOrder, HasBytes, Storing
    <3> QED
      BY <3>1, <3>2, <3>3
  <2> QED
    BY <2>1, <2>4, <2>5, <2>6 DEF DocsInv, D!ParsedIsWhole, D!Parsed
\* Steps that leave the rows alone.
<1>2. ASSUME NEW w \in Workers,
             D!Check(w) \/ D!OpenZip(w) \/ D!WriteZip(w) \/ D!ReadZip(w) \/ D!Convert(w) \/ D!BreakOff(w)
      PROVE  DocsInv'
  <2>1. UNCHANGED <<server, source, toc, content, disturbed>> /\ D!Active(w)
    BY <1>2 DEF D!Check, D!OpenZip, D!WriteZip, D!ReadZip, D!Convert, D!BreakOff, D!rows, D!Active
  <2>2. D!ParsedIsWhole' /\ (source'.parsed => source'.exists)
    BY <2>1 DEF DocsInv, D!ParsedIsWhole, D!Parsed
  <2>3. /\ zip' \in Nat \cup {D!Partial} /\ run' \in [Workers -> DocRuns]
        /\ \A v \in Workers \ {w} : run'[v] = run[v]
        /\ run'[w].pc = "idle" \/ run'[w].alone = run[w].alone
        /\ RunInOrder(run[w])'
    <3>0. /\ run \in [Workers -> DocRuns] /\ run[w] \in DocRuns /\ RunInOrder(run[w])
          /\ server \in Bytes /\ zip \in Nat \cup {D!Partial}
          /\ source.parsed => source.exists
      BY <1>t, <1>r DEF DocsTypes, DocsInv
    <3>s. UNCHANGED <<source, toc, content>>
      BY <2>1
    <3>e. ASSUME run'[w].pc = "idle" PROVE RunInOrder(run[w])'
      BY <3>e DEF RunInOrder, HasBytes, Storing
    <3>1. CASE D!Check(w)
      <4> DEFINE download == run[w].force \/ zip = D!Absent
      <4>z. zip' = zip
        BY <3>1 DEF D!Check
      <4>1. CASE run[w].kind = "fetch"
        <5>1. /\ D!Goto(w, IF download THEN "open zip" ELSE "fetched")
              /\ (IF download THEN "open zip" ELSE "fetched") \in DocPcs
          BY <3>1, <4>1 DEF D!Check, DocPcs
        <5> HIDE DEF download
        <5>2. /\ run' \in [Workers -> DocRuns] /\ \A v \in Workers \ {w} : run'[v] = run[v]
              /\ run'[w].pc \in {"open zip", "fetched"} /\ run'[w].alone = run[w].alone
              /\ run'[w].kind = "fetch"
          BY <5>1, <3>0, <4>1, DocRunWent
        <5>3. RunInOrder(run[w])'
          BY <5>2 DEF RunInOrder, HasBytes, Storing
        <5> QED
          BY <5>2, <5>3, <3>0, <4>z
      <4>2. CASE run[w].kind # "fetch" /\ D!Parsed /\ ~run[w].force
        <5>1. D!Move(w, D!Idle)
          BY <3>1, <4>2 DEF D!Check
        <5> QED
          BY <5>1, <3>0, <3>e, <4>z, DocRunEnded
      <4>3. CASE run[w].kind # "fetch" /\ ~(D!Parsed /\ ~run[w].force)
        <5> DEFINE r == [run[w] EXCEPT !.pc = IF download THEN "open zip" ELSE "read zip",
                                       !.invalidate = run[w].force /\ source.exists,
                                       !.record = download \/ ~source.exists]
        <5>1. D!Move(w, r)
          BY <3>1, <4>3 DEF D!Check
        <5>2. /\ r \in DocRuns /\ r.pc \in {"open zip", "read zip"} /\ r.alone = run[w].alone
              /\ r.invalidate = (run[w].force /\ source.exists) /\ r.kind = run[w].kind
          BY <3>0, <1>t DEF DocRuns, DocPcs
        <5> HIDE DEF r
        <5>3. run'[w] = r /\ run' \in [Workers -> DocRuns] /\ \A v \in Workers \ {w} : run'[v] = run[v]
          BY <5>1, <5>2, <3>0, DocRunMoved
        <5>4. ~r.invalidate => ~source.parsed
          BY <5>2, <4>3, <3>0 DEF D!Parsed
        <5>5. RunInOrder(run[w])'
          BY <5>2, <5>3, <5>4, <4>3, <3>s DEF RunInOrder, HasBytes, Storing
        <5> QED
          BY <5>2, <5>3, <5>5, <3>0, <4>z
      <4> QED
        BY <4>1, <4>2, <4>3
    <3>2. CASE D!OpenZip(w)
      <4> DEFINE r == [run[w] EXCEPT !.pc = "write zip", !.bytes = server]
      <4>1. D!Move(w, r) /\ zip' = D!Partial /\ run[w].pc = "open zip"
        BY <3>2 DEF D!OpenZip
      <4>2. /\ r \in DocRuns /\ r.pc = "write zip" /\ r.alone = run[w].alone /\ r.bytes = server
            /\ r.kind = run[w].kind /\ r.invalidate = run[w].invalidate
        BY <3>0 DEF DocRuns, DocPcs, Bytes
      <4> HIDE DEF r
      <4>3. run'[w] = r /\ run' \in [Workers -> DocRuns] /\ \A v \in Workers \ {w} : run'[v] = run[v]
        BY <4>1, <4>2, <3>0, DocRunMoved
      <4>4. RunInOrder(run[w])'
        BY <4>1, <4>2, <4>3, <3>0, <3>s DEF RunInOrder, HasBytes, Storing, Bytes
      <4> QED
        BY <4>1, <4>2, <4>3, <4>4
    <3>3. CASE D!WriteZip(w)
      <4> DEFINE pc == IF run[w].kind = "fetch" THEN "fetched" ELSE "convert"
      <4>1. D!Goto(w, pc) /\ pc \in DocPcs /\ zip' = run[w].bytes /\ run[w].pc = "write zip"
        BY <3>3 DEF D!WriteZip, DocPcs
      <4>2. /\ run' \in [Workers -> DocRuns] /\ \A v \in Workers \ {w} : run'[v] = run[v]
            /\ run'[w].pc = pc /\ run'[w].bytes = run[w].bytes /\ run'[w].kind = run[w].kind
            /\ run'[w].alone = run[w].alone /\ run'[w].invalidate = run[w].invalidate
        <5> HIDE DEF pc
        <5> QED
          BY <4>1, <3>0, DocRunWent
      <4>3. RunInOrder(run[w])'
        BY <4>1, <4>2, <3>0, <3>s DEF RunInOrder, HasBytes, Storing
      <4>4. zip' \in Nat
        BY <4>1, <3>0 DEF DocRuns
      <4> QED
        BY <4>2, <4>3, <4>4
    <3>4. CASE D!ReadZip(w)
      <4>z. zip' = zip
        BY <3>4 DEF D!ReadZip
      <4>1. CASE zip \in {D!Absent, D!Partial}
        <5>1. D!Move(w, D!Idle)
          BY <3>4, <4>1 DEF D!ReadZip
        <5> QED
          BY <5>1, <3>0, <3>e, <4>z, DocRunEnded
      <4>2. CASE zip \notin {D!Absent, D!Partial}
        <5> DEFINE r == [run[w] EXCEPT !.pc = "convert", !.bytes = zip]
        <5>1. D!Move(w, r) /\ run[w].pc = "read zip"
          BY <3>4, <4>2 DEF D!ReadZip
        <5>2. zip \in Nat /\ zip # 0
          BY <4>2, <3>0 DEF D!Absent, D!Partial
        <5>3. /\ r \in DocRuns /\ r.pc = "convert" /\ r.alone = run[w].alone /\ r.bytes = zip
              /\ r.kind = run[w].kind /\ r.invalidate = run[w].invalidate
          BY <3>0, <5>2 DEF DocRuns, DocPcs
        <5> HIDE DEF r
        <5>4. run'[w] = r /\ run' \in [Workers -> DocRuns] /\ \A v \in Workers \ {w} : run'[v] = run[v]
          BY <5>1, <5>3, <3>0, DocRunMoved
        <5>5. RunInOrder(run[w])'
          BY <5>1, <5>2, <5>3, <5>4, <3>0, <3>s DEF RunInOrder, HasBytes, Storing
        <5> QED
          BY <5>3, <5>4, <5>5, <3>0, <4>z
      <4> QED
        BY <4>1, <4>2
    <3>5. CASE D!Convert(w)
      <4>1. PICK pc \in {"invalidate", "inventory", "inventory only"} :
              D!Goto(w, pc) /\ (pc = "inventory" => ~run[w].invalidate)
        BY <3>5 DEF D!Convert
      <4>2. pc \in DocPcs /\ zip' = zip /\ run[w].pc = "convert"
        BY <3>5 DEF D!Convert, DocPcs
      <4>3. /\ run' \in [Workers -> DocRuns] /\ \A v \in Workers \ {w} : run'[v] = run[v]
            /\ run'[w].pc = pc /\ run'[w].bytes = run[w].bytes /\ run'[w].kind = run[w].kind
            /\ run'[w].alone = run[w].alone /\ run'[w].invalidate = run[w].invalidate
        BY <4>1, <4>2, <3>0, DocRunWent
      <4>4. RunInOrder(run[w])'
        BY <4>1, <4>2, <4>3, <3>0, <3>s DEF RunInOrder, HasBytes, Storing
      <4> QED
        BY <4>2, <4>3, <4>4, <3>0
    <3>6. CASE D!BreakOff(w)
      <4>1. D!Move(w, D!Idle) /\ zip' = zip
        BY <3>6 DEF D!BreakOff
      <4> QED
        BY <4>1, <3>0, <3>e, DocRunEnded
    <3> QED
      BY <1>2, <3>1, <3>2, <3>3, <3>4, <3>5, <3>6
  <2>4. DocsTypes'
    BY <2>1, <2>3, <1>t DEF DocsTypes
  <2> QED
    BY <2>1, <2>2, <2>3, <2>4, OneDocRun
\* Steps that store, but for the last one.
<1>3. ASSUME NEW w \in Workers,
             \/ D!InvalidateFirst(w) \/ D!Fetched(w) \/ D!InventoryOnly(w) \/ D!PersistInvalidate(w)
             \/ D!PersistInventory(w) \/ D!PersistSource(w) \/ D!PersistToc(w) \/ D!PersistContent(w)
      PROVE  DocsInv'
  <2> DEFINE stored == <<source, toc, content>>
  <2>1. /\ UNCHANGED <<server, zip>> /\ D!Active(w) /\ D!Mark(w)
    BY <1>3 DEF D!InvalidateFirst, D!Fetched, D!InventoryOnly, D!PersistInvalidate, D!PersistInventory,
                D!PersistSource, D!PersistToc, D!PersistContent, D!Active
  <2>0. run \in [Workers -> DocRuns] /\ run[w].bytes \in Nat /\ run[w].alone \in BOOLEAN
    BY <1>t, <1>r DEF DocsTypes, DocRuns
  <2>2. /\ run' \in [Workers -> DocRuns]
        /\ \A v \in Workers \ {w} : run'[v] = run[v]
        /\ run'[w].pc = "idle" \/ run'[w].alone = run[w].alone
    <3>1. CASE D!Fetched(w) \/ D!InventoryOnly(w)
      <4>1. D!Move(w, D!Idle)
        BY <3>1 DEF D!Fetched, D!InventoryOnly
      <4> QED
        BY <2>0, <4>1, DocRunEnded
    <3>2. CASE D!InvalidateFirst(w) \/ D!PersistInvalidate(w) \/ D!PersistInventory(w)
             \/ D!PersistSource(w)
                 \/ D!PersistToc(w) \/ D!PersistContent(w)
      <4>1. PICK pc \in DocPcs : D!Goto(w, pc)
        BY <3>2 DEF D!InvalidateFirst, D!PersistInvalidate, D!PersistInventory,
                    D!PersistSource, D!PersistToc,
                    D!PersistContent, DocPcs
      <4> QED
        BY <2>0, <4>1, DocRunWent
    <3> QED
      BY <1>3, <3>1, <3>2
  <2>3. /\ source' \in {source, D!Recorded, D!Invalidated} /\ source' \in SourceType
        /\ source'.parsed => source'.exists
        /\ source'.parsed => source.parsed /\ source'.chunks = source.chunks
    <3>1. source' \in {source, D!Recorded, D!Invalidated}
      BY <1>3 DEF D!InvalidateFirst, D!Fetched, D!InventoryOnly, D!PersistInvalidate, D!PersistInventory,
                  D!PersistSource, D!PersistToc, D!PersistContent
    <3>2. source \in SourceType /\ (source.parsed => source.exists)
      BY <1>t DEF DocsTypes, DocsInv
    <3>3. /\ D!Recorded \in SourceType /\ D!Recorded.exists
          /\ D!Recorded.parsed = source.parsed /\ D!Recorded.chunks = source.chunks
      BY <3>2 DEF D!Recorded, SourceType
    <3>4. D!Invalidated \in SourceType /\ ~D!Invalidated.parsed
      BY <3>2 DEF D!Invalidated, SourceType, D!Absent
    <3> QED
      BY <3>1, <3>2, <3>3, <3>4
  <2>4. toc' \in {toc, run[w].bytes} /\ content' \in {content, run[w].bytes}
    BY <1>3 DEF D!InvalidateFirst, D!Fetched, D!InventoryOnly, D!PersistInvalidate, D!PersistInventory,
                D!PersistSource, D!PersistToc, D!PersistContent
  <2>5. DocsTypes'
    <3>1. toc' \in Nat /\ content' \in Nat
      BY <2>4, <2>0, <1>t DEF DocsTypes
    <3>2. disturbed' \in BOOLEAN
      BY <2>1, <1>t DEF D!Mark, DocsTypes
    <3> QED
      BY <2>1, <2>2, <2>3, <3>1, <3>2, <1>t DEF DocsTypes
  <2>6. D!ParsedIsWhole'
    <3> SUFFICES ASSUME D!Parsed', ~disturbed' PROVE toc' = content' /\ content' = source'.chunks
                                                   /\ content' # D!Absent
      BY DEF D!ParsedIsWhole
    <3>1. source.parsed /\ source'.chunks = source.chunks /\ D!Parsed
      BY <2>3 DEF D!Parsed, DocsInv
    <3>2. ~disturbed /\ run[w].alone
      BY <2>1, <2>0, <1>t DEF D!Mark, DocsTypes
    <3>3. run[w].pc \notin Storing
      BY <3>1, <3>2, <1>r DEF RunInOrder
    <3>4. UNCHANGED <<toc, content>>
      BY <3>3, <1>3 DEF D!InvalidateFirst, D!Fetched, D!InventoryOnly, D!PersistInvalidate,
                          D!PersistInventory,
                        D!PersistSource, D!PersistToc, D!PersistContent, Storing
    <3> QED
      BY <3>1, <3>2, <3>4 DEF DocsInv, D!ParsedIsWhole
  <2>7. RunInOrder(run[w])'
    <3>0. RunInOrder(run[w]) /\ (source'.parsed => source.parsed)
      BY <1>r, <2>3
    <3>1. CASE D!Fetched(w) \/ D!InventoryOnly(w)
      <4>1. D!Move(w, D!Idle)
        BY <3>1 DEF D!Fetched, D!InventoryOnly
      <4>2. run'[w].pc = "idle"
        BY <2>0, <4>1, DocRunEnded
      <4> QED
        BY <4>2 DEF RunInOrder, HasBytes, Storing
    <3>2. CASE D!InvalidateFirst(w)
      <4>1. D!Goto(w, "check") /\ "check" \in DocPcs
        BY <3>2 DEF D!InvalidateFirst, DocPcs
      <4>2. run'[w].pc = "check"
        BY <2>0, <4>1, DocRunWent
      <4> QED
        BY <4>2 DEF RunInOrder, HasBytes, Storing
    <3>3. CASE D!PersistInvalidate(w)
      <4>1. /\ D!Goto(w, "inventory") /\ "inventory" \in DocPcs /\ run[w].pc = "invalidate"
            /\ ~source'.parsed
        BY <3>3 DEF D!PersistInvalidate, DocPcs, D!Invalidated
      <4>2. run'[w].pc = "inventory" /\ run'[w].bytes = run[w].bytes /\ run'[w].alone = run[w].alone
        BY <2>0, <4>1, DocRunWent
      <4> QED
        BY <4>1, <4>2, <3>0 DEF RunInOrder, HasBytes, Storing
    <3>4. CASE D!PersistInventory(w)
      <4>1. PICK pc \in {"source", "toc"} : D!Goto(w, pc)
        BY <3>4 DEF D!PersistInventory
      <4>2. pc \in DocPcs /\ run[w].pc = "inventory"
        BY <3>4 DEF D!PersistInventory, DocPcs
      <4>3. run'[w].pc = pc /\ run'[w].bytes = run[w].bytes /\ run'[w].alone = run[w].alone
        BY <2>0, <4>1, <4>2, DocRunWent
      <4> QED
        BY <4>1, <4>2, <4>3, <3>0 DEF RunInOrder, HasBytes, Storing
    <3>5. CASE D!PersistSource(w)
      <4>1. D!Goto(w, "toc") /\ "toc" \in DocPcs /\ run[w].pc = "source"
        BY <3>5 DEF D!PersistSource, DocPcs
      <4>2. run'[w].pc = "toc" /\ run'[w].bytes = run[w].bytes /\ run'[w].alone = run[w].alone
        BY <2>0, <4>1, DocRunWent
      <4> QED
        BY <4>1, <4>2, <3>0 DEF RunInOrder, HasBytes, Storing
    <3>6. CASE D!PersistToc(w)
      <4>1. /\ D!Goto(w, "content") /\ "content" \in DocPcs /\ run[w].pc = "toc"
            /\ toc' = run[w].bytes
        BY <3>6 DEF D!PersistToc, DocPcs
      <4>2. run'[w].pc = "content" /\ run'[w].bytes = run[w].bytes /\ run'[w].alone = run[w].alone
        BY <2>0, <4>1, DocRunWent
      <4> QED
        BY <4>1, <4>2, <3>0 DEF RunInOrder, HasBytes, Storing
    <3>7. CASE D!PersistContent(w)
      <4>1. /\ D!Goto(w, "parsed") /\ "parsed" \in DocPcs /\ run[w].pc = "content"
            /\ toc' = toc /\ content' = run[w].bytes
        BY <3>7 DEF D!PersistContent, DocPcs
      <4>2. run'[w].pc = "parsed" /\ run'[w].bytes = run[w].bytes /\ run'[w].alone = run[w].alone
        BY <2>0, <4>1, DocRunWent
      <4> QED
        BY <4>1, <4>2, <3>0 DEF RunInOrder, HasBytes, Storing
    <3> QED
      BY <1>3, <3>1, <3>2, <3>3, <3>4, <3>5, <3>6, <3>7
  <2> QED
    BY <2>1, <2>2, <2>3, <2>5, <2>6, <2>7, OneDocRun
\* The mark: what a run alone has stored is of its bytes.
<1>4. ASSUME NEW w \in Workers, D!PersistParsed(w) PROVE DocsInv'
  <2>1. /\ UNCHANGED <<server, zip, toc, content>> /\ D!Active(w) /\ disturbed' = ~run[w].alone
        /\ source' = [exists |-> TRUE, parsed |-> TRUE, chunks |-> run[w].bytes]
        /\ D!Move(w, D!Idle) /\ run[w].pc = "parsed"
    BY <1>4 DEF D!PersistParsed, D!Active
  <2>2. run[w].bytes \in Nat /\ run[w].alone \in BOOLEAN /\ run \in [Workers -> DocRuns]
    BY <1>r, <1>t DEF DocRuns, DocsTypes
  <2>3. /\ run' \in [Workers -> DocRuns] /\ run'[w].pc = "idle"
        /\ \A v \in Workers \ {w} : run'[v] = run[v]
    BY <2>1, <2>2, DocRunEnded
  <2>4. RunInOrder(run[w])'
    BY <2>3 DEF RunInOrder, HasBytes, Storing
  <2>6. DocsTypes'
    <3>1. source' \in SourceType
      BY <2>1, <2>2 DEF SourceType
    <3> QED
      BY <2>1, <2>2, <2>3, <3>1, <1>t DEF DocsTypes
  <2>5. D!ParsedIsWhole'
    <3> SUFFICES ASSUME ~disturbed'
                 PROVE  toc' = content' /\ content' = source'.chunks /\ content' # D!Absent
      BY DEF D!ParsedIsWhole
    <3>1. run[w].alone /\ RunInOrder(run[w])
      BY <2>1, <2>2, <1>r
    <3>2. toc = run[w].bytes /\ content = run[w].bytes /\ run[w].bytes # 0
      BY <3>1, <2>1 DEF RunInOrder, HasBytes
    <3>3. source'.chunks = run[w].bytes
      BY <2>1
    <3> QED
      BY <3>2, <3>3, <2>1 DEF D!Absent
  <2> QED
    BY <2>1, <2>3, <2>4, <2>5, <2>6, OneDocRun
<1>5. CASE D!Publish \/ D!DropZip
  <2>1. UNCHANGED <<source, toc, content, run, disturbed>>
    BY <1>5 DEF D!Publish, D!DropZip, D!rows
  <2>2. server' \in Bytes /\ zip' \in Nat \cup {D!Partial}
    BY <1>5, <1>t DEF D!Publish, D!DropZip, DocsTypes, Bytes, D!Absent
  <2> QED
    BY <2>1, <2>2 DEF DocsInv, DocsTypes, Solo, D!Active, RunInOrder, D!ParsedIsWhole, D!Parsed
<1>6. CASE UNCHANGED D!vars
  BY <1>6 DEF D!vars, D!rows, DocsInv, DocsTypes, Solo, D!Active, RunInOrder, D!ParsedIsWhole, D!Parsed
<1> QED
  BY <1>1, <1>2, <1>3, <1>4, <1>5, <1>6 DEF D!Next, D!Step

----------------------------------------------------------------------------
\* A version of a specification that is marked parsed has a table of contents,
\* chunks and a chunk count of the same bytes (spec_doc_service.py,
\* persist_prepared_parse), after any runs that died between any two of their
\* transactions, forced or not, unless runs overlapped on it.
THEOREM ParsedVersionsAreWhole == D!Spec => []D!ParsedIsWhole
<1>1. DocsInv => D!ParsedIsWhole
  BY DEF DocsInv
<1> QED
  BY DocsBegin, DocsKept, <1>1, PTL DEF D!Spec

----------------------------------------------------------------------------
(* Specification sync: what the stamps and the PDF links stand for.           *)

SyncPcs == {"idle", "queued", "detail", "backfill", "followups", "header", "versions", "stamp",
        "skipped", "synced"}
JobType == [pc : SyncPcs, force : BOOLEAN, details : BOOLEAN, fresh : BOOLEAN, fetched : Nat,
            pdf : BOOLEAN, asked : Nat]
SyncTypes ==
  /\ page \in [Specs -> Nat] /\ versions \in [Specs -> Nat] /\ seen \in [Specs -> Nat]
  /\ header \subseteq Specs /\ stamp \in [Specs -> {"never", "new", "old"}]
  /\ pdf \in [Specs -> BOOLEAN]
  /\ job \in [S!Tasks -> JobType]

\* What a task that is past a stage has done: it asked before it fetched, its row
\* is there before its versions are, and they are before it stamps.
TaskInOrder(j) ==
  /\ job[j].pc \in {"detail", "backfill", "followups", "header", "versions", "stamp"}
       => job[j].asked <= page[j[2]]
  /\ job[j].pc \in {"backfill", "followups", "header", "versions", "stamp"}
       => job[j].asked <= job[j].fetched
  /\ job[j].pc \in {"versions", "stamp"} => j[2] \in header
  /\ job[j].pc = "stamp" => job[j].fetched <= versions[j[2]]
TasksInOrder == \A j \in S!Tasks : TaskInOrder(j)

SyncInv == SyncTypes /\ TasksInOrder /\ S!SpecStampIsEarned

----------------------------------------------------------------------------
\* Before the first sync nothing is stamped.
LEMMA SyncsBegin == S!Init => SyncInv
<1> SUFFICES ASSUME S!Init PROVE SyncInv
  OBVIOUS
<1>1. SyncTypes
  BY DEF S!Init, SyncTypes, JobType, SyncPcs, S!Idle
<1>2. TasksInOrder
  BY DEF S!Init, TasksInOrder, TaskInOrder, S!Idle
<1>3. S!SpecStampIsEarned
  BY DEF S!Init, S!SpecStampIsEarned
<1> QED
  BY <1>1, <1>2, <1>3 DEF SyncInv

\* Versions and headers only grow, pages too: what was so stays so.
LEMMA Grows ==
  ASSUME SyncInv, page' \in [Specs -> Nat], versions' \in [Specs -> Nat], header \subseteq header',
         \A s \in Specs : page[s] <= page'[s] /\ versions[s] <= versions'[s]
  PROVE  \A j \in S!Tasks : job'[j] = job[j] => TaskInOrder(j)'
<1> SUFFICES ASSUME NEW j \in S!Tasks, job'[j] = job[j] PROVE TaskInOrder(j)'
  OBVIOUS
<1>1. j[2] \in Specs
  BY DEF S!Tasks
<1>2. job[j] \in JobType /\ page[j[2]] \in Nat /\ versions[j[2]] \in Nat
  BY <1>1 DEF SyncInv, SyncTypes
<1>3. job[j].asked \in Nat /\ job[j].fetched \in Nat
  BY <1>2 DEF JobType
<1> QED
  BY <1>1, <1>2, <1>3 DEF SyncInv, TasksInOrder, TaskInOrder

\* A step that changes only tasks, each to one in order.
LEMMA OnlyTasks ==
  ASSUME SyncInv, UNCHANGED <<page, versions, header, stamp, pdf, seen>>,
         job' \in [S!Tasks -> JobType], TasksInOrder'
  PROVE  SyncInv'
  BY DEF SyncInv, SyncTypes, S!SpecStampIsEarned

\* The step, action by action.
LEMMA SyncsKept == SyncInv /\ [S!Next]_(S!vars) => SyncInv'
<1> SUFFICES ASSUME SyncInv, [S!Next]_(S!vars) PROVE SyncInv'
  OBVIOUS
<1> USE DEF SyncInv
<1>t. \A j \in S!Tasks : job[j] \in JobType /\ j[2] \in Specs
  BY DEF SyncTypes, S!Tasks
<1>1. ASSUME NEW details \in BOOLEAN, S!StartSweep(details) PROVE SyncInv'
  <2>1. job' \in [S!Tasks -> JobType]
    BY <1>1, <1>t DEF S!StartSweep, JobType, S!Idle, SyncPcs, SyncTypes
  <2>2. UNCHANGED <<page, versions, header, stamp, pdf, seen>>
    BY <1>1 DEF S!StartSweep, S!rows
  <2>3. TasksInOrder'
    <3> SUFFICES ASSUME NEW j \in S!Tasks PROVE TaskInOrder(j)'
      BY DEF TasksInOrder
    <3>1. CASE j[1] = "sweep"
      BY <1>1, <3>1 DEF S!StartSweep, TaskInOrder, S!Idle
    <3>2. CASE j[1] # "sweep"
      BY <1>1, <3>2, <2>2 DEF S!StartSweep, TaskInOrder, TasksInOrder
    <3> QED
      BY <3>1, <3>2
  <2> QED
    BY <2>1, <2>2, <2>3, OnlyTasks
<1>2. ASSUME NEW s \in Specs, NEW force \in BOOLEAN, NEW details \in BOOLEAN,
             S!StartOne(s, force, details)
      PROVE  SyncInv'
  <2>1. <<"one", s>> \in S!Tasks
    BY DEF S!Tasks
  <2>2. job' \in [S!Tasks -> JobType]
    BY <1>2, <1>t, <2>1 DEF S!StartOne, JobType, S!Idle, SyncPcs, SyncTypes
  <2>3. UNCHANGED <<page, versions, header, stamp, pdf, seen>>
    BY <1>2 DEF S!StartOne, S!rows
  <2>4. TasksInOrder'
    <3> SUFFICES ASSUME NEW j \in S!Tasks PROVE TaskInOrder(j)'
      BY DEF TasksInOrder
    <3>1. CASE j = <<"one", s>>
      <4>1. job'[j].pc \in {"skipped", "queued"}
        BY <1>2, <3>1 DEF S!StartOne, SyncTypes, S!Idle
      <4> QED
        BY <4>1 DEF TaskInOrder
    <3>2. CASE j # <<"one", s>>
      BY <1>2, <3>2, <2>3 DEF S!StartOne, TaskInOrder, TasksInOrder, SyncTypes
    <3> QED
      BY <3>1, <3>2
  <2> QED
    BY <2>2, <2>3, <2>4, OnlyTasks
<1>3. ASSUME NEW j \in S!Tasks,
             S!Enter(j) \/ S!Detail(j) \/ S!Backfill(j) \/ S!Gather(j) \/ S!Fail(j) \/ S!Leave(j)
      PROVE  SyncInv'
  <2>1. UNCHANGED <<page, versions, header, stamp, pdf, seen>>
    BY <1>3 DEF S!Enter, S!Detail, S!Backfill, S!Gather, S!Fail, S!Leave, S!rows
  <2>2. /\ page[j[2]] \in Nat /\ pdf[j[2]] \in BOOLEAN /\ versions[j[2]] \in Nat
        /\ job[j] \in JobType /\ job[j].asked \in Nat /\ job[j].fetched \in Nat
    BY <1>t DEF SyncTypes, JobType
  <2>3. /\ job' \in [S!Tasks -> JobType] /\ TaskInOrder(j)'
        /\ \A k \in S!Tasks \ {j} : job'[k] = job[k]
    <3>1. CASE S!Enter(j)
      BY <3>1, <2>1, <2>2 DEF S!Enter, S!Goto, SyncTypes, JobType, SyncPcs, TaskInOrder, TasksInOrder
    <3>2. CASE S!Detail(j)
      BY <3>2, <2>1, <2>2 DEF S!Detail, SyncTypes, JobType, SyncPcs, TaskInOrder, TasksInOrder
    <3>3. CASE S!Backfill(j)
      BY <3>3, <2>1, <2>2 DEF S!Backfill, SyncTypes, JobType, SyncPcs, TaskInOrder, TasksInOrder
    <3>4. CASE S!Gather(j)
      BY <3>4, <2>1, <2>2 DEF S!Gather, S!Goto, SyncTypes, JobType, SyncPcs, TaskInOrder, TasksInOrder
    <3>5. CASE S!Fail(j) \/ S!Leave(j)
      <4>1. job' = [job EXCEPT ![j] = S!Idle]
        BY <3>5 DEF S!Fail, S!Leave
      <4>2. S!Idle \in JobType
        BY DEF S!Idle, JobType, SyncPcs
      <4>3. job' \in [S!Tasks -> JobType] /\ \A k \in S!Tasks \ {j} : job'[k] = job[k]
        BY <4>1, <4>2 DEF SyncTypes
      <4>4. job'[j].pc = "idle"
        BY <4>1 DEF SyncTypes, S!Idle
      <4> QED
        BY <4>3, <4>4 DEF TaskInOrder
    <3> QED
      BY <1>3, <3>1, <3>2, <3>3, <3>4, <3>5
  <2>4. \A k \in S!Tasks \ {j} : TaskInOrder(k)'
    BY <2>1, <2>3 DEF TaskInOrder, TasksInOrder
  <2> QED
    BY <2>1, <2>3, <2>4, OnlyTasks DEF TasksInOrder
<1>4. ASSUME NEW f \in S!FollowUps, S!StartFollowUp(f) \/ S!EndFollowUp(f) PROVE SyncInv'
  <2>1. UNCHANGED <<page, versions, header, stamp, pdf, seen>>
    BY <1>4 DEF S!StartFollowUp, S!EndFollowUp, S!rows
  <2>2. f[1] \in S!Tasks
    BY DEF S!FollowUps
  <2>3. CASE S!StartFollowUp(f)
    BY <2>1, <2>3 DEF S!StartFollowUp, TasksInOrder, TaskInOrder, SyncTypes, S!SpecStampIsEarned
  <2>4. CASE S!EndFollowUp(f)
    <3>1. PICK found \in BOOLEAN :
            job' = [job EXCEPT ![f[1]].pdf = @ \/ (f[2] = "pdf" /\ found)]
      BY <2>4 DEF S!EndFollowUp
    <3>2. job' \in [S!Tasks -> JobType]
      <4> DEFINE link == job[f[1]].pdf \/ (f[2] = "pdf" /\ found)
      <4>1. link \in BOOLEAN
        BY Zenon DEF link
      <4>2. job' = [job EXCEPT ![f[1]].pdf = link]
        BY <3>1
      <4> HIDE DEF link
      <4> QED
        BY <4>1, <4>2, <2>2 DEF SyncTypes, JobType
    <3>3. \A k \in S!Tasks : /\ job'[k].pc = job[k].pc /\ job'[k].asked = job[k].asked
                           /\ job'[k].fetched = job[k].fetched
      BY <3>1, <2>2, <1>t DEF SyncTypes, JobType
    <3>4. TasksInOrder'
      BY <3>3, <2>1 DEF TasksInOrder, TaskInOrder
    <3> QED
      BY <2>1, <3>2, <3>4, OnlyTasks
  <2> QED
    BY <1>4, <2>3, <2>4
<1>5. ASSUME NEW j \in S!Tasks, S!StoreHeader(j) PROVE SyncInv'
  <2>1. UNCHANGED <<page, versions, stamp, pdf, seen>> /\ header' = header \cup {j[2]}
    BY <1>5 DEF S!StoreHeader
  <2>2. job' = [job EXCEPT ![j].pc = "versions"] /\ job[j].pc = "header"
    BY <1>5 DEF S!StoreHeader, S!Goto
  <2>3. SyncTypes'
    BY <2>1, <2>2, <1>t DEF SyncTypes, JobType, SyncPcs
  <2>4. TaskInOrder(j)'
    BY <2>1, <2>2, <1>t DEF SyncTypes, JobType, TasksInOrder, TaskInOrder
  <2>5. \A k \in S!Tasks \ {j} : TaskInOrder(k)'
    BY <2>1, <2>2 DEF SyncTypes, TasksInOrder, TaskInOrder
  <2>6. S!SpecStampIsEarned'
    BY <2>1 DEF S!SpecStampIsEarned
  <2> QED
    BY <2>3, <2>4, <2>5, <2>6 DEF TasksInOrder
<1>6. ASSUME NEW j \in S!Tasks, S!StoreVersions(j) PROVE SyncInv'
  <2>1. UNCHANGED <<page, header, stamp, seen>>
    BY <1>6 DEF S!StoreVersions
  <2>2. job' = [job EXCEPT ![j].pc = "stamp"] /\ job[j].pc = "versions"
    BY <1>6 DEF S!StoreVersions, S!Goto
  <2> DEFINE newest == job[j].fetched >= versions[j[2]]
  <2>3. /\ versions' = [versions EXCEPT ![j[2]] = IF newest THEN job[j].fetched ELSE @]
        /\ pdf' = [pdf EXCEPT ![j[2]] = IF newest THEN S!LinkKept(j) ELSE @]
    BY <1>6 DEF S!StoreVersions
  <2>4. /\ j[2] \in Specs /\ job[j].fetched \in Nat /\ versions \in [Specs -> Nat]
        /\ pdf \in [Specs -> BOOLEAN] /\ job[j].pdf \in BOOLEAN /\ job[j].asked \in Nat
    BY <1>t DEF SyncTypes, JobType
  <2>5. versions' \in [Specs -> Nat] /\ \A s \in Specs : versions[s] <= versions'[s]
    BY <2>3, <2>4
  <2>6. versions'[j[2]] >= job[j].fetched
    BY <2>3, <2>4
  <2>7. pdf' \in [Specs -> BOOLEAN]
    BY <2>3, <2>4 DEF S!LinkKept
  <2>8. SyncTypes'
    BY <2>1, <2>2, <2>5, <2>7, <1>t DEF SyncTypes, JobType, SyncPcs
  <2>9. TaskInOrder(j)'
    <3>1. /\ job'[j].pc = "stamp" /\ job'[j].asked = job[j].asked
          /\ job'[j].fetched = job[j].fetched
      BY <2>2, <1>t DEF SyncTypes, JobType
    <3> QED
      BY <3>1, <2>1, <2>2, <2>6 DEF TasksInOrder, TaskInOrder
  <2>10. \A k \in S!Tasks \ {j} : TaskInOrder(k)'
    <3>1. \A k \in S!Tasks \ {j} : job'[k] = job[k]
      BY <2>2 DEF SyncTypes
    <3>2. page' \in [Specs -> Nat] /\ \A s \in Specs : page[s] <= page'[s]
      BY <2>1 DEF SyncTypes
    <3> QED
      BY <3>1, <3>2, <2>1, <2>5, Grows
  <2>11. S!SpecStampIsEarned'
    BY <2>1, <2>4, <2>5 DEF S!SpecStampIsEarned, SyncTypes
  <2> QED
    BY <2>8, <2>9, <2>10, <2>11 DEF TasksInOrder
<1>7. ASSUME NEW j \in S!Tasks, S!Stamp(j) PROVE SyncInv'
  <2>1. /\ UNCHANGED <<page, header, versions, pdf>>
        /\ stamp' = [stamp EXCEPT ![j[2]] = "new"] /\ seen' = [seen EXCEPT ![j[2]] = job[j].asked]
    BY <1>7 DEF S!Stamp
  <2>2. job' = [job EXCEPT ![j].pc = "synced"] /\ job[j].pc = "stamp"
    BY <1>7 DEF S!Stamp, S!Goto, S!Complete
  <2>3. job[j].asked \in Nat /\ job[j].fetched \in Nat /\ j[2] \in Specs
    BY <1>t DEF JobType
  <2>4. SyncTypes'
    BY <2>1, <2>2, <2>3, <1>t DEF SyncTypes, JobType, SyncPcs
  <2>5. TasksInOrder'
    BY <2>1, <2>2, <1>t DEF SyncTypes, TasksInOrder, TaskInOrder, JobType
  <2>6. j[2] \in header /\ versions[j[2]] >= job[j].asked
    BY <2>2, <2>3 DEF TasksInOrder, TaskInOrder, SyncTypes
  <2>7. S!SpecStampIsEarned'
    BY <2>1, <2>3, <2>6 DEF S!SpecStampIsEarned, SyncTypes
  <2> QED
    BY <2>4, <2>5, <2>7
<1>8. ASSUME S!Event PROVE SyncInv'
  <2>1. UNCHANGED <<header, versions, pdf, job, seen>>
    BY <1>8 DEF S!Event
  <2>2. page' \in [Specs -> Nat] /\ \A s \in Specs : page[s] <= page'[s]
    BY <1>8 DEF S!Event, SyncTypes
  <2>3. /\ stamp' \in [Specs -> {"never", "new", "old"}]
        /\ \A s \in Specs : stamp'[s] # "never" => stamp[s] # "never"
    BY <1>8 DEF S!Event, SyncTypes
  <2>4. SyncTypes'
    BY <2>1, <2>2, <2>3 DEF SyncTypes
  <2>5. TasksInOrder'
    BY <2>1, <2>2, Grows DEF TasksInOrder, SyncTypes
  <2>6. S!SpecStampIsEarned'
    BY <2>1, <2>3 DEF S!SpecStampIsEarned
  <2> QED
    BY <2>4, <2>5, <2>6
<1>9. CASE UNCHANGED S!vars
  BY <1>9 DEF S!vars, S!rows, S!pools, SyncTypes, TasksInOrder, TaskInOrder, S!SpecStampIsEarned
<1> QED
  BY <1>1, <1>2, <1>3, <1>4, <1>5, <1>6, <1>7, <1>8, <1>9 DEF S!Next, S!Task

----------------------------------------------------------------------------
\* A stamp, which makes the next syncs of a specification skip it, stands for a
\* stored row and versions at least as new as its page was when the stamping task
\* began (spec_service.py, persist_prepared_spec), wherever tasks failed.
THEOREM StampsEarned == S!Spec => []S!SpecStampIsEarned
<1>1. SyncInv => S!SpecStampIsEarned
  BY DEF SyncInv
<1> QED
  BY SyncsBegin, SyncsKept, <1>1, PTL DEF S!Spec

\* A step of a task that changes the link of a version either finds a newer version
\* or keeps the link.
LEMMA LinksStep == SyncInv /\ [S!Next]_(S!vars) => ~S!LinkLost
<1> SUFFICES ASSUME SyncInv, [S!Next]_(S!vars),
                    NEW s \in Specs, pdf[s], ~pdf'[s], versions'[s] = versions[s]
             PROVE  FALSE
  BY DEF S!LinkLost
<1>1. pdf \in [Specs -> BOOLEAN] /\ versions \in [Specs -> Nat]
  BY DEF SyncInv, SyncTypes
<1>2. pdf' # pdf
  BY Zenon
<1>3. PICK j \in S!Tasks : S!StoreVersions(j)
  BY <1>2 DEF S!Next, S!vars, S!Task, S!StartSweep, S!StartOne, S!Enter, S!Detail, S!Backfill,
              S!Gather, S!StoreHeader, S!Stamp, S!Fail, S!Leave, S!StartFollowUp,
              S!EndFollowUp, S!Event, S!rows
<1>4. /\ versions' = [versions EXCEPT ![j[2]] = IF job[j].fetched >= versions[j[2]]
                                                THEN job[j].fetched ELSE @]
      /\ pdf' = [pdf EXCEPT ![j[2]] = IF job[j].fetched >= versions[j[2]]
                                      THEN S!LinkKept(j) ELSE @]
  BY <1>3 DEF S!StoreVersions
<1>5. s = j[2] /\ job[j].fetched >= versions[s] /\ ~S!LinkKept(j)
  BY <1>1, <1>4
<1>6. job[j].fetched = versions[s]
  BY <1>1, <1>4, <1>5
<1> QED
  BY <1>5, <1>6 DEF S!LinkKept

\* No task erases the stored PDF link of a version (upsert_versions,
\* _backfill_followup_fields), whatever it knew when it read the rows.
THEOREM LinksStay == S!Spec => S!LinksKept
<1>1. SyncInv /\ [S!Next]_(S!vars) => [~S!LinkLost]_(S!vars)
  BY LinksStep
<1> QED
  BY SyncsBegin, SyncsKept, <1>1, PTL DEF S!Spec, S!LinksKept

----------------------------------------------------------------------------
(* Extraction: what is stored under a URL is of one ZIP that was published there. *)

Zips == [of : E!Urls, version : Int]
ExtractionPcs == {"idle", "lookup", "fetch", "recheck", "convert", "inventory", "bundle"}
\* From here on a run has the bytes of a ZIP and the URL they came with.
WithZip == {"recheck", "convert", "inventory", "bundle"}
Extractions ==
  [pc : ExtractionPcs, route : {"id", "url"}, force : BOOLEAN, path : E!Urls \cup {None},
   type : {"CR", "WID", "blank"}, url : E!Urls \cup {None}, zip : Zips \cup {None},
   store : {"CR", "WID", None}, skipped : BOOLEAN, sole : BOOLEAN]
ExtractionTypes ==
  /\ tdoc.url \in Paths /\ server \in [E!Urls -> Int]
  /\ DOMAIN zips = E!Keys /\ DOMAIN archives = E!Keys
  /\ DOMAIN inventory = E!Urls /\ DOMAIN rows = E!Urls
  /\ disturbed \in [E!Urls -> BOOLEAN] /\ run \in [Workers -> Extractions]

\* A cached ZIP is of the bytes of its URL.
ZipsOwn == \A k \in E!Keys : zips[k] # None =>
             /\ zips[k].url \in E!Urls /\ zips[k].zip \in Zips /\ zips[k].zip.of = zips[k].url

\* What a run has in hand.
InHand(r) ==
  /\ r.pc # "idle" => r.path \in E!Urls /\ (r.route = "id" => r.path \in Paths)
  /\ r.pc \in WithZip => r.url \in E!Urls /\ r.zip \in Zips /\ r.zip.of = r.url

\* As long as nobody else writes at its URL, a run finds there what it has written.
FindsItsOwn(r) ==
  r.sole =>
    /\ r.pc \in {"inventory", "bundle"}
    /\ LET a == archives[E!KeyOf(r)] IN a # None /\ a.url = r.url => a.zip = r.zip
    /\ r.pc = "bundle" /\ E!FirstWrite(r) = "inventory" => inventory[r.url] = r.zip

RowsKeyed == \A u \in E!Urls : rows[u] # None => rows[u].key \in E!Keys

ExtractionInv ==
  /\ ExtractionTypes /\ ZipsOwn /\ RowsKeyed /\ E!ContentIsOneZip
  /\ \A w \in Workers : InHand(run[w]) /\ FindsItsOwn(run[w])

\* Before the first run there are at most rows of an old release, of the TDoc's URL.
LEMMA ExtractionBegins == E!Init => ExtractionInv
<1> SUFFICES ASSUME E!Init PROVE ExtractionInv
  OBVIOUS
<1>1. PICK p \in Paths, type \in Types : tdoc = [url |-> p, type |-> type]
  BY DEF E!Init
<1>2. /\ DOMAIN rows = E!Urls /\ \A u \in E!Urls : inventory[u] = None
      /\ DOMAIN archives = E!Keys /\ \A k \in E!Keys : archives[k] = None
      /\ DOMAIN inventory = E!Urls /\ DOMAIN zips = E!Keys /\ \A k \in E!Keys : zips[k] = None
  BY DEF E!Init
<1>3. \A w \in Workers : run[w] = E!Idle
  BY DEF E!Init
<1>4. E!Idle \in Extractions /\ E!Idle.pc = "idle" /\ ~E!Idle.sole
  BY DEF E!Idle, Extractions, ExtractionPcs
<1>5. ExtractionTypes
  <2>1. tdoc.url \in Paths
    BY <1>1
  <2>2. run \in [Workers -> Extractions]
    BY <1>4 DEF E!Init
  <2>3. server \in [E!Urls -> Int] /\ disturbed \in [E!Urls -> BOOLEAN]
    BY DEF E!Init
  <2> QED
    BY <1>2, <2>1, <2>2, <2>3 DEF ExtractionTypes
<1>6. ASSUME NEW u \in E!Urls, rows[u] # None
      PROVE  rows[u].zip.of = u /\ rows[u].key \in E!Keys
  <2>1. u = tdoc.url
    BY <1>6 DEF E!Init
  <2>2. rows[u] = [format |-> 1, store |-> "CR", key |-> <<"id", tdoc.url>>, count |-> 0,
                   documents |-> 0, skipped |-> FALSE, zip |-> [of |-> tdoc.url, version |-> 0]]
    BY <1>6, <2>1 DEF E!Init
  <2>3. rows[u].zip.of = u /\ rows[u].key = <<"id", p>>
    BY <1>1, <2>1, <2>2
  <2> QED
    BY <2>3 DEF E!Keys
<1>7. E!ContentIsOneZip
  BY <1>2, <1>6 DEF E!ContentIsOneZip
<1>8. ZipsOwn /\ RowsKeyed
  BY <1>2, <1>6 DEF ZipsOwn, RowsKeyed
<1>9. \A w \in Workers : InHand(run[w]) /\ FindsItsOwn(run[w])
  BY <1>3, <1>4 DEF InHand, FindsItsOwn, WithZip
<1> QED
  BY <1>5, <1>7, <1>8, <1>9 DEF ExtractionInv

\* A run that has begun reads and writes under a key of the cache.
LEMMA RunHasKey ==
  ASSUME NEW r \in Extractions, InHand(r), r.pc # "idle"
  PROVE  E!KeyOf(r) \in E!Keys
<1>1. r.route \in {"id", "url"} /\ r.path \in E!Urls /\ (r.route = "id" => r.path \in Paths)
  BY DEF Extractions, InHand
<1> QED
  BY <1>1 DEF E!KeyOf, E!Keys

\* Steps that write nothing of the TDoc: they move one run, or none.
LEMMA QuietStep ==
  ASSUME ExtractionInv, ExtractionTypes', ZipsOwn',
         UNCHANGED <<rows, inventory, disturbed>>,
         \A k \in E!Keys : archives'[k] = archives[k] \/ archives'[k] = None,
         \A w \in Workers : run'[w] = run[w] \/ (InHand(run'[w]) /\ ~run'[w].sole)
  PROVE  ExtractionInv'
<1>1. E!ContentIsOneZip' /\ RowsKeyed'
  BY DEF ExtractionInv, RowsKeyed, E!ContentIsOneZip
<1>2. ASSUME NEW w \in Workers PROVE InHand(run[w])' /\ FindsItsOwn(run[w])'
  <2>1. CASE run'[w] = run[w]
    <3>1. InHand(run[w]) /\ FindsItsOwn(run[w]) /\ run[w] \in Extractions
      BY DEF ExtractionInv, ExtractionTypes
    <3>2. InHand(run[w])'
      BY <2>1, <3>1 DEF InHand
    <3>3. ASSUME run[w].sole PROVE E!KeyOf(run[w]) \in E!Keys
      BY <3>1, <3>3, RunHasKey DEF FindsItsOwn
    <3>4. E!KeyOf(run[w])' = E!KeyOf(run[w]) /\ E!FirstWrite(run[w])' = E!FirstWrite(run[w])
      BY <2>1 DEF E!KeyOf, E!FirstWrite, E!StoreOf
    <3>5. FindsItsOwn(run[w])'
      BY <2>1, <3>1, <3>3, <3>4 DEF FindsItsOwn
    <3> QED
      BY <3>2, <3>5
  <2>2. CASE InHand(run'[w]) /\ ~run'[w].sole
    BY <2>2 DEF InHand, FindsItsOwn
  <2> QED
    BY <2>1, <2>2
<1> QED
  BY <1>1, <1>2 DEF ExtractionInv

\* What w writes at a URL others do not take for theirs: their part is in order
\* when that of w is.
LEMMA WriteStep ==
  ASSUME ExtractionInv, NEW w \in Workers, NEW u \in E!Urls, NEW r \in Extractions,
         E!Write(w, u, r), ExtractionTypes', UNCHANGED zips, InHand(r), FindsItsOwn(run[w])',
         \A k \in E!Keys : archives'[k] = archives[k] \/ archives'[k].url = u,
         \A x \in E!Urls \ {u} : /\ rows'[x] = rows[x] /\ inventory'[x] = inventory[x]
                                 /\ disturbed'[x] = disturbed[x],
         rows'[u] # None => rows'[u].zip.of = u /\ rows'[u].key \in E!Keys,
         rows'[u] # None /\ ~disturbed'[u] =>
           /\ inventory'[u] \in {rows'[u].zip, None}
           /\ LET a == archives'[rows'[u].key] IN a # None /\ a.url = u => a.zip = rows'[u].zip
  PROVE  ExtractionInv'
<1>1. /\ run \in [Workers -> Extractions] /\ run'[w] = r
      /\ \A v \in Workers \ {w} : run'[v] = [run[v] EXCEPT !.sole = @ /\ run[v].url # u]
  BY DEF ExtractionInv, ExtractionTypes, E!Write
<1>2. ASSUME NEW v \in Workers PROVE InHand(run[v])' /\ FindsItsOwn(run[v])'
  <2>1. CASE v = w
    BY <1>1, <2>1 DEF InHand
  <2>2. CASE v # w
    <3>1. InHand(run[v]) /\ FindsItsOwn(run[v]) /\ run[v] \in Extractions
      BY <1>1 DEF ExtractionInv
    <3>2. /\ run'[v].pc = run[v].pc /\ run'[v].path = run[v].path /\ run'[v].route = run[v].route
          /\ run'[v].url = run[v].url /\ run'[v].zip = run[v].zip /\ run'[v].type = run[v].type
          /\ run'[v].sole => run[v].sole /\ run[v].url # u
      <4> DEFINE mine == run[v].sole /\ run[v].url # u
      <4>1. run'[v] = [run[v] EXCEPT !.sole = mine]
        BY <1>1, <2>2
      <4>2. mine \in BOOLEAN
        OBVIOUS
      <4>3. mine => run[v].sole /\ run[v].url # u
        OBVIOUS
      <4> HIDE DEF mine
      <4>4. run'[v].sole = mine
        BY <3>1, <4>1 DEF Extractions
      <4> QED
        BY <3>1, <4>1, <4>3, <4>4 DEF Extractions
    <3>3. InHand(run[v])'
      BY <3>1, <3>2 DEF InHand
    <3>4. ASSUME run'[v].sole PROVE FindsItsOwn(run[v])'
      <4>1. run[v].sole /\ run[v].url # u /\ run[v].pc \in {"inventory", "bundle"}
        BY <3>1, <3>2, <3>4 DEF FindsItsOwn
      <4>2. run[v].url \in E!Urls /\ E!KeyOf(run[v]) \in E!Keys
        BY <3>1, <4>1, RunHasKey DEF InHand, WithZip
      <4>3. E!KeyOf(run[v])' = E!KeyOf(run[v]) /\ E!FirstWrite(run[v])' = E!FirstWrite(run[v])
        BY <3>2 DEF E!KeyOf, E!FirstWrite, E!StoreOf
      <4>4. inventory'[run[v].url] = inventory[run[v].url]
        BY <4>1, <4>2
      <4>5. \/ archives'[E!KeyOf(run[v])] = archives[E!KeyOf(run[v])]
            \/ archives'[E!KeyOf(run[v])].url # run[v].url
        BY <4>1, <4>2
      <4> QED
        BY <3>1, <3>2, <4>1, <4>3, <4>4, <4>5 DEF FindsItsOwn
    <3>5. ASSUME ~run'[v].sole PROVE FindsItsOwn(run[v])'
      BY <3>5 DEF FindsItsOwn
    <3> QED
      BY <3>3, <3>4, <3>5
  <2> QED
    BY <2>1, <2>2
<1>3. E!ContentIsOneZip' /\ RowsKeyed'
  <2> SUFFICES ASSUME NEW x \in E!Urls, rows'[x] # None
               PROVE  /\ rows'[x].key \in E!Keys /\ rows'[x].zip.of = x
                      /\ ~disturbed'[x] =>
                           /\ inventory'[x] \in {rows'[x].zip, None}
                           /\ LET a == archives'[rows'[x].key]
                              IN a # None /\ a.url = x => a.zip = rows'[x].zip
    BY DEF E!ContentIsOneZip, RowsKeyed
  <2>1. CASE x = u
    BY <2>1
  <2>2. CASE x # u
    BY <2>2 DEF ExtractionInv, E!ContentIsOneZip, RowsKeyed
  <2> QED
    BY <2>1, <2>2
<1> QED
  BY <1>2, <1>3 DEF ExtractionInv, ZipsOwn

\* Such a step keeps the runs what they are.
LEMMA WriteTyped ==
  ASSUME run \in [Workers -> Extractions], NEW w \in Workers, NEW u, NEW r \in Extractions,
         E!Write(w, u, r)
  PROVE  run' \in [Workers -> Extractions] /\ run'[w] = r
<1>1. ASSUME NEW v \in Workers PROVE (IF v = w THEN r ELSE [run[v] EXCEPT !.sole = @ /\ run[v].url # u])
                                     \in Extractions
  <2> DEFINE mine == run[v].sole /\ run[v].url # u
  <2>1. mine \in BOOLEAN
    OBVIOUS
  <2> HIDE DEF mine
  <2>2. [run[v] EXCEPT !.sole = mine] \in Extractions
    BY <2>1 DEF Extractions
  <2> QED
    BY <2>2 DEF mine
<1> QED
  BY <1>1 DEF E!Write

\* Syncs, publications, evictions, and the steps of a run up to its conversion.
LEMMA QuietKept ==
  ASSUME ExtractionInv,
         \/ E!SyncRow \/ (\E u \in E!Urls : E!Publish(u)) \/ (\E k \in E!Keys : E!Evict(k))
         \/ \E w \in Workers :
              \/ \E route \in {"id", "url"}, force \in BOOLEAN : E!Begin(w, route, force)
              \/ E!Lookup(w) \/ E!FetchCached(w) \/ E!Download(w) \/ E!Recheck(w) \/ E!BreakOff(w)
  PROVE  ExtractionInv'
<1> USE DEF E!store
<1>t. ExtractionTypes /\ ZipsOwn /\ run \in [Workers -> Extractions]
  BY DEF ExtractionInv, ExtractionTypes
<1>1. CASE E!SyncRow
  <2>1. UNCHANGED <<rows, inventory, disturbed, archives, zips, run, server>> /\ tdoc'.url \in Paths
    BY <1>1 DEF E!SyncRow, E!Event
  <2>2. ExtractionTypes' /\ ZipsOwn'
    BY <1>t, <2>1 DEF ExtractionTypes, ZipsOwn
  <2> QED
    BY <2>1, <2>2, QuietStep
<1>2. ASSUME NEW u \in E!Urls, E!Publish(u) PROVE ExtractionInv'
  <2>1. UNCHANGED <<rows, inventory, disturbed, archives, zips, run, tdoc>>
    BY <1>2 DEF E!Publish, E!Event
  <2>2. server' \in [E!Urls -> Int]
    BY <1>2, <1>t DEF E!Publish, ExtractionTypes
  <2>3. ExtractionTypes' /\ ZipsOwn'
    BY <1>t, <2>1, <2>2 DEF ExtractionTypes, ZipsOwn
  <2> QED
    BY <2>1, <2>3, QuietStep
<1>3. ASSUME NEW k \in E!Keys, E!Evict(k) PROVE ExtractionInv'
  <2>1. UNCHANGED <<rows, inventory, disturbed, run, tdoc, server>>
    BY <1>3 DEF E!Evict, E!Event
  <2>2. /\ zips' = zips \/ zips' = [zips EXCEPT ![k] = None]
        /\ archives' = archives \/ archives' = [archives EXCEPT ![k] = None]
    BY <1>3 DEF E!Evict
  <2>3. ExtractionTypes' /\ ZipsOwn'
    BY <1>t, <2>1, <2>2 DEF ExtractionTypes, ZipsOwn
  <2>4. \A x \in E!Keys : archives'[x] = archives[x] \/ archives'[x] = None
    BY <1>t, <2>2 DEF ExtractionTypes
  <2> QED
    BY <2>1, <2>3, <2>4, QuietStep
<1>4. ASSUME NEW w \in Workers, NEW r \in Extractions, E!Move(w, r), InHand(r), ~r.sole,
             UNCHANGED <<rows, inventory, disturbed, archives, tdoc, server>>,
             DOMAIN zips' = E!Keys, ZipsOwn'
      PROVE  ExtractionInv'
  <2>1. run' \in [Workers -> Extractions] /\ run'[w] = r /\ \A v \in Workers \ {w} : run'[v] = run[v]
    BY <1>t, <1>4 DEF E!Move
  <2>2. ExtractionTypes'
    BY <1>t, <1>4, <2>1 DEF ExtractionTypes
  <2> QED
    BY <1>4, <2>1, <2>2, QuietStep
<1>5. ASSUME NEW w \in Workers PROVE run[w] \in Extractions /\ InHand(run[w]) /\ FindsItsOwn(run[w])
  BY <1>t DEF ExtractionInv
<1>6. E!Idle \in Extractions /\ InHand(E!Idle) /\ ~E!Idle.sole
  BY DEF E!Idle, Extractions, ExtractionPcs, InHand, WithZip
<1>7. DOMAIN zips = E!Keys
  BY <1>t DEF ExtractionTypes
<1>8. ASSUME NEW w \in Workers, NEW route \in {"id", "url"}, NEW force \in BOOLEAN,
             E!Begin(w, route, force)
      PROVE  ExtractionInv'
  <2>1. PICK u \in IF route = "id" THEN {tdoc.url} ELSE E!Urls :
          E!Move(w, [E!Idle EXCEPT !.pc = IF force THEN "fetch" ELSE "lookup", !.route = route,
                                   !.force = force, !.path = u, !.type = tdoc.type])
    BY <1>8 DEF E!Begin
  <2>2. u \in E!Urls /\ (route = "id" => u \in Paths)
    BY <1>t DEF ExtractionTypes, E!Urls
  <2>3. tdoc.type \in {"CR", "WID", "blank"}
    BY <1>8 DEF E!Begin
  <2> DEFINE pc == IF force THEN "fetch" ELSE "lookup"
             r == [E!Idle EXCEPT !.pc = pc, !.route = route, !.force = force, !.path = u,
                                 !.type = tdoc.type]
  <2>4. pc \in {"fetch", "lookup"}
    OBVIOUS
  <2>5. r \in Extractions /\ InHand(r) /\ ~r.sole
    <3> HIDE DEF pc
    <3> QED
      BY <2>2, <2>3, <2>4 DEF E!Idle, Extractions, ExtractionPcs, InHand, WithZip
  <2>6. UNCHANGED <<rows, inventory, disturbed, archives, tdoc, server, zips>>
    BY <1>8 DEF E!Begin
  <2> HIDE DEF r
  <2>7. E!Move(w, r)
    BY <2>1 DEF r
  <2> QED
    BY <2>5, <2>6, <2>7, <1>t, <1>7, <1>4 DEF ZipsOwn
<1>9. ASSUME NEW w \in Workers, E!Lookup(w) \/ E!Recheck(w) \/ E!BreakOff(w) PROVE ExtractionInv'
  <2>1. UNCHANGED <<rows, inventory, disturbed, archives, tdoc, server, zips>>
    BY <1>9 DEF E!Lookup, E!Recheck, E!BreakOff
  <2>2. CASE E!Move(w, E!Idle)
    BY <2>1, <2>2, <1>t, <1>6, <1>7, <1>4 DEF ZipsOwn
  <2>3. CASE E!Lookup(w) /\ E!Move(w, [run[w] EXCEPT !.pc = "fetch"])
    <3> DEFINE r == [run[w] EXCEPT !.pc = "fetch"]
    <3>1. r \in Extractions /\ InHand(r) /\ ~r.sole
      BY <1>5, <2>3 DEF Extractions, ExtractionPcs, InHand, WithZip, FindsItsOwn, E!Lookup
    <3> QED
      BY <3>1, <2>1, <2>3, <1>t, <1>7, <1>4 DEF ZipsOwn
  <2>4. CASE E!Recheck(w) /\ E!Move(w, [run[w] EXCEPT !.pc = "convert"])
    <3> DEFINE r == [run[w] EXCEPT !.pc = "convert"]
    <3>1. r \in Extractions /\ InHand(r) /\ ~r.sole
      BY <1>5, <2>4 DEF Extractions, ExtractionPcs, InHand, WithZip, FindsItsOwn, E!Recheck
    <3> QED
      BY <3>1, <2>1, <2>4, <1>t, <1>7, <1>4 DEF ZipsOwn
  <2> QED
    BY <1>9, <2>2, <2>3, <2>4 DEF E!Lookup, E!Recheck, E!BreakOff, E!End
<1>10. ASSUME NEW w \in Workers, run[w].pc = "fetch", NEW z, z.url \in E!Urls, z.zip \in Zips,
              z.zip.of = z.url
       PROVE  LET r == E!Fetched(run[w], z) IN r \in Extractions /\ InHand(r) /\ ~r.sole
  <2> DEFINE pc == IF run[w].route = "id" /\ run[w].type = "CR" /\ ~run[w].force /\ z.url = run[w].path
                   THEN "recheck" ELSE "convert"
             r == [run[w] EXCEPT !.pc = pc, !.url = z.url, !.zip = z.zip]
  <2>1. pc \in {"recheck", "convert"}
    OBVIOUS
  <2>2. r \in Extractions /\ InHand(r) /\ ~r.sole
    <3> HIDE DEF pc
    <3> QED
      BY <1>5, <1>10, <2>1 DEF Extractions, ExtractionPcs, InHand, WithZip, FindsItsOwn
  <2> QED
    BY <2>2 DEF E!Fetched
<1>11. ASSUME NEW w \in Workers, run[w].pc = "fetch" PROVE E!KeyOf(run[w]) \in E!Keys
  BY <1>5, <1>11, RunHasKey
<1>12. ASSUME NEW w \in Workers, E!FetchCached(w) PROVE ExtractionInv'
  <2> DEFINE z == zips[E!KeyOf(run[w])]
  <2>1. z.url \in E!Urls /\ z.zip \in Zips /\ z.zip.of = z.url
    BY <1>t, <1>11, <1>12 DEF E!FetchCached, E!ZipHit, ZipsOwn
  <2>2. UNCHANGED <<rows, inventory, disturbed, archives, tdoc, server, zips>>
        /\ E!Move(w, E!Fetched(run[w], z)) /\ run[w].pc = "fetch"
    BY <1>12 DEF E!FetchCached
  <2> HIDE DEF z
  <2> QED
    BY <2>1, <2>2, <1>10, <1>t, <1>7, <1>4 DEF ZipsOwn
<1>13. ASSUME NEW w \in Workers, E!Download(w) PROVE ExtractionInv'
  <2>1. run[w].pc = "fetch" /\ UNCHANGED <<rows, inventory, disturbed, archives, tdoc, server>>
    BY <1>13 DEF E!Download
  <2>2. PICK u \in E!Candidates(run[w]) :
          LET z == [url |-> u, zip |-> [of |-> u, version |-> server[u]]]
          IN zips' = [zips EXCEPT ![E!KeyOf(run[w])] = z] /\ E!Move(w, E!Fetched(run[w], z))
    BY <1>13 DEF E!Download
  <2>3. u \in E!Urls
    BY <1>5, <2>1 DEF E!Candidates, InHand, E!Urls
  <2> DEFINE z == [url |-> u, zip |-> [of |-> u, version |-> server[u]]]
  <2>4. z.url \in E!Urls /\ z.zip \in Zips /\ z.zip.of = z.url
    BY <1>t, <2>3 DEF Zips, ExtractionTypes
  <2>5. zips' = [zips EXCEPT ![E!KeyOf(run[w])] = z] /\ E!Move(w, E!Fetched(run[w], z))
    BY <2>2
  <2> HIDE DEF z
  <2>6. ZipsOwn' /\ DOMAIN zips' = E!Keys
    BY <1>t, <1>7, <2>4, <2>5 DEF ZipsOwn
  <2> QED
    BY <2>1, <2>4, <2>5, <2>6, <1>10, <1>4
<1> QED
  BY <1>1, <1>2, <1>3, <1>8, <1>9, <1>12, <1>13

\* Caching the archive: the first write of a run, which it now has for itself.
LEMMA ConvertKept ==
  ASSUME ExtractionInv, NEW w \in Workers, E!Convert(w)
  PROVE  ExtractionInv'
<1> DEFINE u == run[w].url
           k == E!KeyOf(run[w])
<1>1. /\ run \in [Workers -> Extractions] /\ run[w] \in Extractions /\ InHand(run[w])
      /\ run[w].pc = "convert" /\ u \in E!Urls /\ k \in E!Keys
  BY RunHasKey DEF ExtractionInv, ExtractionTypes, E!Convert, InHand, WithZip
<1>2. PICK s \in {"CR", "WID"}, skip \in BOOLEAN :
        /\ archives' = [archives EXCEPT ![k] = [url |-> u, zip |-> run[w].zip]]
        /\ E!Write(w, u, [run[w] EXCEPT !.pc = E!FirstWrite(run[w]), !.store = s, !.skipped = skip,
                                        !.sole = TRUE])
  BY DEF E!Convert, E!StoredUrl, E!StoreOf
<1> DEFINE first == E!FirstWrite(run[w])
           r == [run[w] EXCEPT !.pc = first, !.store = s, !.skipped = skip, !.sole = TRUE]
<1>3. first \in {"inventory", "bundle"}
  BY DEF E!FirstWrite
<1>4. /\ r \in Extractions /\ InHand(r) /\ r.pc = first /\ r.type = run[w].type
      /\ r.url = u /\ r.zip = run[w].zip /\ r.path = run[w].path /\ r.route = run[w].route
  <2> HIDE DEF first
  <2> QED
    BY <1>1, <1>3 DEF Extractions, ExtractionPcs, InHand, WithZip
<1>5. E!FirstWrite(r) = first /\ E!KeyOf(r) = k
  BY <1>4 DEF E!FirstWrite, E!StoreOf, E!KeyOf
<1> HIDE DEF r, first
<1>6. E!Write(w, u, r)
  BY <1>2 DEF r, first
<1>7. run' \in [Workers -> Extractions] /\ run'[w] = r
  BY <1>1, <1>4, <1>6, WriteTyped
<1>8. UNCHANGED <<tdoc, server, zips, rows, inventory>> /\ disturbed' = [disturbed EXCEPT ![u] = TRUE]
  BY DEF E!Convert, E!store, E!Mark, E!StoredUrl
<1>9. ExtractionTypes' /\ disturbed'[u]
  BY <1>1, <1>2, <1>7, <1>8 DEF ExtractionInv, ExtractionTypes
<1>10. archives'[k] = [url |-> u, zip |-> run[w].zip] /\ \A x \in E!Keys \ {k} : archives'[x] = archives[x]
  BY <1>1, <1>2 DEF ExtractionInv, ExtractionTypes
<1>11. FindsItsOwn(run[w])'
  <2>1. E!KeyOf(run[w])' = k /\ E!FirstWrite(run[w])' = first
    BY <1>5, <1>7 DEF E!KeyOf, E!FirstWrite, E!StoreOf
  <2>2. ~(first = "bundle" /\ E!FirstWrite(run[w])' = "inventory")
    BY <2>1
  <2> QED
    BY <1>3, <1>4, <1>7, <1>10, <2>1, <2>2 DEF FindsItsOwn
<1>12. \A x \in E!Urls \ {u} : disturbed'[x] = disturbed[x]
  BY <1>8 DEF ExtractionInv, ExtractionTypes
<1>13. rows[u] # None => rows[u].zip.of = u /\ rows[u].key \in E!Keys
  BY <1>1 DEF ExtractionInv, E!ContentIsOneZip, RowsKeyed
<1>14. \A x \in E!Keys : archives'[x] = archives[x] \/ archives'[x].url = u
  BY <1>10
<1> HIDE DEF u, k
<1> QED
  BY <1>1, <1>4, <1>6, <1>8, <1>9, <1>11, <1>12, <1>13, <1>14, WriteStep

\* Storing the list of files, of a ZIP that was converted or could not be.
LEMMA InventoryKept ==
  ASSUME ExtractionInv, NEW w \in Workers, E!ConvertFails(w) \/ E!StoreInventory(w)
  PROVE  ExtractionInv'
<1> DEFINE u == run[w].url
<1>1. /\ run \in [Workers -> Extractions] /\ run[w] \in Extractions /\ InHand(run[w])
      /\ run[w].pc \in {"convert", "inventory"} /\ u \in E!Urls /\ E!KeyOf(run[w]) \in E!Keys
      /\ FindsItsOwn(run[w])
  BY RunHasKey DEF ExtractionInv, ExtractionTypes, E!ConvertFails, E!StoreInventory, InHand, WithZip
<1>2. ASSUME NEW r \in Extractions, InHand(r), E!WriteInventory(w, r),
             UNCHANGED <<tdoc, server, zips, archives, rows>>,
             r.sole => /\ run[w].sole /\ r.pc = "bundle" /\ E!KeyOf(r) = E!KeyOf(run[w])
                       /\ r.url = u /\ r.zip = run[w].zip
      PROVE  ExtractionInv'
  <2>1. /\ inventory' = [inventory EXCEPT ![u] = run[w].zip] /\ E!Write(w, u, r)
        /\ disturbed' = [disturbed EXCEPT ![u] = TRUE]
    BY <1>2 DEF E!WriteInventory, E!StoredUrl, E!Mark
  <2>2. run' \in [Workers -> Extractions] /\ run'[w] = r
    BY <1>1, <1>2, <2>1, WriteTyped
  <2>3. ExtractionTypes' /\ disturbed'[u] /\ inventory'[u] = run[w].zip
    BY <1>1, <1>2, <2>1, <2>2 DEF ExtractionInv, ExtractionTypes
  <2>4. FindsItsOwn(run[w])'
    <3>1. E!KeyOf(run[w])' = E!KeyOf(r)
      BY <2>2 DEF E!KeyOf
    <3> QED
      BY <1>1, <1>2, <2>2, <2>3, <3>1 DEF FindsItsOwn
  <2>5. \A x \in E!Urls \ {u} : disturbed'[x] = disturbed[x] /\ inventory'[x] = inventory[x]
    BY <2>1 DEF ExtractionInv, ExtractionTypes
  <2>6. rows[u] # None => rows[u].zip.of = u /\ rows[u].key \in E!Keys
    BY <1>1 DEF ExtractionInv, E!ContentIsOneZip, RowsKeyed
  <2> HIDE DEF u
  <2> QED
    BY <1>1, <1>2, <2>1, <2>3, <2>4, <2>5, <2>6, WriteStep
<1>3. E!Idle \in Extractions /\ InHand(E!Idle) /\ ~E!Idle.sole
  BY DEF E!Idle, Extractions, ExtractionPcs, InHand, WithZip
<1>4. CASE E!ConvertFails(w) /\ E!WriteInventory(w, E!Idle)
  BY <1>2, <1>3, <1>4 DEF E!ConvertFails
<1>5. CASE E!ConvertFails(w) /\ E!End(w) /\ UNCHANGED <<inventory, disturbed>>
  <2>1. UNCHANGED <<tdoc, server, zips, archives, rows, inventory, disturbed>>
    BY <1>5 DEF E!ConvertFails
  <2>2. /\ run' \in [Workers -> Extractions] /\ run'[w] = E!Idle
        /\ \A v \in Workers \ {w} : run'[v] = run[v]
    BY <1>1, <1>3, <1>5 DEF E!End, E!Move
  <2>3. ExtractionTypes' /\ ZipsOwn'
    BY <2>1, <2>2 DEF ExtractionInv, ExtractionTypes, ZipsOwn
  <2> QED
    BY <1>3, <2>1, <2>2, <2>3, QuietStep
<1>6. CASE E!StoreInventory(w)
  <2> DEFINE r == [run[w] EXCEPT !.pc = "bundle"]
  <2>1. /\ r \in Extractions /\ InHand(r) /\ E!KeyOf(r) = E!KeyOf(run[w])
        /\ r.sole = run[w].sole /\ r.pc = "bundle" /\ r.url = u /\ r.zip = run[w].zip
    BY <1>1, <1>6 DEF Extractions, ExtractionPcs, InHand, WithZip, E!KeyOf, E!StoreInventory
  <2> HIDE DEF r
  <2>2. E!WriteInventory(w, r) /\ UNCHANGED <<tdoc, server, zips, archives, rows>>
    BY <1>6 DEF E!StoreInventory, r
  <2> QED
    BY <2>1, <2>2, <1>2
<1> QED
  BY <1>4, <1>5, <1>6 DEF E!ConvertFails

\* Storing the bundle: what a run wrote in one go is of one ZIP.
LEMMA BundleKept ==
  ASSUME ExtractionInv, NEW w \in Workers, E!StoreBundle(w)
  PROVE  ExtractionInv'
<1> DEFINE u == run[w].url
           k == E!KeyOf(run[w])
           b == E!BundleOf(run[w])
<1>1. /\ run \in [Workers -> Extractions] /\ run[w] \in Extractions /\ InHand(run[w])
      /\ run[w].pc = "bundle" /\ u \in E!Urls /\ k \in E!Keys /\ FindsItsOwn(run[w])
      /\ run[w].zip.of = u
  BY RunHasKey DEF ExtractionInv, ExtractionTypes, E!StoreBundle, InHand, WithZip
<1>2. /\ rows' = [rows EXCEPT ![u] = b] /\ E!Write(w, u, E!Idle)
      /\ disturbed' = [disturbed EXCEPT ![u] = ~E!InOneGo(run[w])]
      /\ UNCHANGED <<tdoc, server, zips, archives, inventory>>
  BY DEF E!StoreBundle, E!StoredUrl, E!Mark
<1>3. b.zip = run[w].zip /\ b.key = k
  BY DEF E!BundleOf
<1>4. E!Idle \in Extractions /\ InHand(E!Idle) /\ ~E!Idle.sole
  BY DEF E!Idle, Extractions, ExtractionPcs, InHand, WithZip
<1>5. run' \in [Workers -> Extractions] /\ run'[w] = E!Idle
  BY <1>1, <1>2, <1>4, WriteTyped
<1> DEFINE torn == ~E!InOneGo(run[w])
<1>6. torn \in BOOLEAN
  OBVIOUS
<1>7. disturbed' \in [E!Urls -> BOOLEAN] /\ disturbed'[u] = torn
      /\ \A x \in E!Urls \ {u} : disturbed'[x] = disturbed[x]
  <2> HIDE DEF torn
  <2>1. disturbed' = [disturbed EXCEPT ![u] = torn]
    BY <1>2 DEF torn
  <2> QED
    BY <1>1, <1>6, <2>1 DEF ExtractionInv, ExtractionTypes
<1>8. rows'[u] = b /\ DOMAIN rows' = E!Urls /\ \A x \in E!Urls \ {u} : rows'[x] = rows[x]
  BY <1>1, <1>2 DEF ExtractionInv, ExtractionTypes
<1>9. ExtractionTypes'
  BY <1>2, <1>5, <1>7, <1>8 DEF ExtractionInv, ExtractionTypes
<1>10. FindsItsOwn(run[w])'
  BY <1>4, <1>5 DEF FindsItsOwn
<1>11. ASSUME ~torn
       PROVE  /\ inventory[u] \in {b.zip, None}
              /\ LET a == archives[b.key] IN a # None /\ a.url = u => a.zip = b.zip
  <2>1. run[w].sole /\ (E!FirstWrite(run[w]) = "bundle" => inventory[u] = None)
    BY <1>11 DEF E!InOneGo, E!StoredUrl
  <2>2. E!FirstWrite(run[w]) \in {"bundle", "inventory"}
    BY DEF E!FirstWrite
  <2> QED
    BY <1>1, <1>3, <2>1, <2>2 DEF FindsItsOwn
<1> HIDE DEF torn, b, u, k
<1> QED
  BY <1>1, <1>2, <1>3, <1>4, <1>7, <1>8, <1>9, <1>10, <1>11, WriteStep

LEMMA ExtractionKept == ExtractionInv /\ [E!Next]_(E!vars) => ExtractionInv'
<1> SUFFICES ASSUME ExtractionInv, [E!Next]_(E!vars) PROVE ExtractionInv'
  OBVIOUS
<1>1. CASE UNCHANGED E!vars
  <2>1. UNCHANGED <<rows, inventory, disturbed, archives, zips, run, tdoc, server>>
    BY <1>1 DEF E!vars, E!store
  <2>2. ExtractionTypes' /\ ZipsOwn'
    BY <2>1 DEF ExtractionInv, ExtractionTypes, ZipsOwn
  <2> QED
    BY <2>1, <2>2, QuietStep
<1>2. ASSUME NEW w \in Workers, E!Step(w) PROVE ExtractionInv'
  BY <1>2, QuietKept, ConvertKept, InventoryKept, BundleKept DEF E!Step
<1> QED
  BY <1>1, <1>2, QuietKept DEF E!Next

\* What is stored of a TDoc under a URL is of one ZIP that was published there
\* (tdoc_cr_service.py, prepare_extract and persist_prepared_extract), for any runs,
\* URLs and events, wherever runs die and however they overlap; the archive and the
\* inventory are included when nobody wrote between the writes of the run.
THEOREM StoredIsOneZip == E!Spec => []E!ContentIsOneZip
<1>1. ExtractionInv => E!ContentIsOneZip
  BY DEF ExtractionInv
<1> QED
  BY ExtractionBegins, ExtractionKept, <1>1, PTL DEF E!Spec

----------------------------------------------------------------------------
(* Meeting and TDoc syncs: a stamp stands for a complete sync.                *)

\* From TakeMeeting to Stamp a run is at a meeting; before its list is stored, and
\* after that.
AtPcs == {"fetch list", "store list", "scan", "store files", "stamp"}
ListStored == {"scan", "store files", "stamp"}
FolderShows == [Folders -> Nat]
Shows == [list : Nat, folder : FolderShows]
Below(a, b) == \A f \in Folders : a[f] <= b[f]
MeetingRuns ==
  [pc : AtPcs \cup {"idle", "calendar", "store meetings", "stamp tsg", "next", "done", "raised", "read"},
   kind : {"tsg", "one", "sweep", "auto"}, force : BOOLEAN, todo : SUBSET Meetings,
   at : Meetings \cup {None}, ftp : BOOLEAN, fetched : Nat \cup {None} \cup Calendars \cup FolderShows,
   asked : Shows \cup {None}, alone : BOOLEAN]
MeetingTypes ==
  /\ calendar \in Calendars
  /\ portal \in [Meetings -> Nat] /\ folder \in [Meetings -> FolderShows]
  /\ meetings \in [Meetings -> {None} \cup [ftp : BOOLEAN]]
  /\ stamp \in [Meetings -> {"never", "new", "old"}]
  /\ tdocs \in [Meetings -> Nat] /\ files \in [Meetings -> FolderShows]
  /\ DOMAIN seen = Meetings
  /\ run \in [Workers -> MeetingRuns]

\* Upstream never shows less than what a stamp was given for.
StampedShown ==
  \A m \in Meetings : stamp[m] # "never" =>
    seen[m] \in Shows /\ seen[m].list <= portal[m] /\ Below(seen[m].folder, folder[m])

\* What a run knows of the meeting it is at.
AsksFirst(r) ==
  /\ r.pc \in AtPcs =>
       /\ r.at \in Meetings /\ r.asked \in Shows
       /\ r.asked.list <= portal[r.at] /\ Below(r.asked.folder, folder[r.at])
       /\ ~r.ftp => r.asked.folder = M!Nothing
  /\ r.pc \notin AtPcs => r.at = None
  /\ r.pc = "store meetings" => r.fetched \in Calendars
  /\ r.pc = "store list" => r.fetched \in Nat /\ r.fetched >= r.asked.list
  /\ r.pc = "store files" => r.fetched \in FolderShows /\ Below(r.asked.folder, r.fetched)
  /\ r.pc \in {"scan", "store files"} => r.ftp

\* What a scan found in a subfolder is not older than what a stamp was given for.
FoundAnew(r) == \A f \in Folders : r.fetched[f] = 0 \/ seen[r.at].folder[f] <= r.fetched[f]

\* A run that is alone at its meeting finds its own rows again, and nobody stamps
\* the meeting for something newer.
KeepsAlone(r) ==
  r.pc \in AtPcs /\ r.alone =>
    /\ stamp[r.at] # "never" => seen[r.at].list <= r.asked.list
    /\ r.pc = "store files" /\ stamp[r.at] # "never" => FoundAnew(r)
    /\ r.pc \in ListStored => tdocs[r.at] >= r.asked.list
    /\ r.pc = "stamp" => Below(r.asked.folder, files[r.at])

\* Runs at one meeting know that they are not alone, and the history does.
Marked ==
  \A v \in Workers : run[v].at \in Meetings =>
    /\ ~run[v].alone => run[v].at \in disturbed
    /\ \A w \in Workers : w # v /\ run[w].at = run[v].at => ~run[v].alone

MeetingInv ==
  /\ MeetingTypes /\ StampedShown /\ Marked /\ M!StampIsEarned
  /\ \A w \in Workers : AsksFirst(run[w]) /\ KeepsAlone(run[w])

\* Of a meeting without a folder nothing is seen.
LEMMA NothingShows == M!Nothing \in FolderShows /\ \A f \in Folders : M!Nothing[f] = 0
  BY DEF M!Nothing, FolderShows

----------------------------------------------------------------------------
\* Before the first sync nothing is stamped and nobody is at a meeting.
LEMMA MeetingsBegin == M!Init => MeetingInv
<1> SUFFICES ASSUME M!Init PROVE MeetingInv
  OBVIOUS
<1>1. \A w \in Workers : run[w] = M!Idle
  BY DEF M!Init
<1>2. M!Idle \in MeetingRuns /\ M!Idle.pc = "idle" /\ M!Idle.at = None
  BY DEF M!Idle, MeetingRuns
<1>3. MeetingTypes
  <2>1. run \in [Workers -> MeetingRuns]
    BY <1>2 DEF M!Init
  <2>2. \A m \in Meetings : m % 2 \in Nat
    BY MeetingsNat
  <2>3. \A m \in Meetings : folder[m] \in FolderShows /\ files[m] \in FolderShows
    BY NothingShows DEF M!Init, FolderShows
  <2> QED
    BY <2>1, <2>2, <2>3 DEF M!Init, MeetingTypes
<1>4. StampedShown /\ M!StampIsEarned
  BY DEF M!Init, StampedShown, M!StampIsEarned
<1>5. Marked
  BY <1>1, <1>2, MeetingsNat DEF Marked
<1>6. ASSUME NEW w \in Workers PROVE AsksFirst(run[w]) /\ KeepsAlone(run[w])
  BY <1>1, <1>2 DEF AsksFirst, KeepsAlone, AtPcs
<1> QED
  BY <1>3, <1>4, <1>5, <1>6 DEF MeetingInv

\* Move replaces the run of one worker.
LEMMA MeetingRunMoved ==
  ASSUME run \in [Workers -> MeetingRuns], NEW w \in Workers, NEW r \in MeetingRuns, M!Move(w, r)
  PROVE  /\ run' \in [Workers -> MeetingRuns] /\ run'[w] = r
         /\ \A v \in Workers \ {w} : run'[v] = run[v]
  BY DEF M!Move

\* What a run knows does not depend on the rows of other meetings, nor, when it is
\* not alone, on those of its own.
LEMMA OneMeetingRun ==
  ASSUME MeetingInv, NEW w \in Workers, MeetingTypes',
         \A v \in Workers \ {w} : run'[v] = run[v],
         UNCHANGED <<portal, folder, stamp, seen, disturbed>>,
         \A m \in Meetings : m # run[w].at => tdocs'[m] = tdocs[m] /\ files'[m] = files[m],
         run'[w].at = None \/ (run'[w].at = run[w].at /\ run'[w].alone = run[w].alone),
         AsksFirst(run[w])', KeepsAlone(run[w])', M!StampIsEarned'
  PROVE  MeetingInv'
<1>1. Marked'
  <2> SUFFICES ASSUME NEW v \in Workers, run'[v].at \in Meetings
               PROVE  /\ ~run'[v].alone => run'[v].at \in disturbed'
                      /\ \A u \in Workers : u # v /\ run'[u].at = run'[v].at => ~run'[v].alone
    BY DEF Marked
  <2>1. \A u \in Workers : run'[u].at \in Meetings =>
          run'[u].at = run[u].at /\ run'[u].alone = run[u].alone
    BY MeetingsNat
  <2> QED
    BY <2>1 DEF MeetingInv, Marked
<1>2. ASSUME NEW v \in Workers PROVE AsksFirst(run[v])' /\ KeepsAlone(run[v])'
  <2>1. CASE v # w /\ run[v].pc \in AtPcs
    <3>1. run'[v] = run[v] /\ run[v].at \in Meetings /\ AsksFirst(run[v])
      BY <2>1 DEF MeetingInv, AsksFirst
    <3>2. run[v].alone => run[w].at # run[v].at
      BY <2>1, <3>1 DEF MeetingInv, Marked
    <3>3. AsksFirst(run[v])'
      BY <3>1 DEF AsksFirst
    <3>4. KeepsAlone(run[v])'
      <4>1. KeepsAlone(run[v])
        BY DEF MeetingInv
      <4>2. run[v].alone => tdocs'[run[v].at] = tdocs[run[v].at] /\ files'[run[v].at] = files[run[v].at]
        BY <3>1, <3>2
      <4> QED
        BY <3>1, <4>1, <4>2 DEF KeepsAlone, FoundAnew
    <3> QED
      BY <3>3, <3>4
  <2>2. CASE v # w /\ run[v].pc \notin AtPcs
    BY <2>2 DEF MeetingInv, AsksFirst, KeepsAlone
  <2> QED
    BY <2>1, <2>2
<1>3. StampedShown'
  BY DEF MeetingInv, StampedShown
<1> QED
  BY <1>1, <1>2, <1>3 DEF MeetingInv

\* A step after which the run is at no meeting, and that stores nothing of one.
LEMMA OffMeeting ==
  ASSUME MeetingInv, NEW w \in Workers, MeetingTypes',
         \A v \in Workers \ {w} : run'[v] = run[v],
         UNCHANGED <<portal, folder, stamp, seen, disturbed, tdocs, files>>,
         run'[w].pc \notin AtPcs, run'[w].at = None,
         run'[w].pc = "store meetings" => run'[w].fetched \in Calendars
  PROVE  MeetingInv'
<1>1. AsksFirst(run[w])' /\ KeepsAlone(run[w])'
  BY DEF AsksFirst, KeepsAlone, AtPcs
<1>2. M!StampIsEarned'
  BY DEF MeetingInv, M!StampIsEarned
<1> QED
  BY <1>1, <1>2, OneMeetingRun

\* A step that moves a run and stores nothing keeps the types.
LEMMA TypesOfMove ==
  ASSUME MeetingInv, NEW w \in Workers, run' \in [Workers -> MeetingRuns],
         UNCHANGED <<calendar, portal, folder, meetings, stamp, tdocs, files, seen>>
  PROVE  MeetingTypes'
  BY DEF MeetingInv, MeetingTypes

\* Starting, the calendar, the end of a run and its failures.
LEMMA RestKept ==
  ASSUME MeetingInv, NEW w \in Workers,
         \/ \E kind \in {"tsg", "one", "sweep", "auto"}, force \in BOOLEAN : M!Begin(w, kind, force)
         \/ M!FetchCalendar(w) \/ M!StoreMeetings(w) \/ M!StampTsg(w)
         \/ M!Finish(w) \/ M!Raise(w) \/ M!Leave(w)
  PROVE  MeetingInv'
<1>t. run \in [Workers -> MeetingRuns] /\ run[w] \in MeetingRuns /\ AsksFirst(run[w])
  BY DEF MeetingInv, MeetingTypes
<1>i. M!Idle \in MeetingRuns /\ M!Idle.pc = "idle" /\ M!Idle.at = None
  BY DEF M!Idle, MeetingRuns
<1>1. ASSUME NEW kind \in {"tsg", "one", "sweep", "auto"}, NEW force \in BOOLEAN,
             M!Begin(w, kind, force)
      PROVE  MeetingInv'
  <2>1. PICK c \in M!Candidates :
          M!Move(w, [M!Idle EXCEPT !.pc = IF c.tsg THEN "calendar" ELSE "next", !.kind = kind,
                                   !.force = force, !.todo = c.todo])
    BY <1>1 DEF M!Begin
  <2> DEFINE r == [M!Idle EXCEPT !.pc = IF c.tsg THEN "calendar" ELSE "next", !.kind = kind,
                                 !.force = force, !.todo = c.todo]
  <2>2. c.todo \in SUBSET Meetings /\ c.tsg \in BOOLEAN
    BY DEF M!Candidates
  <2>3. r \in MeetingRuns /\ r.pc \in {"calendar", "next"} /\ r.at = None
    BY <2>2 DEF M!Idle, MeetingRuns
  <2> HIDE DEF r
  <2>4. /\ run' \in [Workers -> MeetingRuns] /\ run'[w] = r
        /\ \A v \in Workers \ {w} : run'[v] = run[v]
    BY <2>1, <2>3, <1>t, MeetingRunMoved DEF r
  <2>5. UNCHANGED <<calendar, portal, folder, meetings, stamp, tdocs, files, seen, disturbed>>
    BY <1>1 DEF M!Begin, M!upstream, M!rows, M!history
  <2>6. MeetingTypes'
    BY <2>4, <2>5, TypesOfMove
  <2> QED
    BY <2>3, <2>4, <2>5, <2>6, OffMeeting DEF AtPcs
<1>2. ASSUME NEW r \in MeetingRuns, M!Move(w, r), r.pc \notin AtPcs, r.at = None,
             r.pc = "store meetings" => r.fetched \in Calendars,
             UNCHANGED <<calendar, portal, folder, stamp, tdocs, files, seen, disturbed>>,
             meetings' \in [Meetings -> {None} \cup [ftp : BOOLEAN]]
      PROVE  MeetingInv'
  <2>1. /\ run' \in [Workers -> MeetingRuns] /\ run'[w] = r
        /\ \A v \in Workers \ {w} : run'[v] = run[v]
    BY <1>2, <1>t, MeetingRunMoved
  <2>2. MeetingTypes'
    BY <1>2, <2>1 DEF MeetingInv, MeetingTypes
  <2> QED
    BY <1>2, <2>1, <2>2, OffMeeting
<1>m. meetings \in [Meetings -> {None} \cup [ftp : BOOLEAN]] /\ calendar \in Calendars
  BY DEF MeetingInv, MeetingTypes
<1>3. CASE M!FetchCalendar(w)
  <2>1. run[w].pc = "calendar" /\ run[w].at = None
    BY <1>3, <1>t DEF M!FetchCalendar, AsksFirst, AtPcs
  <2>2. UNCHANGED <<calendar, portal, folder, meetings, stamp, tdocs, files, seen, disturbed>>
    BY <1>3 DEF M!FetchCalendar, M!upstream, M!rows, M!history
  <2>3. CASE M!CalendarGate(run[w])
    <3> DEFINE r == [run[w] EXCEPT !.pc = "next"]
    <3>1. r \in MeetingRuns /\ r.pc = "next" /\ r.at = None
      BY <1>t, <2>1 DEF MeetingRuns
    <3>2. M!Move(w, r)
      BY <1>3, <2>3 DEF M!FetchCalendar, M!Set
    <3> QED
      BY <3>1, <3>2, <2>2, <1>m, <1>2 DEF AtPcs
  <2>4. CASE ~ M!CalendarGate(run[w])
    <3> DEFINE r == [run[w] EXCEPT !.pc = "store meetings", !.fetched = calendar]
    <3>1. r \in MeetingRuns /\ r.pc = "store meetings" /\ r.at = None /\ r.fetched = calendar
      BY <1>t, <1>m, <2>1 DEF MeetingRuns
    <3>2. M!Move(w, r)
      BY <1>3, <2>4 DEF M!FetchCalendar
    <3> QED
      BY <3>1, <3>2, <2>2, <1>m, <1>2 DEF AtPcs
  <2> QED
    BY <2>3, <2>4
<1>4. CASE M!StoreMeetings(w)
  <2>1. run[w].pc = "store meetings" /\ run[w].at = None /\ run[w].fetched \in Calendars
    BY <1>4, <1>t DEF M!StoreMeetings, AsksFirst, AtPcs
  <2>2. UNCHANGED <<calendar, portal, folder, stamp, tdocs, files, seen, disturbed>>
    BY <1>4 DEF M!StoreMeetings, M!upstream, M!history
  <2>3. meetings' \in [Meetings -> {None} \cup [ftp : BOOLEAN]]
    BY <1>4, <1>m, <2>1, CalendarsListMeetings DEF M!StoreMeetings
  <2> DEFINE r == [run[w] EXCEPT !.pc = "stamp tsg"]
  <2>4. r \in MeetingRuns /\ r.pc = "stamp tsg" /\ r.at = None
    BY <1>t, <2>1 DEF MeetingRuns
  <2>5. M!Move(w, r)
    BY <1>4 DEF M!StoreMeetings, M!Set
  <2> QED
    BY <2>2, <2>3, <2>4, <2>5, <1>2 DEF AtPcs
<1>5. CASE M!StampTsg(w)
  <2>1. run[w].pc = "stamp tsg" /\ run[w].at = None
    BY <1>5, <1>t DEF M!StampTsg, AsksFirst, AtPcs
  <2>2. UNCHANGED <<calendar, portal, folder, meetings, stamp, tdocs, files, seen, disturbed>>
    BY <1>5 DEF M!StampTsg, M!upstream, M!history
  <2> DEFINE r == [run[w] EXCEPT !.pc = "next", !.fetched = None]
  <2>4. r \in MeetingRuns /\ r.pc = "next" /\ r.at = None
    BY <1>t, <2>1 DEF MeetingRuns
  <2>5. M!Move(w, r)
    BY <1>5 DEF M!StampTsg
  <2> QED
    BY <2>2, <2>4, <2>5, <1>m, <1>2 DEF AtPcs
<1>6. CASE M!Finish(w)
  <2>1. run[w].pc = "next" /\ run[w].at = None
    BY <1>6, <1>t DEF M!Finish, AsksFirst, AtPcs
  <2>2. UNCHANGED <<calendar, portal, folder, meetings, stamp, tdocs, files, seen, disturbed>>
    BY <1>6 DEF M!Finish, M!upstream, M!rows, M!history
  <2> DEFINE pc == IF run[w].kind = "auto" THEN "read" ELSE "done"
             r == [run[w] EXCEPT !.pc = pc]
  <2>3. pc \in {"read", "done"}
    OBVIOUS
  <2>4. r \in MeetingRuns /\ r.pc \in {"read", "done"} /\ r.at = None
    <3> HIDE DEF pc
    <3> QED
      BY <1>t, <2>1, <2>3 DEF MeetingRuns
  <2>5. M!Move(w, r)
    BY <1>6 DEF M!Finish
  <2> QED
    BY <2>2, <2>4, <2>5, <1>m, <1>2 DEF AtPcs
<1>7. CASE M!Raise(w)
  <2>2. UNCHANGED <<calendar, portal, folder, meetings, stamp, tdocs, files, seen, disturbed>>
    BY <1>7 DEF M!Raise, M!upstream, M!rows, M!history
  <2> DEFINE r == M!OnError(run[w])
  <2>4. r \in MeetingRuns /\ r.pc \in {"next", "raised"} /\ r.at = None
    <3> DEFINE away == M!Away(run[w])
               pc == IF run[w].kind = "auto" THEN "next" ELSE "raised"
    <3>1. away \in MeetingRuns /\ away.at = None
      BY <1>t DEF MeetingRuns, M!Away
    <3>2. r = [away EXCEPT !.pc = pc]
      BY DEF M!OnError
    <3>3. pc \in {"next", "raised"}
      OBVIOUS
    <3> HIDE DEF away, pc, r
    <3> QED
      BY <3>1, <3>2, <3>3 DEF MeetingRuns
  <2>5. M!Move(w, r)
    BY <1>7 DEF M!Raise
  <2> QED
    BY <2>2, <2>4, <2>5, <1>m, <1>2 DEF AtPcs
<1>8. CASE M!Leave(w)
  <2>2. UNCHANGED <<calendar, portal, folder, meetings, stamp, tdocs, files, seen, disturbed>>
    BY <1>8 DEF M!Leave, M!upstream, M!rows, M!history
  <2>5. M!Move(w, M!Idle)
    BY <1>8 DEF M!Leave
  <2> QED
    BY <2>2, <2>5, <1>i, <1>m, <1>2 DEF AtPcs
<1> QED
  BY <1>1, <1>3, <1>4, <1>5, <1>6, <1>7, <1>8

\* The steps of a run at its meeting, up to the stamp.
LEMMA WorkKept ==
  ASSUME MeetingInv, NEW w \in Workers,
         M!FetchList(w) \/ M!StoreList(w) \/ M!Scan(w) \/ M!StoreFiles(w)
  PROVE  MeetingInv'
<1> DEFINE m == run[w].at
<1>t. /\ run \in [Workers -> MeetingRuns] /\ run[w] \in MeetingRuns
      /\ AsksFirst(run[w]) /\ KeepsAlone(run[w])
      /\ portal \in [Meetings -> Nat] /\ folder \in [Meetings -> FolderShows]
      /\ tdocs \in [Meetings -> Nat] /\ files \in [Meetings -> FolderShows]
  BY DEF MeetingInv, MeetingTypes
<1>p. run[w].pc \in AtPcs
  BY DEF M!FetchList, M!StoreList, M!Scan, M!StoreFiles, AtPcs
<1>m. /\ m \in Meetings /\ run[w].asked \in Shows
      /\ run[w].asked.list \in Nat /\ run[w].asked.folder \in FolderShows
      /\ portal[m] \in Nat /\ folder[m] \in FolderShows
      /\ tdocs[m] \in Nat /\ files[m] \in FolderShows
  BY <1>t, <1>p DEF AsksFirst, Shows
<1>d. ~run[w].alone => m \in disturbed
  BY <1>m DEF MeetingInv, Marked
<1>s. stamp[m] # "never" => /\ seen[m] \in Shows /\ seen[m].list \in Nat /\ seen[m].folder \in FolderShows
  BY <1>m DEF MeetingInv, StampedShown, Shows
<1>1. CASE M!FetchList(w)
  <2> DEFINE r == [run[w] EXCEPT !.pc = "store list", !.fetched = portal[m]]
  <2>1. run[w].pc = "fetch list" /\ M!Move(w, r)
    BY <1>1 DEF M!FetchList
  <2>2. /\ r \in MeetingRuns /\ r.pc = "store list" /\ r.fetched = portal[m]
        /\ r.at = m /\ r.ftp = run[w].ftp /\ r.asked = run[w].asked /\ r.alone = run[w].alone
    BY <1>t, <1>m DEF MeetingRuns, AtPcs
  <2>3. UNCHANGED <<calendar, portal, folder, meetings, stamp, tdocs, files, seen, disturbed>>
    BY <1>1 DEF M!FetchList, M!upstream, M!rows, M!history
  <2> HIDE DEF r
  <2>4. /\ run' \in [Workers -> MeetingRuns] /\ run'[w] = r
        /\ \A v \in Workers \ {w} : run'[v] = run[v]
    BY <2>1, <2>2, <1>t, MeetingRunMoved
  <2>5. AsksFirst(run[w])'
    BY <2>1, <2>2, <2>3, <2>4, <1>t, <1>p, <1>m DEF AsksFirst, AtPcs
  <2>6. KeepsAlone(run[w])'
    BY <2>1, <2>2, <2>3, <2>4, <1>t, <1>p, <1>m DEF KeepsAlone, AtPcs, ListStored
  <2>7. M!StampIsEarned'
    BY <2>3 DEF MeetingInv, M!StampIsEarned
  <2>8. MeetingTypes'
    BY <2>3, <2>4, TypesOfMove
  <2> QED
    BY <2>2, <2>3, <2>4, <2>5, <2>6, <2>7, <2>8, OneMeetingRun
<1>2. CASE M!StoreList(w)
  <2> DEFINE pc == IF run[w].ftp THEN "scan" ELSE "stamp"
             r == [run[w] EXCEPT !.pc = pc]
  <2>1. /\ run[w].pc = "store list" /\ M!Move(w, r)
        /\ tdocs' = [tdocs EXCEPT ![m] = IF run[w].fetched = 0 THEN @ ELSE run[w].fetched]
    BY <1>2 DEF M!StoreList, M!Set
  <2>f. run[w].fetched \in Nat /\ run[w].fetched >= run[w].asked.list
    BY <2>1, <1>t DEF AsksFirst
  <2>p. pc \in {"scan", "stamp"} /\ (pc = "scan" <=> run[w].ftp)
    BY <1>t DEF MeetingRuns
  <2> HIDE DEF pc
  <2>2. /\ r \in MeetingRuns /\ r.pc = pc
        /\ r.at = m /\ r.ftp = run[w].ftp /\ r.asked = run[w].asked /\ r.alone = run[w].alone
    BY <1>t, <1>m, <2>p DEF MeetingRuns, AtPcs
  <2>3. UNCHANGED <<calendar, portal, folder, meetings, stamp, files, seen, disturbed>>
    BY <1>2 DEF M!StoreList, M!upstream, M!history
  <2> HIDE DEF r
  <2>4. /\ run' \in [Workers -> MeetingRuns] /\ run'[w] = r
        /\ \A v \in Workers \ {w} : run'[v] = run[v]
    BY <2>1, <2>2, <1>t, MeetingRunMoved
  <2>v. /\ tdocs' \in [Meetings -> Nat] /\ tdocs'[m] >= run[w].asked.list
        /\ \A n \in Meetings : n # m => tdocs'[n] = tdocs[n]
        /\ tdocs'[m] = IF run[w].fetched = 0 THEN tdocs[m] ELSE run[w].fetched
    <3> DEFINE list == IF run[w].fetched = 0 THEN tdocs[m] ELSE run[w].fetched
    <3>1. list \in Nat /\ list >= run[w].asked.list
      BY <2>f, <1>m
    <3>2. tdocs' = [tdocs EXCEPT ![m] = list]
      BY <2>1
    <3> QED
      BY <3>1, <3>2, <1>t, <1>m
  <2>5. AsksFirst(run[w])'
    BY <2>1, <2>2, <2>3, <2>4, <2>p, <1>t, <1>p, <1>m DEF AsksFirst, AtPcs
  <2>6. KeepsAlone(run[w])'
    <3>1. r.pc = "stamp" => run[w].asked.folder = M!Nothing
      BY <2>2, <2>p, <1>t, <1>p DEF AsksFirst
    <3>2. r.pc = "stamp" => Below(run[w].asked.folder, files[m])
      BY <3>1, <1>m, NothingShows DEF FolderShows, Below
    <3>3. run[w].alone /\ stamp[m] # "never" => seen[m].list <= run[w].asked.list
      BY <1>t, <1>p DEF KeepsAlone
    <3> QED
      BY <3>2, <3>3, <2>2, <2>3, <2>4, <2>p, <2>v DEF KeepsAlone
  <2>7. M!StampIsEarned'
    <3>1. ASSUME NEW n \in Meetings \ disturbed, stamp[n] # "never"
          PROVE  /\ tdocs'[n] >= seen[n].list
                 /\ \A f \in Folders : files[n][f] >= seen[n].folder[f]
      <4>1. tdocs[n] >= seen[n].list /\ \A f \in Folders : files[n][f] >= seen[n].folder[f]
        BY <3>1 DEF MeetingInv, M!StampIsEarned
      <4>2. CASE n = m
        <5>1. seen[m].list <= run[w].asked.list
          BY <4>2, <3>1, <1>d, <1>t, <1>p DEF KeepsAlone
        <5>2. seen[m].list \in Nat /\ tdocs'[m] \in Nat /\ tdocs'[m] >= run[w].asked.list
          BY <4>2, <3>1, <2>v, <1>s, <1>m
        <5>3. tdocs'[m] >= seen[m].list
          BY <5>1, <5>2, <1>m
        <5> QED
          BY <5>3, <4>1, <4>2
      <4> QED
        BY <4>1, <4>2, <2>v
    <3> QED
      BY <3>1, <2>3 DEF M!StampIsEarned
  <2>8. MeetingTypes'
    BY <2>3, <2>4, <2>v DEF MeetingInv, MeetingTypes
  <2> QED
    BY <2>2, <2>3, <2>4, <2>5, <2>6, <2>7, <2>8, <2>v, OneMeetingRun
<1>3. CASE M!Scan(w)
  <2>u. PICK unread \in M!Unread(w) :
          LET found == [f \in Folders |-> IF f \in unread THEN 0 ELSE folder[m][f]]
          IN M!Move(w, [run[w] EXCEPT
               !.pc = IF found = M!Nothing THEN "stamp" ELSE "store files", !.fetched = found,
               !.asked.folder = [f \in Folders |-> IF f \in unread THEN 0 ELSE @[f]]])
    BY <1>3 DEF M!Scan
  <2> DEFINE found == [f \in Folders |-> IF f \in unread THEN 0 ELSE folder[m][f]]
             read == [f \in Folders |-> IF f \in unread THEN 0 ELSE run[w].asked.folder[f]]
             asked == [run[w].asked EXCEPT !.folder = read]
             pc == IF found = M!Nothing THEN "stamp" ELSE "store files"
             r == [run[w] EXCEPT !.pc = pc, !.fetched = found, !.asked = asked]
  <2>1. run[w].pc = "scan" /\ M!Move(w, r)
    BY <1>3, <2>u DEF M!Scan
  <2>f. /\ Below(run[w].asked.folder, folder[m]) /\ run[w].asked.list <= portal[m]
        /\ run[w].ftp
    BY <2>1, <1>t, <1>p DEF AsksFirst
  <2>a. /\ found \in FolderShows /\ read \in FolderShows
        /\ Below(read, found) /\ Below(read, folder[m])
        /\ \A f \in Folders : found[f] = 0 \/ found[f] = folder[m][f]
    BY <2>f, <1>m DEF FolderShows, Below
  <2>b. asked \in Shows /\ asked.list = run[w].asked.list /\ asked.folder = read
    BY <2>a, <1>m DEF Shows
  <2>p. pc \in {"stamp", "store files"} /\ (pc = "stamp" => found = M!Nothing)
    OBVIOUS
  <2> HIDE DEF pc, found, read, asked
  <2>2. /\ r \in MeetingRuns /\ r.pc = pc /\ r.fetched = found
        /\ r.at = m /\ r.ftp = run[w].ftp /\ r.asked = asked /\ r.alone = run[w].alone
    BY <1>t, <1>m, <2>a, <2>b, <2>p DEF MeetingRuns, AtPcs
  <2>3. UNCHANGED <<calendar, portal, folder, meetings, stamp, tdocs, files, seen, disturbed>>
    BY <1>3 DEF M!Scan, M!upstream, M!rows, M!history
  <2> HIDE DEF r
  <2>4. /\ run' \in [Workers -> MeetingRuns] /\ run'[w] = r
        /\ \A v \in Workers \ {w} : run'[v] = run[v]
    BY <2>1, <2>2, <1>t, MeetingRunMoved
  <2>5. AsksFirst(run[w])'
    BY <2>a, <2>b, <2>2, <2>3, <2>4, <2>p, <2>f, <1>m DEF AsksFirst, AtPcs
  <2>6. KeepsAlone(run[w])'
    <3>1. pc = "stamp" => Below(read, files[m])
      BY <2>a, <2>p, <1>m, NothingShows DEF FolderShows, Below
    <3>2. ASSUME stamp[m] # "never", NEW f \in Folders
          PROVE  found[f] = 0 \/ seen[m].folder[f] <= found[f]
      <4>1. seen[m].folder[f] <= folder[m][f]
        BY <3>2, <1>m DEF MeetingInv, StampedShown, Below
      <4> QED
        BY <4>1, <2>a
    <3>3. stamp[m] # "never" => FoundAnew(run[w])'
      BY <3>2, <2>2, <2>3, <2>4 DEF FoundAnew
    <3>4. run[w].alone => /\ stamp[m] # "never" => seen[m].list <= asked.list
                          /\ tdocs[m] >= asked.list
      BY <2>1, <2>b, <1>t, <1>p DEF KeepsAlone, ListStored
    <3> QED
      BY <3>1, <3>3, <3>4, <2>b, <2>2, <2>3, <2>4 DEF KeepsAlone
  <2>7. M!StampIsEarned'
    BY <2>3 DEF MeetingInv, M!StampIsEarned
  <2>8. MeetingTypes'
    BY <2>3, <2>4, TypesOfMove
  <2> QED
    BY <2>2, <2>3, <2>4, <2>5, <2>6, <2>7, <2>8, OneMeetingRun
<1>4. CASE M!StoreFiles(w)
  <2> DEFINE r == [run[w] EXCEPT !.pc = "stamp"]
             found == run[w].fetched
             kept == [f \in Folders |-> IF found[f] = 0 THEN files[m][f] ELSE found[f]]
  <2>1. /\ run[w].pc = "store files" /\ M!Move(w, r)
        /\ files' = [files EXCEPT ![m] = kept]
    BY <1>4 DEF M!StoreFiles, M!Set
  <2>f. found \in FolderShows /\ Below(run[w].asked.folder, found) /\ run[w].ftp
    BY <2>1, <1>t DEF AsksFirst
  <2>a. kept \in FolderShows /\ Below(run[w].asked.folder, kept)
    <3>1. \A f \in Folders : /\ found[f] \in Nat /\ files[m][f] \in Nat
                            /\ run[w].asked.folder[f] \in Nat
                            /\ run[w].asked.folder[f] <= found[f]
      BY <2>f, <1>m DEF FolderShows, Below
    <3> QED
      BY <3>1 DEF FolderShows, Below
  <2>2. /\ r \in MeetingRuns /\ r.pc = "stamp"
        /\ r.at = m /\ r.ftp = run[w].ftp /\ r.asked = run[w].asked /\ r.alone = run[w].alone
    BY <1>t, <1>m DEF MeetingRuns, AtPcs
  <2>3. UNCHANGED <<calendar, portal, folder, meetings, stamp, tdocs, seen, disturbed>>
    BY <1>4 DEF M!StoreFiles, M!upstream, M!history
  <2> HIDE DEF r
  <2>4. /\ run' \in [Workers -> MeetingRuns] /\ run'[w] = r
        /\ \A v \in Workers \ {w} : run'[v] = run[v]
    BY <2>1, <2>2, <1>t, MeetingRunMoved
  <2>r. \A f \in Folders : kept[f] = files[m][f] \/ (kept[f] = found[f] /\ found[f] # 0)
    OBVIOUS
  <2> HIDE DEF kept
  <2>v. /\ files' \in [Meetings -> FolderShows] /\ files'[m] = kept
        /\ \A n \in Meetings : n # m => files'[n] = files[n]
    BY <2>1, <2>a, <1>t, <1>m
  <2>5. AsksFirst(run[w])'
    BY <2>1, <2>2, <2>3, <2>4, <1>t, <1>p, <1>m DEF AsksFirst, AtPcs
  <2>6. KeepsAlone(run[w])'
    BY <2>1, <2>2, <2>3, <2>4, <2>v, <2>a, <1>t, <1>p, <1>m DEF KeepsAlone, ListStored
  <2>7. M!StampIsEarned'
    <3>1. ASSUME NEW n \in Meetings \ disturbed, stamp[n] # "never"
          PROVE  /\ tdocs[n] >= seen[n].list
                 /\ \A f \in Folders : files'[n][f] >= seen[n].folder[f]
      <4>1. tdocs[n] >= seen[n].list /\ \A f \in Folders : files[n][f] >= seen[n].folder[f]
        BY <3>1 DEF MeetingInv, M!StampIsEarned
      <4>2. CASE n = m
        <5>1. FoundAnew(run[w])
          BY <4>2, <3>1, <2>1, <1>d, <1>t, <1>p DEF KeepsAlone
        <5>2. \A f \in Folders : seen[m].folder[f] \in Nat /\ found[f] \in Nat
          BY <4>2, <3>1, <2>f, <1>s DEF FolderShows
        <5>3. ASSUME NEW f \in Folders PROVE kept[f] >= seen[m].folder[f]
          BY <5>1, <5>2, <4>1, <4>2, <2>r DEF FoundAnew
        <5> QED
          BY <5>3, <4>1, <4>2, <2>v
      <4> QED
        BY <4>1, <4>2, <2>v
    <3> QED
      BY <3>1, <2>3 DEF M!StampIsEarned
  <2>8. MeetingTypes'
    BY <2>3, <2>4, <2>v DEF MeetingInv, MeetingTypes
  <2> QED
    BY <2>2, <2>3, <2>4, <2>5, <2>6, <2>7, <2>8, <2>v, OneMeetingRun
<1> QED
  BY <1>1, <1>2, <1>3, <1>4

\* The stamp of a run that is alone says what is stored; that of another one is
\* given at a meeting the history knows.
LEMMA StampKept ==
  ASSUME MeetingInv, NEW w \in Workers, M!Stamp(w)
  PROVE  MeetingInv'
<1> DEFINE m == run[w].at
           asked == run[w].asked
           r == M!Away(run[w])
<1>t. /\ run \in [Workers -> MeetingRuns] /\ run[w] \in MeetingRuns
      /\ AsksFirst(run[w]) /\ KeepsAlone(run[w])
      /\ portal \in [Meetings -> Nat] /\ folder \in [Meetings -> FolderShows]
      /\ tdocs \in [Meetings -> Nat] /\ files \in [Meetings -> FolderShows]
      /\ stamp \in [Meetings -> {"never", "new", "old"}] /\ DOMAIN seen = Meetings
  BY DEF MeetingInv, MeetingTypes
<1>1. /\ run[w].pc = "stamp" /\ M!Move(w, r)
      /\ stamp' = [stamp EXCEPT ![m] = "new"] /\ seen' = [seen EXCEPT ![m] = asked]
      /\ disturbed' = IF run[w].alone THEN disturbed \ {m} ELSE disturbed
  BY DEF M!Stamp, M!Complete
<1>2. UNCHANGED <<calendar, portal, folder, meetings, tdocs, files>>
  BY DEF M!Stamp, M!upstream
<1>m. /\ m \in Meetings /\ run[w].asked \in Shows
      /\ run[w].asked.list \in Nat /\ run[w].asked.folder \in FolderShows
      /\ portal[m] \in Nat /\ folder[m] \in FolderShows
      /\ tdocs[m] \in Nat /\ files[m] \in FolderShows
      /\ run[w].asked.list <= portal[m] /\ Below(run[w].asked.folder, folder[m])
  BY <1>1, <1>t DEF AsksFirst, Shows, AtPcs
<1>4. r \in MeetingRuns /\ r.pc = "next" /\ r.at = None
  BY <1>t DEF M!Away, MeetingRuns
<1> HIDE DEF r
<1>5. /\ run' \in [Workers -> MeetingRuns] /\ run'[w] = r
      /\ \A v \in Workers \ {w} : run'[v] = run[v]
  BY <1>1, <1>4, <1>t, MeetingRunMoved
<1>6. /\ stamp'[m] = "new" /\ seen'[m] = asked
      /\ \A n \in Meetings : n # m => stamp'[n] = stamp[n] /\ seen'[n] = seen[n]
  BY <1>1, <1>t, <1>m
<1>7. MeetingTypes'
  BY <1>1, <1>2, <1>5, <1>t DEF MeetingInv, MeetingTypes
<1>8. StampedShown'
  <2> SUFFICES ASSUME NEW n \in Meetings, stamp'[n] # "never"
               PROVE  seen'[n] \in Shows /\ seen'[n].list <= portal[n] /\ Below(seen'[n].folder, folder[n])
    BY <1>2 DEF StampedShown
  <2>1. CASE n = m
    BY <2>1, <1>6, <1>m
  <2>2. CASE n # m
    BY <2>2, <1>6 DEF MeetingInv, StampedShown
  <2> QED
    BY <2>1, <2>2
<1>o. ASSUME NEW v \in Workers, v # w, run[v].at = m PROVE ~run[v].alone /\ ~run[w].alone
  BY <1>o, <1>m DEF MeetingInv, Marked
<1>9. Marked'
  <2> SUFFICES ASSUME NEW v \in Workers, run'[v].at \in Meetings
               PROVE  /\ ~run'[v].alone => run'[v].at \in disturbed'
                      /\ \A u \in Workers : u # v /\ run'[u].at = run'[v].at => ~run'[v].alone
    BY DEF Marked
  <2>1. v # w /\ run'[v] = run[v]
    BY <1>4, <1>5, MeetingsNat
  <2>2. \A u \in Workers : run'[u].at = run'[v].at => u # w /\ run'[u] = run[u]
    BY <1>4, <1>5, MeetingsNat
  <2>3. ~run[v].alone => run[v].at \in disturbed'
    BY <2>1, <1>1, <1>o DEF MeetingInv, Marked
  <2> QED
    BY <2>1, <2>2, <2>3 DEF MeetingInv, Marked
<1>10. M!StampIsEarned'
  <2> SUFFICES ASSUME NEW n \in Meetings \ disturbed', stamp'[n] # "never"
               PROVE  /\ tdocs[n] >= seen'[n].list
                      /\ \A f \in Folders : files[n][f] >= seen'[n].folder[f]
    BY <1>2 DEF M!StampIsEarned
  <2>1. CASE n # m
    <3>1. n \notin disturbed
      BY <2>1, <1>1
    <3> QED
      BY <3>1, <2>1, <1>6 DEF MeetingInv, M!StampIsEarned
  <2>2. CASE n = m
    <3>1. run[w].alone
      BY <2>2, <1>1, <1>m DEF MeetingInv, Marked
    <3>2. /\ tdocs[m] >= run[w].asked.list
          /\ \A f \in Folders : files[m][f] >= run[w].asked.folder[f]
      <4>1. /\ tdocs[m] >= run[w].asked.list
            /\ \A f \in Folders : run[w].asked.folder[f] <= files[m][f]
        BY <3>1, <1>1, <1>t DEF KeepsAlone, AtPcs, ListStored, Below
      <4>2. \A f \in Folders : run[w].asked.folder[f] \in Nat /\ files[m][f] \in Nat
        BY <1>m DEF FolderShows
      <4> QED
        BY <4>1, <4>2
    <3> QED
      BY <2>2, <3>2, <1>6, <1>m
  <2> QED
    BY <2>1, <2>2
<1>11. ASSUME NEW v \in Workers PROVE AsksFirst(run[v])' /\ KeepsAlone(run[v])'
  <2>1. CASE v = w
    BY <2>1, <1>4, <1>5 DEF AsksFirst, KeepsAlone, AtPcs
  <2>2. CASE v # w
    <3>1. run'[v] = run[v] /\ AsksFirst(run[v]) /\ KeepsAlone(run[v])
      BY <2>2, <1>5 DEF MeetingInv
    <3>2. AsksFirst(run[v])'
      BY <3>1, <1>2 DEF AsksFirst
    <3>3. KeepsAlone(run[v])'
      <4> SUFFICES ASSUME run[v].pc \in AtPcs, run[v].alone
                   PROVE  KeepsAlone(run[v])'
        BY <3>1 DEF KeepsAlone
      <4>1. run[v].at # m /\ run[v].at \in Meetings
        BY <2>2, <3>1, <1>o DEF AsksFirst
      <4> QED
        BY <4>1, <3>1, <1>2, <1>6 DEF KeepsAlone, FoundAnew
    <3> QED
      BY <3>2, <3>3
  <2> QED
    BY <2>1, <2>2
<1> QED
  BY <1>7, <1>8, <1>9, <1>10, <1>11 DEF MeetingInv

\* A run that takes a meeting is a run.
LEMMA RunAt ==
  ASSUME NEW r \in MeetingRuns, NEW m \in Meetings, NEW ftp \in BOOLEAN, NEW shown \in Shows,
         NEW alone \in BOOLEAN
  PROVE  [r EXCEPT !.pc = "fetch list", !.at = m, !.ftp = ftp, !.asked = shown, !.alone = alone]
           \in MeetingRuns
  BY DEF MeetingRuns, AtPcs

\* Taking a meeting tells the runs that are at it, and the history.
LEMMA TakeKept ==
  ASSUME MeetingInv, NEW w \in Workers, M!TakeMeeting(w)
  PROVE  MeetingInv'
<1>t. /\ run \in [Workers -> MeetingRuns] /\ run[w] \in MeetingRuns
      /\ portal \in [Meetings -> Nat] /\ folder \in [Meetings -> FolderShows]
      /\ meetings \in [Meetings -> {None} \cup [ftp : BOOLEAN]]
      /\ \A v \in Workers : run[v] \in MeetingRuns /\ AsksFirst(run[v]) /\ KeepsAlone(run[v])
  BY DEF MeetingInv, MeetingTypes
<1>n. run[w].pc = "next" /\ run[w].at = None
  BY <1>t DEF M!TakeMeeting, AsksFirst, AtPcs
<1>1. UNCHANGED <<calendar, portal, folder, meetings, stamp, tdocs, files, seen>>
  BY DEF M!TakeMeeting, M!upstream, M!rows
<1>2. PICK m \in run[w].todo :
        LET r == [run[w] EXCEPT !.todo = @ \ {m}]
        IN IF meetings[m] = None
           THEN /\ M!Move(w, [r EXCEPT !.pc = IF r.kind = "one" THEN "raised" ELSE "next"])
                /\ UNCHANGED disturbed
           ELSE IF M!ListGate(r, m) THEN M!Move(w, r) /\ UNCHANGED disturbed
           ELSE /\ run' = [v \in Workers |->
                     IF v = w THEN [r EXCEPT !.pc = "fetch list", !.at = m, !.ftp = meetings[m].ftp,
                                             !.asked = M!Shown(m), !.alone = ~M!Others(w, m)]
                     ELSE [run[v] EXCEPT !.alone = @ /\ run[v].at # m]]
                /\ disturbed' = IF M!Others(w, m) THEN disturbed \cup {m} ELSE disturbed
  BY DEF M!TakeMeeting
<1> DEFINE r == [run[w] EXCEPT !.todo = @ \ {m}]
<1>m. m \in Meetings /\ portal[m] \in Nat /\ folder[m] \in FolderShows
  BY <1>t DEF MeetingRuns
<1>3. /\ r \in MeetingRuns /\ r.pc = "next" /\ r.at = None
      /\ r.kind = run[w].kind
  BY <1>t, <1>n DEF MeetingRuns
<1>4. CASE meetings[m] = None
  <2> DEFINE pc == IF r.kind = "one" THEN "raised" ELSE "next"
             s == [r EXCEPT !.pc = pc]
  <2>1. M!Move(w, s) /\ UNCHANGED disturbed
    BY <1>2, <1>4
  <2>2. pc \in {"raised", "next"}
    OBVIOUS
  <2> HIDE DEF pc, r
  <2>3. s \in MeetingRuns /\ s.pc = pc /\ s.at = None
    BY <1>3, <2>2 DEF MeetingRuns
  <2> HIDE DEF s
  <2>4. /\ run' \in [Workers -> MeetingRuns] /\ run'[w] = s
        /\ \A v \in Workers \ {w} : run'[v] = run[v]
    BY <2>1, <2>3, <1>t, MeetingRunMoved
  <2>5. MeetingTypes'
    BY <1>1, <2>4, TypesOfMove
  <2> QED
    BY <1>1, <2>1, <2>2, <2>3, <2>4, <2>5, OffMeeting DEF AtPcs
<1>5. CASE meetings[m] # None /\ M!ListGate(r, m)
  <2>1. M!Move(w, r) /\ UNCHANGED disturbed
    BY <1>2, <1>5
  <2> HIDE DEF r
  <2>4. /\ run' \in [Workers -> MeetingRuns] /\ run'[w] = r
        /\ \A v \in Workers \ {w} : run'[v] = run[v]
    BY <2>1, <1>3, <1>t, MeetingRunMoved
  <2>5. MeetingTypes'
    BY <1>1, <2>4, TypesOfMove
  <2> QED
    BY <1>1, <2>1, <1>3, <2>4, <2>5, OffMeeting DEF AtPcs
<1>6. CASE meetings[m] # None /\ ~ M!ListGate(r, m)
  <2> DEFINE others == M!Others(w, m)
             s == [r EXCEPT !.pc = "fetch list", !.at = m, !.ftp = meetings[m].ftp,
                            !.asked = M!Shown(m), !.alone = ~others]
             t(v) == [run[v] EXCEPT !.alone = @ /\ run[v].at # m]
  <2>1. /\ run' = [v \in Workers |-> IF v = w THEN s ELSE t(v)]
        /\ disturbed' = IF others THEN disturbed \cup {m} ELSE disturbed
    BY <1>2, <1>6
  <2>2. others <=> \E v \in Workers \ {w} : run[v].at = m
    BY DEF M!Others
  <2>3. /\ M!Shown(m) \in Shows /\ M!Shown(m).list = portal[m] /\ Below(M!Shown(m).folder, folder[m])
        /\ meetings[m].ftp \in BOOLEAN
        /\ M!Shown(m).folder = IF meetings[m].ftp THEN folder[m] ELSE M!Nothing
    <3>1. M!Shown(m) = [list |-> portal[m], folder |-> IF meetings[m].ftp THEN folder[m] ELSE M!Nothing]
      BY DEF M!Shown
    <3>2. meetings[m].ftp \in BOOLEAN
      <4>1. meetings[m] # None
        BY <1>6
      <4>2. meetings[m] \in {None} \cup [ftp : BOOLEAN]
        BY <1>m, <1>t
      <4> HIDE DEF r
      <4> QED
        BY <4>1, <4>2
    <3> QED
      BY <3>1, <3>2, <1>m, NothingShows DEF Shows, FolderShows, Below
  <2> HIDE DEF others, r
  <2>4. s \in MeetingRuns
    <3> DEFINE alone == ~others
               shown == M!Shown(m)
               ftp == meetings[m].ftp
    <3>1. alone \in BOOLEAN /\ shown \in Shows /\ ftp \in BOOLEAN
      BY <2>3
    <3>2. s = [r EXCEPT !.pc = "fetch list", !.at = m, !.ftp = ftp, !.asked = shown, !.alone = alone]
      OBVIOUS
    <3> HIDE DEF alone, shown, ftp, s
    <3> QED
      BY <1>3, <3>1, <3>2, <1>m, RunAt
  <2>5. /\ s.pc = "fetch list" /\ s.at = m /\ s.ftp = meetings[m].ftp /\ s.asked = M!Shown(m)
        /\ s.alone = ~others
    BY <1>3 DEF MeetingRuns
  <2>6. ASSUME NEW v \in Workers \ {w}
        PROVE  /\ run'[v] \in MeetingRuns
               /\ run'[v].pc = run[v].pc /\ run'[v].at = run[v].at /\ run'[v].ftp = run[v].ftp
               /\ run'[v].asked = run[v].asked /\ run'[v].fetched = run[v].fetched
               /\ run'[v].alone = (run[v].alone /\ run[v].at # m)
    <3>1. run[v] \in MeetingRuns
      BY <1>t
    <3>2. run'[v] = t(v)
      BY <2>1
    <3> QED
      BY <3>1, <3>2 DEF MeetingRuns
  <2>7. run'[w] = s
    BY <2>1
  <2> HIDE DEF s, t
  <2>8. run' \in [Workers -> MeetingRuns]
    <3>1. \A v \in Workers : run'[v] \in MeetingRuns
      BY <2>4, <2>6, <2>7
    <3> QED
      BY <3>1, <2>1
  <2>9. MeetingTypes'
    BY <1>1, <2>8, TypesOfMove
  <2>10. StampedShown' /\ M!StampIsEarned'
    BY <1>1, <2>1 DEF MeetingInv, StampedShown, M!StampIsEarned
  <2>11. Marked'
    <3> SUFFICES ASSUME NEW v \in Workers, run'[v].at \in Meetings
                 PROVE  /\ ~run'[v].alone => run'[v].at \in disturbed'
                        /\ \A u \in Workers : u # v /\ run'[u].at = run'[v].at => ~run'[v].alone
      BY DEF Marked
    <3>1. CASE v = w
      BY <3>1, <2>1, <2>2, <2>5, <2>6, <2>7
    <3>2. CASE v # w
      <4>1. /\ run'[v].at = run[v].at /\ run'[v].alone = (run[v].alone /\ run[v].at # m)
        BY <3>2, <2>6
      <4>2. ~run'[v].alone => run'[v].at \in disturbed'
        BY <4>1, <3>2, <2>1, <2>2 DEF MeetingInv, Marked
      <4>3. ASSUME NEW u \in Workers, u # v, run'[u].at = run'[v].at PROVE ~run'[v].alone
        <5>1. CASE u = w
          BY <5>1, <4>1, <4>3, <2>5, <2>7
        <5>2. CASE u # w
          <6>1. run'[u].at = run[u].at
            BY <5>2, <2>6
          <6>2. ~run[v].alone
            BY <6>1, <4>1, <4>3 DEF MeetingInv, Marked
          <6> QED
            BY <6>2, <4>1
        <5> QED
          BY <5>1, <5>2
      <4> QED
        BY <4>2, <4>3
    <3> QED
      BY <3>1, <3>2
  <2>12. ASSUME NEW v \in Workers PROVE AsksFirst(run[v])' /\ KeepsAlone(run[v])'
    <3>1. CASE v = w
      <4>1. AsksFirst(run[w])'
        <5>1. /\ M!Shown(m).list <= portal[m] /\ Below(M!Shown(m).folder, folder[m])
              /\ ~meetings[m].ftp => M!Shown(m).folder = M!Nothing
          BY <2>3, <1>t, <1>m DEF Shows
        <5>2. portal' = portal /\ folder' = folder
          BY <1>1
        <5>3. run'[w].pc = "fetch list" /\ run'[w].at = m /\ run'[w].ftp = meetings[m].ftp
              /\ run'[w].asked = M!Shown(m)
          BY <2>5, <2>7
        <5> QED
          BY <5>1, <5>2, <5>3, <2>3, <1>m DEF AsksFirst, AtPcs
      <4>2. KeepsAlone(run[w])'
        BY <2>3, <2>5, <2>7, <1>1, <1>m DEF KeepsAlone, AtPcs, ListStored, MeetingInv, StampedShown
      <4> QED
        BY <3>1, <4>1, <4>2
    <3>2. CASE v # w
      <4>1. /\ run'[v].pc = run[v].pc /\ run'[v].at = run[v].at /\ run'[v].ftp = run[v].ftp
            /\ run'[v].asked = run[v].asked /\ run'[v].fetched = run[v].fetched
            /\ run'[v].alone => run[v].alone
        BY <3>2, <2>6
      <4>2. AsksFirst(run[v]) /\ KeepsAlone(run[v])
        BY <1>t
      <4>3. AsksFirst(run[v])'
        BY <4>1, <4>2, <1>1 DEF AsksFirst
      <4>4. KeepsAlone(run[v])'
        BY <4>1, <4>2, <1>1 DEF KeepsAlone, FoundAnew
      <4> QED
        BY <4>3, <4>4
    <3> QED
      BY <3>1, <3>2
  <2> QED
    BY <2>9, <2>10, <2>11, <2>12 DEF MeetingInv
<1> QED
  BY <1>4, <1>5, <1>6

LEMMA BelowTrans ==
  ASSUME NEW a \in FolderShows, NEW b \in FolderShows, NEW c \in FolderShows,
         Below(a, b), Below(b, c)
  PROVE  Below(a, c)
  BY DEF FolderShows, Below

\* Time and the portal: stamps age, and upstream shows more.
LEMMA EventsKept ==
  ASSUME MeetingInv, M!Tick \/ \E m \in Meetings : M!Publish(m)
  PROVE  MeetingInv'
<1>t. /\ portal \in [Meetings -> Nat] /\ folder \in [Meetings -> FolderShows]
      /\ stamp \in [Meetings -> {"never", "new", "old"}]
  BY DEF MeetingInv, MeetingTypes
<1>1. UNCHANGED <<calendar, meetings, tdocs, files, run, seen, disturbed>>
  <2>1. CASE M!Tick
    BY <2>1 DEF M!Tick, M!upstream, M!history
  <2>2. ASSUME NEW m \in Meetings, M!Publish(m)
        PROVE  UNCHANGED <<calendar, meetings, tdocs, files, run, seen, disturbed>>
    BY <2>2 DEF M!Publish, M!rows, M!history
  <2> QED
    BY <2>1, <2>2
<1>2. /\ stamp' \in [Meetings -> {"never", "new", "old"}]
      /\ \A m \in Meetings : stamp'[m] # "never" <=> stamp[m] # "never"
  BY <1>t DEF M!Tick, M!Publish, M!Aged, M!rows
<1>3. /\ portal' \in [Meetings -> Nat] /\ folder' \in [Meetings -> FolderShows]
      /\ \A m \in Meetings : portal[m] <= portal'[m] /\ Below(folder[m], folder'[m])
  <2>0. /\ \A m \in Meetings : portal[m] \in Nat
        /\ \A m \in Meetings, f \in Folders : folder[m][f] \in Nat
    BY <1>t DEF FolderShows
  <2>1. CASE M!Tick
    BY <2>1, <1>t, <2>0 DEF M!Tick, M!upstream, Below
  <2>2. ASSUME NEW m \in Meetings, M!Publish(m)
        PROVE  /\ portal' \in [Meetings -> Nat] /\ folder' \in [Meetings -> FolderShows]
               /\ \A n \in Meetings : portal[n] <= portal'[n] /\ Below(folder[n], folder'[n])
    <3>1. CASE portal' = [portal EXCEPT ![m] = @ + 1] /\ UNCHANGED folder
      BY <3>1, <2>0, <1>t DEF Below
    <3>2. ASSUME NEW f \in Folders, folder' = [folder EXCEPT ![m][f] = @ + 1], UNCHANGED portal
          PROVE  /\ folder' \in [Meetings -> FolderShows]
                 /\ \A n \in Meetings : portal[n] <= portal'[n] /\ Below(folder[n], folder'[n])
      <4>1. \A n \in Meetings, g \in Folders :
              folder'[n][g] = IF n = m /\ g = f THEN folder[n][g] + 1 ELSE folder[n][g]
        BY <3>2, <1>t DEF FolderShows
      <4>2. folder' \in [Meetings -> FolderShows]
        <5>1. [folder[m] EXCEPT ![f] = @ + 1] \in FolderShows
          BY <2>0, <1>t DEF FolderShows
        <5> QED
          BY <5>1, <3>2, <1>t
      <4>3. \A n \in Meetings, g \in Folders : folder[n][g] <= folder'[n][g]
        BY <4>1, <2>0
      <4> QED
        BY <4>2, <4>3, <3>2, <2>0 DEF Below
    <3> QED
      BY <2>2, <3>1, <3>2, <1>t DEF M!Publish
  <2> QED
    BY <2>1, <2>2
<1>4. MeetingTypes'
  BY <1>1, <1>2, <1>3 DEF MeetingInv, MeetingTypes
<1>5. StampedShown'
  <2> SUFFICES ASSUME NEW m \in Meetings, stamp'[m] # "never"
               PROVE  seen[m] \in Shows /\ seen[m].list <= portal'[m] /\ Below(seen[m].folder, folder'[m])
    BY <1>1 DEF StampedShown
  <2>1. seen[m] \in Shows /\ seen[m].list <= portal[m] /\ Below(seen[m].folder, folder[m])
    BY <1>2 DEF MeetingInv, StampedShown
  <2> QED
    BY <2>1, <1>t, <1>3, BelowTrans DEF Shows
<1>6. Marked' /\ M!StampIsEarned'
  BY <1>1, <1>2 DEF MeetingInv, Marked, M!StampIsEarned
<1>7. ASSUME NEW w \in Workers PROVE AsksFirst(run[w])' /\ KeepsAlone(run[w])'
  <2>1. AsksFirst(run[w]) /\ KeepsAlone(run[w])
    BY DEF MeetingInv
  <2>2. AsksFirst(run[w])'
    <3>1. CASE run[w].pc \in AtPcs
      <4>1. /\ run[w].at \in Meetings /\ run[w].asked \in Shows
            /\ run[w].asked.list <= portal[run[w].at] /\ Below(run[w].asked.folder, folder[run[w].at])
        BY <2>1, <3>1 DEF AsksFirst
      <4>2. run[w].asked.list <= portal'[run[w].at] /\ Below(run[w].asked.folder, folder'[run[w].at])
        BY <4>1, <1>t, <1>3, BelowTrans DEF Shows
      <4> QED
        BY <4>1, <4>2, <2>1, <1>1 DEF AsksFirst
    <3>2. CASE run[w].pc \notin AtPcs
      BY <3>2, <2>1, <1>1 DEF AsksFirst
    <3> QED
      BY <3>1, <3>2
  <2>3. KeepsAlone(run[w])'
    BY <2>1, <1>1, <1>2 DEF KeepsAlone, FoundAnew, MeetingInv, AsksFirst
  <2> QED
    BY <2>2, <2>3
<1> QED
  BY <1>4, <1>5, <1>6, <1>7 DEF MeetingInv

\* The step, action by action.
LEMMA MeetingsKept == MeetingInv /\ [M!Next]_(M!vars) => MeetingInv'
<1> SUFFICES ASSUME MeetingInv, [M!Next]_(M!vars) PROVE MeetingInv'
  OBVIOUS
<1>1. ASSUME NEW w \in Workers, M!Step(w) PROVE MeetingInv'
  BY <1>1, RestKept, WorkKept, StampKept, TakeKept DEF M!Step
<1>2. CASE UNCHANGED M!vars
  BY <1>2 DEF M!vars, M!upstream, M!rows, M!history, MeetingInv, MeetingTypes, StampedShown, Marked,
              M!StampIsEarned, AsksFirst, KeepsAlone, FoundAnew
<1> QED
  BY <1>1, <1>2, EventsKept DEF M!Next

\* The stamp of a meeting, which makes the next syncs skip it, stands for rows at least
\* as new as what the portal, and the subfolders that answered the stamping run, showed
\* when it took the meeting (tdoc_sync_coordinator.py, _sync_for_meeting), wherever it
\* or other runs raised or died, unless runs overlapped on the meeting.
THEOREM MeetingStampsEarned == M!Spec => []M!StampIsEarned
<1>1. MeetingInv => M!StampIsEarned
  BY DEF MeetingInv
<1> QED
  BY MeetingsBegin, MeetingsKept, <1>1, PTL DEF M!Spec

----------------------------------------------------------------------------
(* The services side by side.                                                 *)

\* A behaviour stays with its service and takes the steps of that service.
LEMMA FocusSteps ==
  ASSUME [Next]_vars
  PROVE  /\ focus' = focus
         /\ focus = "extraction" => [E!Next]_(E!vars)
         /\ focus = "spec docs" => [D!Next]_(D!vars)
         /\ focus = "meetings" => [M!Next]_(M!vars)
         /\ focus = "specs" => [S!Next]_(S!vars)
<1>1. CASE UNCHANGED vars
  BY <1>1 DEF vars, inED, inMS, onlyE, onlyD, onlyM, onlyS, E!vars, E!store, D!vars, D!rows,
              M!vars, M!upstream, M!rows, M!history, S!vars, S!rows, S!pools
<1>2. CASE Next
  BY <1>2 DEF Next
<1> QED
  BY <1>1, <1>2

\* ContentIsOneZip of the run Services, for any behaviour of the services.
THEOREM ContentIsOneZipHolds == Spec => []ContentIsOneZip
<1> DEFINE Inv == focus = "extraction" => ExtractionInv
<1>1. Init => Inv
  BY ExtractionBegins DEF Init
<1>2. Inv /\ [Next]_vars => Inv'
  BY ExtractionKept, FocusSteps
<1>3. Inv => ContentIsOneZip
  BY DEF ExtractionInv, ContentIsOneZip
<1> QED
  BY <1>1, <1>2, <1>3, PTL DEF Spec

\* ParsedIsWhole of the run Services, for any behaviour of the services.
THEOREM ParsedIsWholeHolds == Spec => []ParsedIsWhole
<1> DEFINE Inv == focus = "spec docs" => DocsInv
<1>1. Init => Inv
  BY DocsBegin DEF Init
<1>2. Inv /\ [Next]_vars => Inv'
  BY DocsKept, FocusSteps
<1>3. Inv => ParsedIsWhole
  BY DEF DocsInv, ParsedIsWhole
<1> QED
  BY <1>1, <1>2, <1>3, PTL DEF Spec

\* StampIsEarned of the run Services, for any behaviour of the services.
THEOREM StampIsEarnedHolds == Spec => []StampIsEarned
<1> DEFINE Inv == /\ focus = "meetings" => MeetingInv
                  /\ focus = "specs" => SyncInv
<1>1. Init => Inv
  BY MeetingsBegin, SyncsBegin DEF Init
<1>2. Inv /\ [Next]_vars => Inv'
  BY MeetingsKept, SyncsKept, FocusSteps
<1>3. Inv => StampIsEarned
  BY DEF MeetingInv, SyncInv, StampIsEarned
<1> QED
  BY <1>1, <1>2, <1>3, PTL DEF Spec

\* LinksKept of the run Services, for any behaviour of the services.
THEOREM LinksKeptHolds == Spec => LinksKept
<1> DEFINE Inv == focus = "specs" => SyncInv
<1>1. Init => Inv
  BY SyncsBegin DEF Init
<1>2. Inv /\ [Next]_vars => Inv'
  BY SyncsKept, FocusSteps
<1>3. Inv /\ [Next]_vars => [focus = "specs" => ~S!LinkLost]_vars
  BY LinksStep, FocusSteps DEF vars, S!vars
<1> QED
  BY <1>1, <1>2, <1>3, PTL DEF Spec, LinksKept
=============================================================================
