-------------------------- MODULE ModelTurnProofs --------------------------
(***************************************************************************)
(* A turn of the model and the resources it creates, for any bodies the    *)
(* server may send, any creators and any number of creations.              *)
(*                                                                         *)
(* A reply is what its lines say however libcurl cut them: the parser is   *)
(* at every moment what the lines read so far say (Means) with half a line *)
(* in the buffer (Rest), by induction over the pieces of a chunk. What a   *)
(* success was told of stays in its file because whoever is past the test  *)
(* for a resource is alone there or has been noticed (Apart), finds no     *)
(* file when it opens (Opening) and is the one whose number the file bears *)
(* until it is told (Writing). Memory agrees with the files of what nobody *)
(* is writing (Same).                                                      *)
(***************************************************************************)
EXTENDS ModelTurn, OperatorProofs

-----------------------------------------------------------------------------
(* What a fold computes.                                                   *)

LEMMA MaxIs ==
  ASSUME NEW n \in Nat, NEW A \in SUBSET (1 .. n), n \in A
  PROVE  Max(A) = n
<1>1. \A y \in A : n >= y
  OBVIOUS
<1>2. \A x \in A : (\A y \in A : x >= y) => x = n
  <2> SUFFICES ASSUME NEW x \in A, x >= n PROVE x = n
    OBVIOUS
  <2>1. x \in 1 .. n
    OBVIOUS
  <2> QED
    BY <2>1
<1> QED
  BY <1>1, <1>2 DEF Max

\* h is what has been read after each of the pieces.
Reading(h, acc, pieces) ==
  /\ h[0] = acc
  /\ \A n \in 0 .. Len(pieces) - 1 : h[n + 1] = TakePiece(h[n], pieces[n + 1])
  /\ ReadPieces(acc, pieces) = h[Len(pieces)]

\* What FoldLeft unfolds to has a value at every set of positions; the prefixes are those
\* that matter.
LEMMA FeedFolds ==
  ASSUME NEW base, NEW E, NEW s \in Seq(E)
  PROVE  \E h : Reading(h, base, s)
<1> DEFINE Step(iter, A) == IF A = {} THEN base ELSE TakePiece(iter[A \ {Max(A)}], s[Max(A)])
           Fold(iter, n) == iter = [A \in SUBSET (1 .. n) |-> Step(iter, A)]
           T == {n \in Nat : \E iter : Fold(iter, n)}
           it == CHOOSE iter : Fold(iter, Len(s))
           h == [n \in 0 .. Len(s) |-> it[1 .. n]]
<1>1. 0 \in T
  <2> DEFINE g == [A \in SUBSET (1 .. 0) |-> base]
  <2>1. Fold(g, 0)
    OBVIOUS
  <2> QED
    BY <2>1
<1>2. ASSUME NEW n \in Nat, n \in T PROVE n + 1 \in T
  <2>1. PICK g : Fold(g, n)
    BY <1>2
  <2> DEFINE f == [A \in SUBSET (1 .. n + 1) |->
                     IF n + 1 \in A THEN TakePiece(g[A \ {n + 1}], s[n + 1]) ELSE g[A]]
  <2>2. ASSUME NEW A \in SUBSET (1 .. n + 1) PROVE f[A] = Step(f, A)
    <3>1. CASE n + 1 \in A
      <4>1. Max(A) = n + 1 /\ A # {}
        BY <3>1, MaxIs
      <4>2. A \ {n + 1} \in SUBSET (1 .. n + 1) /\ n + 1 \notin A \ {n + 1}
        OBVIOUS
      <4>3. f[A \ {n + 1}] = g[A \ {n + 1}]
        BY <4>2
      <4> QED
        BY <3>1, <4>1, <4>3
    <3>2. CASE n + 1 \notin A
      <4>1. A \in SUBSET (1 .. n) /\ A \ {Max(A)} \in SUBSET (1 .. n)
        <5>1. \A x \in A : x \in 1 .. n
          <6> SUFFICES ASSUME NEW x \in A PROVE x \in 1 .. n
            OBVIOUS
          <6>1. x \in 1 .. n + 1 /\ x # n + 1
            BY <3>2
          <6> QED
            BY <6>1
        <5> QED
          BY <5>1
      <4>2. f[A] = g[A] /\ f[A \ {Max(A)}] = g[A \ {Max(A)}]
        BY <3>2, <4>1
      <4>3. g[A] = Step(g, A)
        BY <2>1, <4>1
      <4> QED
        BY <4>2, <4>3
    <3> QED
      BY <3>1, <3>2
  <2>3. Fold(f, n + 1)
    BY <2>2
  <2> HIDE DEF f, Fold
  <2> QED
    BY <2>3
<1>3. Len(s) \in T
  <2> HIDE DEF T
  <2> QED
    BY <1>1, <1>2, SetInduction
<1>4. Fold(it, Len(s))
  <2>1. \E iter : Fold(iter, Len(s))
    BY <1>3
  <2> HIDE DEF Fold
  <2> QED
    BY <2>1
<1>5. ReadPieces(base, s) = it[1 .. Len(s)]
  <2>1. DOMAIN s = 1 .. Len(s)
    OBVIOUS
  <2> QED
    BY <2>1 DEF ReadPieces, FoldLeft, MapThenFoldSet
<1> HIDE DEF it
<1>6. it[1 .. 0] = base
  BY <1>4
<1>7. ASSUME NEW n \in 0 .. Len(s) - 1 PROVE it[1 .. n + 1] = TakePiece(it[1 .. n], s[n + 1])
  <2> DEFINE A == 1 .. n + 1
  <2>1. A \in SUBSET (1 .. Len(s)) /\ A # {} /\ Max(A) = n + 1 /\ A \ {n + 1} = 1 .. n
    BY MaxIs
  <2> QED
    BY <1>4, <2>1
<1>8. Reading(h, base, s)
  BY <1>5, <1>6, <1>7 DEF Reading
<1> HIDE DEF h
<1> QED
  BY <1>8

-----------------------------------------------------------------------------
(* What the parser has read, line after line.                              *)

\* The provers do not know that "" is a string.
Strings == STRING \union {""}

Tools == [name : Strings, args : Seq(Strings)]
Parsers == [content : Seq(Strings), reasoning : Seq(Strings), tools : Seq(Tools),
            finish : Strings, shown : Seq(Event)]

\* The operators of StreamEqualsWhole for the first n lines of a body.
Lines(b, n, kinds) == {i \in 1 .. n : b[i].k \in kinds}
Named(b, n, idx) == {i \in Lines(b, n, {"tool"}) : b[i].idx = idx /\ b[i].name # ""}
Argued(b, n, idx) == {i \in Lines(b, n, {"tool"}) : b[i].idx = idx /\ b[i].v # ""}
Values(b, n) == [i \in 1 .. n |-> b[i].v]

ToolOf(p, idx) == IF idx <= Len(p.tools) THEN p.tools[idx] ELSE NoTool

ToolMeans(p, b, n, idx) ==
  /\ ToolOf(p, idx).name = IF Named(b, n, idx) = {} THEN "" ELSE b[Max(Named(b, n, idx))].name
  /\ InOrder(ToolOf(p, idx).args, Argued(b, n, idx), Values(b, n))

\* The parser's members say what the lines say.
Means(p, b, n) ==
  /\ p \in Parsers /\ Len(p.tools) <= 2
  /\ InOrder(p.content, Lines(b, n, {"text"}), Values(b, n))
  /\ InOrder(p.reasoning, Lines(b, n, {"think"}), Values(b, n))
  /\ InOrder(p.shown, Lines(b, n, {"text", "think"}), b)
  /\ Lines(b, n, {"finish"}) # {} => p.finish = b[Max(Lines(b, n, {"finish"}))].v
  /\ \A idx \in {1, 2} : ToolMeans(p, b, n, idx)

LEMMA PlaceIn ==
  ASSUME NEW n \in Nat, NEW lines \in SUBSET (1 .. n), NEW i \in lines
  PROVE  Place(i, lines) \in 1 .. Cardinality(lines) /\ Cardinality(lines) \in Nat
<1> DEFINE upto == {j \in lines : j <= i}
<1>1. IsFiniteSet(lines) /\ IsFiniteSet(upto) /\ Cardinality(upto) <= Cardinality(lines)
  <2>1. IsFiniteSet(1 .. n)
    BY FS_Interval
  <2>2. IsFiniteSet(lines)
    BY <2>1, FS_Subset
  <2> QED
    BY <2>2, FS_Subset
<1>2. i \in upto
  OBVIOUS
<1>3. Cardinality(upto) \in Nat /\ Cardinality(lines) \in Nat /\ Cardinality(upto) # 0
  BY <1>1, <1>2, FS_EmptySet, FS_CardinalityType
<1> QED
  BY <1>1, <1>3 DEF Place

\* One more line, at the end.
LEMMA Longer ==
  ASSUME NEW n \in Nat, NEW lines \in SUBSET (1 .. n), NEW says, NEW more,
         NEW T, NEW s \in Seq(T), NEW x \in T,
         InOrder(s, lines, says), \A i \in lines : more[i] = says[i], more[n + 1] = x
  PROVE  InOrder(Append(s, x), lines \union {n + 1}, more)
<1> DEFINE all == lines \union {n + 1}
<1>1. IsFiniteSet(lines) /\ Cardinality(lines) \in Nat /\ Cardinality(all) = Cardinality(lines) + 1
  <2>1. IsFiniteSet(1 .. n)
    BY FS_Interval
  <2>2. IsFiniteSet(lines)
    BY <2>1, FS_Subset
  <2>3. n + 1 \notin lines
    OBVIOUS
  <2> QED
    BY <2>2, <2>3, FS_AddElement, FS_CardinalityType
<1>2. Len(s) = Cardinality(lines)
  BY DEF InOrder
<1>3. Len(Append(s, x)) = Cardinality(all)
  BY <1>1, <1>2
<1>4. ASSUME NEW i \in lines PROVE Append(s, x)[Place(i, all)] = more[i]
  <2>1. {j \in all : j <= i} = {j \in lines : j <= i}
    <3>1. i \in 1 .. n
      OBVIOUS
    <3> QED
      BY <3>1
  <2>2. Place(i, all) = Place(i, lines)
    BY <2>1 DEF Place
  <2>3. s[Place(i, lines)] = says[i] /\ Place(i, lines) \in 1 .. Len(s)
    BY <1>2, PlaceIn DEF InOrder
  <2> QED
    BY <2>2, <2>3
<1>5. Append(s, x)[Place(n + 1, all)] = x
  <2>1. {j \in all : j <= n + 1} = all
    <3>1. \A j \in all : j <= n + 1
      OBVIOUS
    <3> QED
      BY <3>1
  <2>2. Place(n + 1, all) = Len(s) + 1
    BY <1>1, <1>2, <2>1 DEF Place
  <2> QED
    BY <2>2
<1> QED
  BY <1>3, <1>4, <1>5 DEF InOrder

LEMMA Alike ==
  ASSUME NEW lines, NEW s, NEW says, NEW more,
         InOrder(s, lines, says), \A i \in lines : more[i] = says[i]
  PROVE  InOrder(s, lines, more)
BY DEF InOrder

LEMMA FreshMeans ==
  ASSUME NEW b PROVE Means(Fresh, b, 0)
<1>1. 1 .. 0 = {}
  OBVIOUS
<1>2. Cardinality({}) = 0
  BY FS_EmptySet
<1>3. <<>> \in Seq(Strings) /\ <<>> \in Seq(Tools) /\ <<>> \in Seq(Event) /\ Len(<<>>) = 0
  OBVIOUS
<1>4. Fresh \in Parsers
  BY <1>3 DEF Fresh, Parsers, Strings
<1>5. \A idx \in {1, 2} : ToolOf(Fresh, idx) = NoTool
  BY <1>3 DEF Fresh, ToolOf
<1>6. \A kinds : Lines(b, 0, kinds) = {}
  BY <1>1 DEF Lines
<1>7. \A says : InOrder(<<>>, {}, says)
  BY <1>2, <1>3 DEF InOrder
<1>8. ASSUME NEW idx \in {1, 2} PROVE ToolMeans(Fresh, b, 0, idx)
  <2>1. Named(b, 0, idx) = {} /\ Argued(b, 0, idx) = {}
    BY <1>6 DEF Named, Argued
  <2>2. ToolOf(Fresh, idx).name = "" /\ ToolOf(Fresh, idx).args = <<>>
    <3>1. NoTool.name = "" /\ NoTool.args = <<>>
      BY DEF NoTool
    <3> QED
      BY <1>5, <3>1
  <2> QED
    BY <1>7, <2>1, <2>2 DEF ToolMeans
<1>9. Fresh.content = <<>> /\ Fresh.reasoning = <<>> /\ Fresh.shown = <<>> /\ Len(Fresh.tools) <= 2
  BY <1>3 DEF Fresh
<1> QED
  BY <1>4, <1>6, <1>7, <1>8, <1>9 DEF Means

LEMMA AccumulatedFields ==
  \A tool, e : /\ Accumulated(tool, e).name = IF e.name = "" THEN tool.name ELSE e.name
               /\ Accumulated(tool, e).args = IF e.v = "" THEN tool.args ELSE Append(tool.args, e.v)
BY DEF Accumulated

\* A fragment changes the call of its index and no other.
LEMMA FragmentKept ==
  ASSUME NEW p \in Parsers, Len(p.tools) <= 2, NEW e \in Event, e.k = "tool"
  PROVE  /\ ProcessLine(p, e) = [p EXCEPT !.tools = ProcessLine(p, e).tools]
         /\ ProcessLine(p, e).tools \in Seq(Tools) /\ Len(ProcessLine(p, e).tools) <= 2
         /\ \A idx \in {1, 2} :
              ToolOf(ProcessLine(p, e), idx) = IF idx = e.idx THEN Accumulated(ToolOf(p, idx), e) ELSE ToolOf(p, idx)
<1> DEFINE ts == p.tools
           n == IF e.idx > Len(ts) THEN e.idx ELSE Len(ts)
           wide == Sized(ts, e.idx)
           new == WithFragment(ts, e)
<1>1. e.idx \in {1, 2} /\ e.name \in Strings /\ e.v \in Strings
  BY DEF Event, Strings
<1>2. ts \in Seq(Tools) /\ Len(ts) \in Nat
  BY DEF Parsers
<1>3. NoTool \in Tools
  BY DEF NoTool, Tools, Strings
<1>4. ProcessLine(p, e) = [p EXCEPT !.tools = new]
  BY DEF ProcessLine
<1>5. n \in Nat /\ n <= 2 /\ e.idx \in 1 .. n
  BY <1>1, <1>2
<1>6. wide \in [1 .. n -> Tools] /\ \A idx \in 1 .. n : wide[idx] = ToolOf(p, idx)
  BY <1>2, <1>3, <1>5 DEF Sized, ToolOf
<1>7. ASSUME NEW t \in Tools PROVE Accumulated(t, e) \in Tools
  <2>1. t.name \in Strings /\ t.args \in Seq(Strings)
    BY DEF Tools
  <2>2. Append(t.args, e.v) \in Seq(Strings)
    BY <1>1, <2>1
  <2> QED
    BY <1>1, <2>1, <2>2 DEF Accumulated, Tools
<1>8. new = [wide EXCEPT ![e.idx] = Accumulated(@, e)]
  BY DEF WithFragment
<1> HIDE DEF wide, new
<1>9. new \in [1 .. n -> Tools]
  BY <1>5, <1>6, <1>7, <1>8
<1>10. new \in Seq(Tools) /\ Len(new) = n
  <2> HIDE DEF n
  <2> QED
    BY <1>5, <1>9
<1>11. \A idx \in 1 .. n : new[idx] = IF idx = e.idx THEN Accumulated(ToolOf(p, idx), e) ELSE ToolOf(p, idx)
  BY <1>5, <1>6, <1>8
<1>12. ProcessLine(p, e).tools = new
  BY <1>4 DEF Parsers
<1>13. ASSUME NEW idx \in {1, 2}
       PROVE  ToolOf(ProcessLine(p, e), idx) = IF idx = e.idx THEN Accumulated(ToolOf(p, idx), e) ELSE ToolOf(p, idx)
  <2>1. CASE idx <= n
    <3>1. ToolOf(ProcessLine(p, e), idx) = new[idx]
      BY <1>10, <1>12, <2>1 DEF ToolOf
    <3> QED
      BY <1>11, <2>1, <3>1
  <2>2. CASE ~(idx <= n)
    BY <1>1, <1>2, <1>5, <1>10, <1>12, <2>2 DEF ToolOf
  <2> QED
    BY <2>1, <2>2
<1> QED
  BY <1>4, <1>5, <1>10, <1>12, <1>13

LEMMA ReadFields ==
  ASSUME NEW p \in Parsers, Len(p.tools) <= 2, NEW e \in Event
  PROVE  LET q == ProcessLine(p, e) IN
         /\ q \in Parsers /\ Len(q.tools) <= 2
         /\ q.content = IF e.k = "text" THEN Append(p.content, e.v) ELSE p.content
         /\ q.reasoning = IF e.k = "think" THEN Append(p.reasoning, e.v) ELSE p.reasoning
         /\ q.shown = IF e.k \in {"text", "think"} THEN Append(p.shown, e) ELSE p.shown
         /\ q.finish = IF e.k = "finish" THEN e.v ELSE p.finish
         /\ e.k # "tool" => q.tools = p.tools
<1> DEFINE q == ProcessLine(p, e)
<1>1. /\ p.content \in Seq(Strings) /\ p.reasoning \in Seq(Strings) /\ p.tools \in Seq(Tools)
      /\ p.finish \in Strings /\ p.shown \in Seq(Event)
      /\ DOMAIN p = {"content", "reasoning", "tools", "finish", "shown"}
  BY DEF Parsers
<1>2. e.k \in {"skip", "finish", "text", "think", "tool"} /\ e.v \in Strings
  BY DEF Event, Strings
<1>3. CASE e.k = "tool"
  <2>1. q = [p EXCEPT !.tools = q.tools] /\ q.tools \in Seq(Tools) /\ Len(q.tools) <= 2
    BY <1>3, FragmentKept
  <2> HIDE DEF q
  <2>2. /\ q \in Parsers
        /\ q.content = p.content /\ q.reasoning = p.reasoning /\ q.shown = p.shown /\ q.finish = p.finish
    BY <1>1, <2>1 DEF Parsers
  <2> QED
    BY <1>3, <2>1, <2>2 DEF q
<1>4. CASE e.k = "text"
  <2>1. q = [p EXCEPT !.content = Append(@, e.v), !.shown = Append(@, e)]
    BY <1>4 DEF ProcessLine
  <2>2. Append(p.content, e.v) \in Seq(Strings) /\ Append(p.shown, e) \in Seq(Event)
    BY <1>1, <1>2
  <2> QED
    BY <1>1, <1>4, <2>1, <2>2 DEF Parsers
<1>5. CASE e.k = "think"
  <2>1. q = [p EXCEPT !.reasoning = Append(@, e.v), !.shown = Append(@, e)]
    BY <1>5 DEF ProcessLine
  <2>2. Append(p.reasoning, e.v) \in Seq(Strings) /\ Append(p.shown, e) \in Seq(Event)
    BY <1>1, <1>2
  <2> QED
    BY <1>1, <1>5, <2>1, <2>2 DEF Parsers
<1>6. CASE e.k = "finish"
  <2>1. q = [p EXCEPT !.finish = e.v]
    BY <1>6 DEF ProcessLine
  <2> QED
    BY <1>1, <1>2, <1>6, <2>1 DEF Parsers
<1>7. CASE e.k = "skip"
  <2>1. q = p
    BY <1>7 DEF ProcessLine
  <2> QED
    BY <1>7, <2>1
<1> QED
  BY <1>2, <1>3, <1>4, <1>5, <1>6, <1>7

\* Reading a line adds what it says.
LEMMA LineMeans ==
  ASSUME NEW b \in Seq(Event), NEW n \in Nat, n + 1 <= Len(b), NEW p, Means(p, b, n)
  PROVE  Means(ProcessLine(p, b[n + 1]), b, n + 1)
<1> DEFINE e == b[n + 1]
           q == ProcessLine(p, e)
<1>1. e \in Event
  OBVIOUS
<1>2. p \in Parsers /\ Len(p.tools) <= 2
  BY DEF Means
<1>3. /\ p.content \in Seq(Strings) /\ p.reasoning \in Seq(Strings) /\ p.tools \in Seq(Tools)
      /\ p.shown \in Seq(Event)
  BY <1>2 DEF Parsers
<1>4. \A kinds : /\ Lines(b, n, kinds) \in SUBSET (1 .. n)
                 /\ Lines(b, n + 1, kinds) = IF e.k \in kinds THEN Lines(b, n, kinds) \union {n + 1}
                                                              ELSE Lines(b, n, kinds)
  BY DEF Lines
<1>5. \A i \in 1 .. n : Values(b, n + 1)[i] = Values(b, n)[i]
  BY DEF Values
<1>6. Values(b, n + 1)[n + 1] = e.v
  BY DEF Values
<1>7. \A s : \A lines \in SUBSET (1 .. n) : InOrder(s, lines, Values(b, n)) => InOrder(s, lines, Values(b, n + 1))
  BY <1>5, Alike
<1>8. ASSUME NEW lines \in SUBSET (1 .. n), NEW s \in Seq(Strings), InOrder(s, lines, Values(b, n)), e.v \in Strings
      PROVE  InOrder(Append(s, e.v), lines \union {n + 1}, Values(b, n + 1))
  <2>1. \A i \in lines : Values(b, n + 1)[i] = Values(b, n)[i]
    BY <1>5
  <2> HIDE DEF e
  <2> QED
    BY <1>6, <1>8, <2>1, Longer
<1>9. e.v \in Strings
  BY <1>1 DEF Event, Strings
<1> HIDE DEF e
<1>10. /\ q \in Parsers /\ Len(q.tools) <= 2
       /\ q.content = IF e.k = "text" THEN Append(p.content, e.v) ELSE p.content
       /\ q.reasoning = IF e.k = "think" THEN Append(p.reasoning, e.v) ELSE p.reasoning
       /\ q.shown = IF e.k \in {"text", "think"} THEN Append(p.shown, e) ELSE p.shown
       /\ q.finish = IF e.k = "finish" THEN e.v ELSE p.finish
       /\ e.k # "tool" => q.tools = p.tools
  BY <1>1, <1>2, ReadFields
<1>11. e.k = "tool" => \A idx \in {1, 2} :
         ToolOf(q, idx) = IF idx = e.idx THEN Accumulated(ToolOf(p, idx), e) ELSE ToolOf(p, idx)
  BY <1>1, <1>2, FragmentKept
<1> HIDE DEF q
<1>12. InOrder(q.content, Lines(b, n + 1, {"text"}), Values(b, n + 1))
  <2>1. InOrder(p.content, Lines(b, n, {"text"}), Values(b, n))
    BY DEF Means
  <2>2. CASE e.k = "text"
    <3>1. q.content = Append(p.content, e.v) /\ Lines(b, n + 1, {"text"}) = Lines(b, n, {"text"}) \union {n + 1}
      BY <1>4, <1>10, <2>2
    <3>2. Lines(b, n, {"text"}) \in SUBSET (1 .. n)
      BY <1>4
    <3> QED
      BY <1>3, <1>8, <1>9, <2>1, <3>1, <3>2
  <2>3. CASE e.k # "text"
    BY <1>4, <1>7, <1>10, <2>1, <2>3
  <2> QED
    BY <2>2, <2>3
<1>13. InOrder(q.reasoning, Lines(b, n + 1, {"think"}), Values(b, n + 1))
  <2>1. InOrder(p.reasoning, Lines(b, n, {"think"}), Values(b, n))
    BY DEF Means
  <2>2. CASE e.k = "think"
    <3>1. q.reasoning = Append(p.reasoning, e.v) /\ Lines(b, n + 1, {"think"}) = Lines(b, n, {"think"}) \union {n + 1}
      BY <1>4, <1>10, <2>2
    <3>2. Lines(b, n, {"think"}) \in SUBSET (1 .. n)
      BY <1>4
    <3> QED
      BY <1>3, <1>8, <1>9, <2>1, <3>1, <3>2
  <2>3. CASE e.k # "think"
    BY <1>4, <1>7, <1>10, <2>1, <2>3
  <2> QED
    BY <2>2, <2>3
<1>14. InOrder(q.shown, Lines(b, n + 1, {"text", "think"}), b)
  <2>1. InOrder(p.shown, Lines(b, n, {"text", "think"}), b)
    BY DEF Means
  <2>2. InOrder(Append(p.shown, e), Lines(b, n, {"text", "think"}) \union {n + 1}, b)
    BY <1>1, <1>3, <1>4, <2>1, Longer DEF e
  <2> QED
    BY <1>4, <1>10, <2>1, <2>2
<1>15. Lines(b, n + 1, {"finish"}) # {} => q.finish = b[Max(Lines(b, n + 1, {"finish"}))].v
  <2>1. CASE e.k = "finish"
    <3>1. Max(Lines(b, n + 1, {"finish"})) = n + 1
      <4>1. Lines(b, n + 1, {"finish"}) \in SUBSET (1 .. n + 1) /\ n + 1 \in Lines(b, n + 1, {"finish"})
        BY <1>4, <2>1 DEF Lines
      <4> QED
        BY <4>1, MaxIs
    <3> QED
      BY <1>10, <2>1, <3>1 DEF e
  <2>2. CASE e.k # "finish"
    BY <1>4, <1>10, <2>2 DEF Means
  <2> QED
    BY <2>1, <2>2
<1>16. ASSUME NEW idx \in {1, 2} PROVE ToolMeans(q, b, n + 1, idx)
  <2>1. /\ ToolOf(p, idx).name = IF Named(b, n, idx) = {} THEN "" ELSE b[Max(Named(b, n, idx))].name
        /\ InOrder(ToolOf(p, idx).args, Argued(b, n, idx), Values(b, n))
    BY DEF Means, ToolMeans
  <2>2. Named(b, n, idx) \in SUBSET (1 .. n) /\ Argued(b, n, idx) \in SUBSET (1 .. n)
    BY <1>4 DEF Named, Argued
  <2>3. CASE e.k = "tool" /\ e.idx = idx
    <3>1. /\ ToolOf(q, idx).name = IF e.name = "" THEN ToolOf(p, idx).name ELSE e.name
          /\ ToolOf(q, idx).args = IF e.v = "" THEN ToolOf(p, idx).args ELSE Append(ToolOf(p, idx).args, e.v)
      <4>1. ToolOf(q, idx) = Accumulated(ToolOf(p, idx), e)
        BY <1>11, <2>3
      <4> QED
        BY <4>1, AccumulatedFields
    <3>2. /\ Named(b, n + 1, idx) = IF e.name = "" THEN Named(b, n, idx) ELSE Named(b, n, idx) \union {n + 1}
          /\ Argued(b, n + 1, idx) = IF e.v = "" THEN Argued(b, n, idx) ELSE Argued(b, n, idx) \union {n + 1}
      BY <1>4, <2>2, <2>3 DEF Named, Argued, e
    <3>3. ToolOf(q, idx).name = IF Named(b, n + 1, idx) = {} THEN "" ELSE b[Max(Named(b, n + 1, idx))].name
      <4>1. CASE e.name = ""
        BY <2>1, <3>1, <3>2, <4>1
      <4>2. CASE e.name # ""
        <5>1. Named(b, n + 1, idx) \in SUBSET (1 .. n + 1) /\ n + 1 \in Named(b, n + 1, idx)
          <6>1. Named(b, n + 1, idx) = Named(b, n, idx) \union {n + 1}
            BY <3>2, <4>2
          <6>2. \A i \in Named(b, n, idx) : i \in 1 .. n + 1
            BY <2>2
          <6> QED
            BY <6>1, <6>2
        <5>2. Max(Named(b, n + 1, idx)) = n + 1
          BY <5>1, MaxIs
        <5> QED
          BY <3>1, <4>2, <5>1, <5>2 DEF e
      <4> QED
        BY <4>1, <4>2
    <3>4. InOrder(ToolOf(q, idx).args, Argued(b, n + 1, idx), Values(b, n + 1))
      <4>1. CASE e.v = ""
        BY <1>7, <2>1, <2>2, <3>1, <3>2, <4>1
      <4>2. CASE e.v # ""
        <5>1. ToolOf(p, idx).args \in Seq(Strings)
          <6>1. NoTool.args = <<>> /\ <<>> \in Seq(Strings)
            BY DEF NoTool
          <6>2. CASE idx <= Len(p.tools)
            <7>1. p.tools[idx] \in Tools
              BY <1>3, <6>2
            <7> QED
              BY <6>2, <7>1 DEF ToolOf, Tools
          <6> QED
            BY <6>1, <6>2 DEF ToolOf
        <5>2. ToolOf(q, idx).args = Append(ToolOf(p, idx).args, e.v)
          BY <3>1, <4>2
        <5> QED
          BY <1>8, <1>9, <2>1, <2>2, <3>2, <4>2, <5>1, <5>2
      <4> QED
        BY <4>1, <4>2
    <3> QED
      BY <3>3, <3>4 DEF ToolMeans
  <2>4. CASE ~(e.k = "tool" /\ e.idx = idx)
    <3>1. ToolOf(q, idx) = ToolOf(p, idx)
      BY <1>10, <1>11, <2>4 DEF ToolOf
    <3>2. Named(b, n + 1, idx) = Named(b, n, idx) /\ Argued(b, n + 1, idx) = Argued(b, n, idx)
      BY <1>4, <2>2, <2>4 DEF Named, Argued, e
    <3> QED
      BY <1>7, <2>1, <2>2, <3>1, <3>2 DEF ToolMeans
  <2> QED
    BY <2>3, <2>4
<1> QED
  BY <1>10, <1>12, <1>13, <1>14, <1>15, <1>16 DEF Means, q, e

\* What is left in buffer_ after m pieces: the first half of a line, or nothing.
Rest(m) == IF m % 2 = 1 THEN <<<<(m + 1) \div 2, 1>>>> ELSE <<>>

ReadTo(acc, m) == acc = [buf |-> Rest(m), p |-> acc.p] /\ Means(acc.p, body, m \div 2)

LEMMA HalfLines ==
  ASSUME NEW m \in Nat
  PROVE  /\ m % 2 = 0 => (m + 1) % 2 = 1 /\ (m + 1) \div 2 = m \div 2
         /\ m % 2 # 0 => m % 2 = 1 /\ (m + 1) % 2 = 0 /\ (m + 1) \div 2 = m \div 2 + 1 /\ (m + 2) \div 2 = m \div 2 + 1
         /\ m \div 2 \in Nat
         /\ \A k \in Nat : m + 1 <= 2 * k /\ m % 2 = 1 => m \div 2 + 1 <= k
OBVIOUS

\* One piece more.
LEMMA PieceRead ==
  ASSUME body \in Seq(Event), NEW m \in Nat, m + 1 <= 2 * Len(body), NEW acc, ReadTo(acc, m)
  PROVE  ReadTo(TakePiece(acc, Pieces(body)[m + 1]), m + 1)
<1> DEFINE u == <<(m + 2) \div 2, 2 - ((m + 1) % 2)>>
<1>1. Pieces(body)[m + 1] = u
  BY DEF Pieces
<1>2. CASE m % 2 = 0
  <2>1. u[2] = 1 /\ u[1] = (m + 2) \div 2 /\ Rest(m) = <<>> /\ Rest(m + 1) = <<u>>
    BY <1>2, HalfLines DEF Rest
  <2>2. Append(<<>>, u) = <<u>>
    OBVIOUS
  <2>3. TakePiece(acc, u) = [acc EXCEPT !.buf = Append(@, u)]
    BY <2>1 DEF TakePiece
  <2> HIDE DEF u
  <2>4. TakePiece(acc, u) = [buf |-> Rest(m + 1), p |-> acc.p]
    BY <2>1, <2>2, <2>3 DEF ReadTo
  <2> QED
    BY <1>1, <1>2, <2>4, HalfLines DEF ReadTo
<1>3. CASE m % 2 # 0
  <2> DEFINE k == m \div 2 + 1
             line == Append(Rest(m), u)
  <2>1. u[2] = 2 /\ Rest(m) = <<<<k, 1>>>> /\ Rest(m + 1) = <<>>
    <3>1. (m + 1) % 2 = 0 /\ m % 2 = 1 /\ (m + 1) \div 2 = k
      BY <1>3, HalfLines
    <3>2. 2 - 0 = 2 /\ 0 # 1
      OBVIOUS
    <3> QED
      BY <3>1, <3>2 DEF Rest
  <2>2. k \in Nat /\ k <= Len(body) /\ (m + 1) \div 2 = k
    BY <1>3, HalfLines
  <2>3. Len(line) = 2 /\ line[1] = <<k, 1>>
    BY <2>1
  <2>4. Said(line) = body[k]
    BY <2>3 DEF Said
  <2>5. TakePiece(acc, u) = [buf |-> <<>>, p |-> ProcessLine(acc.p, Said(Append(acc.buf, u)))]
    BY <2>1 DEF TakePiece
  <2>6. acc.buf = Rest(m)
    BY DEF ReadTo
  <2> HIDE DEF u, k
  <2>7. TakePiece(acc, u) = [buf |-> <<>>, p |-> ProcessLine(acc.p, body[k])]
    BY <2>4, <2>5, <2>6
  <2>8. Means(ProcessLine(acc.p, body[k]), body, k)
    BY <2>2, LineMeans, HalfLines DEF ReadTo, k
  <2> QED
    BY <1>1, <2>1, <2>2, <2>7, <2>8 DEF ReadTo
<1> QED
  BY <1>2, <1>3

\* However the pieces come, the parser reads the lines and keeps the rest.
LEMMA ChunkRead ==
  ASSUME body \in Seq(Event), pos \in 0 .. 2 * Len(body), NEW q \in pos + 1 .. 2 * Len(body),
         ReadTo([buf |-> buffer, p |-> parser], pos)
  PROVE  ReadTo(ReadPieces([buf |-> buffer, p |-> parser], SubSeq(Pieces(body), pos + 1, q)), q)
<1> DEFINE s == SubSeq(Pieces(body), pos + 1, q)
           base == [buf |-> buffer, p |-> parser]
<1>1. /\ s \in Seq(Nat \X Nat) /\ Len(s) = q - pos
      /\ \A j \in 1 .. q - pos : s[j] = Pieces(body)[pos + j]
  <2>1. \A j \in Nat : (j + 1) \div 2 \in Nat /\ 2 - (j % 2) \in Nat
    OBVIOUS
  <2>2. Pieces(body) \in Seq(Nat \X Nat) /\ Len(Pieces(body)) = 2 * Len(body)
    BY <2>1 DEF Pieces
  <2>3. \A i \in pos + 1 .. q : Pieces(body)[i] \in Nat \X Nat
    <3> SUFFICES ASSUME NEW i \in pos + 1 .. q PROVE Pieces(body)[i] \in Nat \X Nat
      OBVIOUS
    <3>1. i \in 1 .. 2 * Len(body)
      OBVIOUS
    <3> QED
      BY <2>1, <3>1 DEF Pieces
  <2>4. /\ s \in Seq(Nat \X Nat) /\ Len(s) = q - (pos + 1) + 1
        /\ \A j \in 1 .. q - (pos + 1) + 1 : s[j] = Pieces(body)[(pos + 1) + j - 1]
    BY <2>3, SubSeqProperties
  <2> HIDE DEF s
  <2>5. q - (pos + 1) + 1 = q - pos
    OBVIOUS
  <2>6. ASSUME NEW j \in 1 .. q - pos PROVE s[j] = Pieces(body)[pos + j]
    <3>1. (pos + 1) + j - 1 = pos + j
      OBVIOUS
    <3>2. s[j] = Pieces(body)[(pos + 1) + j - 1]
      BY <2>4, <2>5
    <3> QED
      BY <3>1, <3>2
  <2>7. s \in Seq(Nat \X Nat) /\ Len(s) = q - pos
    BY <2>4, <2>5
  <2> QED
    BY <2>6, <2>7
<1> HIDE DEF s
<1>2. PICK h : Reading(h, base, s)
  <2>1. s \in Seq(Nat \X Nat)
    BY <1>1
  <2> HIDE DEF base
  <2> QED
    BY <2>1, FeedFolds
<1> HIDE DEF base
<1> DEFINE T == {j \in Nat : j <= q - pos => ReadTo(h[j], pos + j)}
<1>3. 0 \in T
  BY <1>2 DEF base, Reading
<1>4. ASSUME NEW j \in Nat, j \in T PROVE j + 1 \in T
  <2> SUFFICES ASSUME j + 1 <= q - pos PROVE ReadTo(h[j + 1], pos + (j + 1))
    OBVIOUS
  <2>1. ReadTo(h[j], pos + j)
    BY <1>4
  <2>2. h[j + 1] = TakePiece(h[j], Pieces(body)[(pos + j) + 1])
    <3>1. j \in 0 .. Len(s) - 1 /\ j + 1 \in 1 .. q - pos /\ pos + (j + 1) = (pos + j) + 1
      BY <1>1
    <3> QED
      BY <1>1, <1>2, <3>1 DEF Reading
  <2>3. ReadTo(h[j + 1], (pos + j) + 1)
    BY <2>1, <2>2, PieceRead
  <2> QED
    BY <2>3
<1>5. q - pos \in T
  <2> HIDE DEF T
  <2> QED
    BY <1>3, <1>4, SetInduction
<1>6. ReadTo(h[Len(s)], pos + (q - pos)) /\ pos + (q - pos) = q
  BY <1>1, <1>5
<1>7. ReadPieces(base, s) = h[Len(s)]
  BY <1>2 DEF Reading
<1>8. ReadTo(ReadPieces(base, s), q)
  BY <1>6, <1>7
<1> QED
  BY <1>8 DEF s, base

-----------------------------------------------------------------------------
(* The stream.                                                             *)

StreamInv ==
  /\ phase \in {"idle", "streaming", "done", "failed"}
  /\ body \in Seq(Event) /\ pos \in 0 .. 2 * Len(body)
  /\ ReadTo([buf |-> buffer, p |-> parser], pos)

LEMMA StreamStutter == StreamInv /\ UNCHANGED streamVars => StreamInv'
BY DEF StreamInv, ReadTo, streamVars

\* Nothing has been read.
LEMMA StreamFresh ==
  ASSUME phase' \in {"idle", "streaming", "done", "failed"}, body' \in Seq(Event), pos' = 0,
         buffer' = <<>>, parser' = Fresh
  PROVE  StreamInv'
<1>1. 0 % 2 = 0 /\ 0 \div 2 = 0 /\ Len(body') \in Nat
  OBVIOUS
<1>2. Means(Fresh, body', 0)
  BY FreshMeans
<1> QED
  BY <1>1, <1>2 DEF StreamInv, ReadTo, Rest

LEMMA StreamInitInv == StreamInit => StreamInv
<1> SUFFICES ASSUME StreamInit PROVE StreamInv
  OBVIOUS
<1>1. 0 % 2 = 0 /\ 0 \div 2 = 0 /\ <<>> \in Seq(Event) /\ Len(<<>>) = 0
  OBVIOUS
<1>2. Means(Fresh, body, 0)
  BY FreshMeans
<1> QED
  BY <1>1, <1>2 DEF StreamInit, StreamInv, ReadTo, Rest

LEMMA StreamStepInv ==
  ASSUME StreamInv, Request \/ Chunk \/ Complete \/ Fail \/ Handed
  PROVE  StreamInv'
<1>1. <<>> \in Seq(Event)
  OBVIOUS
<1>2. CASE Request
  <2>1. body' \in Seq(Event)
    BY <1>2, BodiesAssumption DEF Request
  <2> QED
    BY <1>2, <2>1, StreamFresh DEF Request
<1>3. CASE Chunk
  <2>1. PICK q \in pos + 1 .. 2 * Len(body) :
          Feed(SubSeq(Pieces(body), pos + 1, q)) /\ pos' = q
    BY <1>3 DEF Chunk
  <2> DEFINE r == ReadPieces([buf |-> buffer, p |-> parser], SubSeq(Pieces(body), pos + 1, q))
  <2>2. ReadTo(r, q)
    BY ChunkRead DEF StreamInv
  <2>3. buffer' = r.buf /\ parser' = r.p /\ UNCHANGED <<phase, body>>
    BY <1>3, <2>1 DEF Chunk, Feed
  <2> HIDE DEF r
  <2>4. ReadTo([buf |-> buffer, p |-> parser], pos)'
    BY <2>1, <2>2, <2>3 DEF ReadTo
  <2> QED
    BY <2>1, <2>3, <2>4 DEF StreamInv
<1>4. CASE Complete
  BY <1>4 DEF Complete, StreamInv, ReadTo
<1>5. CASE Fail \/ Handed
  BY <1>1, <1>5, StreamFresh DEF Fail, Handed
<1> QED
  BY <1>2, <1>3, <1>4, <1>5

-----------------------------------------------------------------------------
(* The reply.                                                              *)

LEMMA MaxIn ==
  ASSUME NEW n \in Nat, NEW A \in SUBSET (0 .. n), A # {}
  PROVE  Max(A) \in A
<1> DEFINE U == {m \in Nat : \A x \in A : x <= m}
<1>1. n \in U
  OBVIOUS
<1>2. PICK m \in U : \A u \in U : m <= u
  <2>1. U \subseteq Nat /\ U # {}
    BY <1>1
  <2> HIDE DEF U
  <2> QED
    BY <2>1, LeastNat
<1>3. m \in A
  <2> SUFFICES ASSUME m \notin A PROVE FALSE
    OBVIOUS
  <2>1. PICK a \in A : TRUE
    OBVIOUS
  <2>2. \A x \in A : x \in Nat /\ x <= m /\ x # m
    BY <1>2
  <2>3. m - 1 \in Nat /\ \A x \in A : x <= m - 1
    BY <2>1, <2>2
  <2>4. m - 1 \in U
    BY <2>3
  <2> QED
    BY <1>2, <2>3, <2>4
<1>4. \A y \in A : m >= y
  BY <1>2
<1> QED
  BY <1>3, <1>4 DEF Max

LEMMA Count ==
  \A n \in Nat : IsFiniteSet(1 .. n) /\ Cardinality(1 .. n) = n
<1> SUFFICES ASSUME NEW n \in Nat PROVE IsFiniteSet(1 .. n) /\ Cardinality(1 .. n) = n
  OBVIOUS
<1>1. 1 \in Int /\ n \in Int /\ (1 > n => n = 0) /\ n - 1 + 1 = n
  OBVIOUS
<1> QED
  BY <1>1, FS_Interval

\* A number of a set is the one at its place.
LEMMA NthPlace ==
  ASSUME NEW n \in Nat, NEW S \in SUBSET (1 .. n), NEW i \in S
  PROVE  Nth(Place(i, S), S) = i
<1> DEFINE Upto(k) == {j \in S : j <= k}
<1>1. \A k : IsFiniteSet(Upto(k))
  <2>1. IsFiniteSet(1 .. n)
    BY FS_Interval
  <2>2. \A k : Upto(k) \in SUBSET (1 .. n)
    OBVIOUS
  <2> QED
    BY <2>1, <2>2, FS_Subset
<1>2. ASSUME NEW k \in S, NEW m \in S, k < m PROVE Place(k, S) # Place(m, S)
  <2>1. Upto(k) \in SUBSET Upto(m) /\ m \in Upto(m) /\ m \notin Upto(k)
    <3>1. \A j \in S : j \in Nat
      OBVIOUS
    <3>2. k \in Nat /\ m \in Nat /\ k < m
      BY <1>2, <3>1
    <3>3. \A j \in S : j <= k => j <= m
      BY <3>1, <3>2
    <3>4. m <= m /\ ~(m <= k)
      BY <3>2
    <3> QED
      BY <3>3, <3>4
  <2> HIDE DEF Upto
  <2>2. Cardinality(Upto(k)) # Cardinality(Upto(m))
    BY <1>1, <2>1, FS_Subset
  <2> QED
    BY <2>2 DEF Place, Upto
<1>3. \A k, m \in S : Place(k, S) = Place(m, S) => k = m
  <2> SUFFICES ASSUME NEW k \in S, NEW m \in S, k # m PROVE Place(k, S) # Place(m, S)
    OBVIOUS
  <2>1. k < m \/ m < k
    <3>1. k \in Nat /\ m \in Nat
      OBVIOUS
    <3> QED
      BY <3>1
  <2> QED
    BY <1>2, <2>1
<1> QED
  BY <1>3 DEF Nth

\* The calls of the reply are those the lines name.
LEMMA CallsMean ==
  ASSUME StreamInv
  PROVE  LET calls == Finish.calls
             n == pos \div 2
             called == {idx \in {1, 2} : Named(body, n, idx) # {}}
         IN  /\ Len(calls) = Cardinality(called) /\ Len(calls) \in Nat /\ Len(calls) <= 2
             /\ \A idx \in called :
                  /\ Place(idx, called) \in 1 .. Len(calls)
                  /\ calls[Place(idx, called)] = CallOf(ToolOf(parser, idx))
<1> DEFINE n == pos \div 2
           called == {idx \in {1, 2} : Named(body, n, idx) # {}}
           ts == parser.tools
           named == {i \in DOMAIN ts : ts[i].name # ""}
<1>1. Means(parser, body, n) /\ n \in Nat
  BY DEF StreamInv, ReadTo
<1>2. ts \in Seq(Tools) /\ Len(ts) <= 2 /\ Len(ts) \in Nat
  BY <1>1 DEF Means, Parsers
<1>3. \A idx \in {1, 2} : ToolOf(parser, idx).name # "" <=> Named(body, n, idx) # {}
  <2> SUFFICES ASSUME NEW idx \in {1, 2}
               PROVE  ToolOf(parser, idx).name # "" <=> Named(body, n, idx) # {}
    OBVIOUS
  <2>1. ToolOf(parser, idx).name = IF Named(body, n, idx) = {} THEN "" ELSE body[Max(Named(body, n, idx))].name
    BY <1>1 DEF Means, ToolMeans
  <2>2. Named(body, n, idx) # {} => Max(Named(body, n, idx)) \in Named(body, n, idx)
    <3> HIDE DEF n
    <3>1. \A i \in Named(body, n, idx) : i \in 0 .. n
      <4>1. \A i \in 1 .. n : i \in 0 .. n
        BY <1>1
      <4> QED
        BY <4>1 DEF Named, Lines
    <3>2. Named(body, n, idx) \in SUBSET (0 .. n)
      BY <3>1
    <3> QED
      BY <1>1, <3>2, MaxIn
  <2>3. \A i \in Named(body, n, idx) : body[i].name # ""
    BY DEF Named
  <2> QED
    BY <2>1, <2>2, <2>3
<1>4. \A idx \in {1, 2} : ToolOf(parser, idx).name # "" <=> idx \in named
  <2>1. NoTool.name = ""
    BY DEF NoTool
  <2>2. \A idx \in {1, 2} : idx \in DOMAIN ts <=> idx <= Len(ts)
    BY <1>2
  <2> QED
    BY <2>1, <2>2 DEF ToolOf
<1>5. named = called
  <2>1. \A i \in DOMAIN ts : i \in {1, 2}
    BY <1>2
  <2> QED
    BY <1>3, <1>4, <2>1
<1>6. called \in SUBSET (1 .. 2)
  OBVIOUS
<1> HIDE DEF called, n
<1>7. Cardinality(called) \in Nat /\ Cardinality(called) <= 2
  <2>1. IsFiniteSet(1 .. 2) /\ Cardinality(1 .. 2) = 2
    BY Count
  <2>2. IsFiniteSet(called) /\ Cardinality(called) <= 2
    BY <1>6, <2>1, FS_Subset
  <2> QED
    BY <2>2, FS_CardinalityType
<1>8. Finish.calls = [c \in 1 .. Cardinality(called) |-> CallOf(ts[Nth(c, called)])]
  BY <1>5 DEF Finish
<1>9. \A idx \in called : Place(idx, called) \in 1 .. Cardinality(called) /\ Nth(Place(idx, called), called) = idx
  BY <1>6, PlaceIn, NthPlace
<1>10. \A idx \in called : ToolOf(parser, idx) = ts[idx]
  <2>1. \A idx \in called : idx \in {1, 2} /\ idx <= Len(ts)
    <3> SUFFICES ASSUME NEW idx \in called PROVE idx \in {1, 2} /\ idx <= Len(ts)
      OBVIOUS
    <3>1. idx \in DOMAIN ts
      BY <1>5
    <3> QED
      BY <1>2, <3>1
  <2> QED
    BY <2>1 DEF ToolOf
<1> QED
  <2> DEFINE S == {CallOf(ts[Nth(c, called)]) : c \in 1 .. Cardinality(called)}
  <2>1. Finish.calls \in [1 .. Cardinality(called) -> S]
    BY <1>8
  <2> HIDE DEF S
  <2>2. Len(Finish.calls) = Cardinality(called)
    BY <1>7, <2>1
  <2>3. \A idx \in called : Finish.calls[Place(idx, called)] = CallOf(ts[idx])
    BY <1>8, <1>9
  <2> QED
    BY <1>7, <1>9, <1>10, <2>2, <2>3 DEF called, n

-----------------------------------------------------------------------------
(* Resources.                                                              *)

Places == {"generate", "check", "open", "write", "register"}

\* A creation under way: its kind and its number are known.
Working(w) ==
  /\ DOMAIN w = {"pc", "kind", "desc", "body", "n"}
  /\ w.pc \in Places /\ w.kind \in Kinds /\ w.n \in 1 .. creates

ResTypeOK ==
  /\ DOMAIN file = Kinds /\ DOMAIN known = Kinds /\ DOMAIN making = Creators
  /\ \A c \in Creators : making[c] = Idle \/ Working(making[c])
  /\ \A k \in Kinds : file[k] # None => file[k].n \in 0 .. creates
  /\ creates \in Nat /\ raced \subseteq Kinds
  /\ \A s \in told : s \in [kind : Kinds, n : 1 .. creates]

\* Two creators past the test of one resource have been noticed.
At(c, k) == making[c].pc \in {"open", "write", "register"} /\ making[c].kind = k
Apart == \A k \in Kinds \ raced : \A c, d \in Creators : At(c, k) /\ At(d, k) => c = d

\* What the test has seen is still so when the file is opened.
Opening == \A c \in Creators :
  making[c].pc = "open" => making[c].kind \in raced \/ file[making[c].kind] = None

\* The file being written is the creator's own and nobody has been told of it.
Writing == \A c \in Creators : making[c].pc \in {"write", "register"} =>
  LET k == making[c].kind IN
    \/ k \in raced
    \/ file[k] # None /\ file[k].n = making[c].n /\ \A s \in told : s.kind # k

Registering == \A c \in Creators : making[c].pc = "register" =>
  LET w == making[c] IN w.kind \in raced \/ file[w.kind].lines = Written(w.kind, w.desc, w.body)

Unfinished(k) == \E c \in Creators : making[c].pc \in {"write", "register"} /\ making[c].kind = k

Settled(k) ==
  \/ k \in raced \union project
  \/ file[k] # None /\ file[k].n = 0
  \/ known[k] = Discovered(k)
  \/ k = "command" /\ file[k] # None /\ file[k].lines = Written(k, known[k].desc, known[k].body)

Same == \A k \in Kinds \ {"rule"} : Unfinished(k) \/ Settled(k)

ResInv == ResTypeOK /\ Apart /\ Opening /\ Writing /\ Registering /\ CreatedIsKept /\ Same

LEMMA ResStutter == ResInv /\ UNCHANGED resVars => ResInv'
BY DEF ResInv, ResTypeOK, Working, Apart, At, Opening, Writing, Registering, CreatedIsKept, Same,
       Unfinished, Settled, Discovered, resVars

LEMMA ResInitInv == ResInit => ResInv
<1> SUFFICES ASSUME ResInit PROVE ResInv
  OBVIOUS
<1> USE DEF ResInit
<1>1. ResTypeOK
  BY DEF ResTypeOK
<1>2. \A c \in Creators : making[c].pc = "idle"
  BY DEF Idle
<1>3. Apart /\ Opening /\ Writing /\ Registering
  BY <1>2 DEF Apart, At, Opening, Writing, Registering
<1>4. CreatedIsKept
  BY DEF CreatedIsKept
<1>5. Same
  BY DEF Same, Settled, Discovered
<1> QED
  BY <1>1, <1>3, <1>4, <1>5 DEF ResInv

LEMMA WorkInv ==
  ASSUME ResInv, NEW c \in Creators, NEW kind \in Kinds, NEW pc \in {"generate", "check"},
         NEW d, NEW b, Work(c, kind, pc, d, b)
  PROVE  ResInv'
<1> USE DEF ResInv
<1>1. /\ making' = [making EXCEPT ![c] = [pc |-> pc, kind |-> kind, desc |-> d, body |-> b, n |-> creates + 1]]
      /\ creates' = creates + 1
      /\ UNCHANGED <<file, project, known, dead, told, raced>>
  BY DEF Work
<1>2. ResTypeOK'
  BY <1>1 DEF ResTypeOK, Working, Places
<1>3. making'[c].pc = pc /\ \A e \in Creators : e # c => making'[e] = making[e]
  BY <1>1 DEF ResTypeOK
<1>4. making[c].pc = "idle"
  BY DEF Work, Idle
<1>5. Apart' /\ Opening' /\ Writing' /\ Registering'
  BY <1>1, <1>3 DEF Apart, At, Opening, Writing, Registering
<1>6. CreatedIsKept'
  BY <1>1 DEF CreatedIsKept
<1>7. Same'
  BY <1>1, <1>3, <1>4 DEF Same, Unfinished, Settled, Discovered
<1> QED
  BY <1>2, <1>5, <1>6, <1>7

LEMMA GenerateInv ==
  ASSUME ResInv, NEW c \in Creators, Generate(c)
  PROVE  ResInv'
<1> USE DEF ResInv
<1>1. making[c].pc = "generate" /\ UNCHANGED <<file, project, known, creates, dead, told, raced>>
  BY DEF Generate
<1>2. /\ making'[c] = Idle \/ Working(making'[c])
      /\ making'[c].pc \in {"idle", "check"}
      /\ DOMAIN making' = Creators
      /\ \A d \in Creators : d # c => making'[d] = making[d]
  <2>1. Working(making[c])
    BY <1>1 DEF ResTypeOK, Idle
  <2>2. CASE making' = [making EXCEPT ![c] = Idle]
    BY <2>2 DEF ResTypeOK, Idle
  <2>3. ASSUME NEW a, NEW d, making' = [making EXCEPT ![c].pc = "check", ![c].body = a, ![c].desc = d]
        PROVE  /\ Working(making'[c]) /\ making'[c].pc = "check"
               /\ DOMAIN making' = Creators
               /\ \A e \in Creators : e # c => making'[e] = making[e]
    BY <1>1, <2>1, <2>3 DEF ResTypeOK, Working, Places
  <2> QED
    BY <2>2, <2>3 DEF Generate
<1>3. ResTypeOK'
  BY <1>1, <1>2 DEF ResTypeOK, Working
<1>4. Apart' /\ Opening' /\ Writing' /\ Registering'
  BY <1>1, <1>2 DEF Apart, At, Opening, Writing, Registering
<1>5. CreatedIsKept'
  BY <1>1 DEF CreatedIsKept
<1>6. Same'
  BY <1>1, <1>2 DEF Same, Unfinished, Settled, Discovered
<1> QED
  BY <1>3, <1>4, <1>5, <1>6

\* Whoever passes the test is alone past it, or is noticed.
LEMMA CheckInv ==
  ASSUME ResInv, NEW c \in Creators, Check(c)
  PROVE  ResInv'
<1> USE DEF ResInv
<1> DEFINE k == making[c].kind
<1>1. /\ making[c].pc = "check" /\ UNCHANGED <<file, project, known, creates, dead, told>>
      /\ raced' = IF Rivals(c) # {} THEN raced \union {k} ELSE raced
  BY DEF Check
<1>2. Working(making[c]) /\ k \in Kinds
  BY <1>1 DEF ResTypeOK, Working, Idle
<1>3. /\ \/ making'[c] = Idle
         \/ /\ file[k] = None /\ Working(making'[c])
            /\ making'[c].pc = "open" /\ making'[c].kind = k
      /\ DOMAIN making' = Creators
      /\ \A d \in Creators : d # c => making'[d] = making[d]
  BY <1>1, <1>2 DEF Check, Proceed, Exists, ResTypeOK, Working, Places
<1>4. Idle.pc = "idle"
  BY DEF Idle
<1>5. ResTypeOK'
  BY <1>1, <1>2, <1>3 DEF ResTypeOK, Working
<1>6. k \notin raced' => \A d \in Creators \ {c} : ~At(d, k)
  BY <1>1 DEF Rivals, At
<1>7. raced \subseteq raced'
  BY <1>1
<1>8. Apart'
  <2> SUFFICES ASSUME NEW j \in Kinds \ raced', NEW d \in Creators, NEW e \in Creators, At(d, j)', At(e, j)'
               PROVE  d = e
    BY DEF Apart
  <2>1. CASE d # c /\ e # c
    BY <2>1, <1>3, <1>7 DEF Apart, At
  <2>2. CASE d = c \/ e = c
    BY <2>2, <1>3, <1>4, <1>6 DEF At
  <2> QED
    BY <2>1, <2>2
<1>9. Opening'
  BY <1>1, <1>3, <1>4, <1>7 DEF Opening
<1>10. Writing' /\ Registering'
  BY <1>1, <1>3, <1>4, <1>7 DEF Writing, Registering
<1>11. CreatedIsKept'
  BY <1>1, <1>7 DEF CreatedIsKept
<1>12. Same'
  <2> SUFFICES ASSUME NEW j \in Kinds \ {"rule"}, ~Unfinished(j)' PROVE Settled(j)'
    BY DEF Same
  <2>1. ~Unfinished(j)
    BY <1>1, <1>3 DEF Unfinished
  <2> QED
    BY <1>1, <1>7, <2>1 DEF Same, Settled, Discovered
<1> QED
  BY <1>5, <1>8, <1>9, <1>10, <1>11, <1>12

\* Nobody has been told of a resource that had no file.
LEMMA OpenInv ==
  ASSUME ResInv, NEW c \in Creators, Open(c)
  PROVE  ResInv'
<1> USE DEF ResInv
<1> DEFINE k == making[c].kind
<1>1. making[c].pc = "open" /\ UNCHANGED <<project, known, creates, dead, told, raced>>
  BY DEF Open
<1>2. Working(making[c]) /\ k \in Kinds /\ making[c].n \in 1 .. creates
  BY <1>1 DEF ResTypeOK, Working, Idle
<1>3. Idle.pc = "idle"
  BY DEF Idle
<1>4. CASE making' = [making EXCEPT ![c] = Idle] /\ UNCHANGED file
  <2>1. making'[c] = Idle /\ DOMAIN making' = Creators /\ \A d \in Creators : d # c => making'[d] = making[d]
    BY <1>4 DEF ResTypeOK
  <2>2. ResTypeOK'
    BY <1>1, <1>4, <2>1 DEF ResTypeOK, Working
  <2>3. Apart' /\ Opening' /\ Writing' /\ Registering'
    BY <1>1, <1>3, <1>4, <2>1 DEF Apart, At, Opening, Writing, Registering
  <2>4. CreatedIsKept'
    BY <1>1, <1>4 DEF CreatedIsKept
  <2>5. Same'
    BY <1>1, <1>4, <2>1 DEF Same, Unfinished, Settled, Discovered
  <2> QED
    BY <2>2, <2>3, <2>4, <2>5
<1>5. CASE /\ file' = [file EXCEPT ![k] = [lines |-> <<>>, n |-> making[c].n]]
           /\ Proceed(c, "write")
  <2>1. /\ Working(making'[c]) /\ making'[c].pc = "write"
        /\ making'[c].kind = k /\ making'[c].n = making[c].n
        /\ DOMAIN making' = Creators
        /\ \A d \in Creators : d # c => making'[d] = making[d]
    BY <1>1, <1>2, <1>5 DEF Proceed, ResTypeOK, Working, Places
  <2>2. /\ file'[k] # None /\ file'[k].n = making[c].n
        /\ DOMAIN file' = Kinds
        /\ \A j \in Kinds : j # k => file'[j] = file[j]
    BY <1>2, <1>5 DEF ResTypeOK, None
  <2>3. ResTypeOK'
    BY <1>1, <1>2, <2>1, <2>2 DEF ResTypeOK, Working
  <2>4. Apart'
    BY <1>1, <2>1 DEF Apart, At
  <2>5. k \in raced \/ \A d \in Creators \ {c} : ~At(d, k)
    BY <1>1, <1>2 DEF Apart, At
  <2>6. k \in raced \/ \A s \in told : s.kind # k
    BY <1>1, <1>2 DEF Opening, CreatedIsKept, ResTypeOK
  <2>7. Opening'
    BY <1>1, <2>1, <2>2, <2>5 DEF Opening, At, ResTypeOK, Working, Idle
  <2>8. Writing'
    BY <1>1, <2>1, <2>2, <2>5, <2>6 DEF Writing, At, ResTypeOK, Working, Idle
  <2>9. Registering'
    BY <1>1, <2>1, <2>2, <2>5 DEF Registering, At, ResTypeOK, Working, Idle
  <2>10. CreatedIsKept'
    BY <1>1, <2>2, <2>6 DEF CreatedIsKept, ResTypeOK
  <2>11. Same'
    <3> SUFFICES ASSUME NEW j \in Kinds \ {"rule"}, ~Unfinished(j)' PROVE Settled(j)'
      BY DEF Same
    <3>1. j # k
      BY <2>1 DEF Unfinished
    <3>2. ~Unfinished(j)
      BY <1>1, <2>1 DEF Unfinished
    <3> QED
      BY <1>1, <2>2, <3>1, <3>2 DEF Same, Settled, Discovered
  <2> QED
    BY <2>3, <2>4, <2>7, <2>8, <2>9, <2>10, <2>11
<1> QED
  BY <1>1, <1>4, <1>5 DEF Open

\* What is written is the creator's own, whole or marked as cut short.
LEMMA WriteInv ==
  ASSUME ResInv, NEW c \in Creators, Write(c)
  PROVE  ResInv'
<1> USE DEF ResInv
<1> DEFINE w == making[c]
           k == w.kind
           all == Written(w.kind, w.desc, w.body)
<1>1. w.pc = "write" /\ UNCHANGED <<project, known, creates, dead, told, raced>>
  BY DEF Write
<1>2. Working(w) /\ k \in Kinds /\ w.n \in 1 .. creates
  BY <1>1 DEF ResTypeOK, Working, Idle
<1>3. Idle.pc = "idle"
  BY DEF Idle
<1> DEFINE lines == file'[k].lines
<1>4. PICK n \in 0 .. creates :
        /\ file' = [file EXCEPT ![k] = [lines |-> lines, n |-> n]]
        /\ \/ lines = all /\ n = w.n /\ Proceed(c, "register")
           \/ n = 0 /\ making' = [making EXCEPT ![c] = Idle]
  <2>1. CASE file' = [file EXCEPT ![k] = [lines |-> all, n |-> w.n]] /\ Proceed(c, "register")
    <3>1. w.n \in 0 .. creates
      BY <1>2 DEF ResTypeOK
    <3>2. file' = [file EXCEPT ![k] = [lines |-> lines, n |-> w.n]] /\ lines = all
      BY <1>2, <2>1 DEF ResTypeOK
    <3> QED
      BY <2>1, <3>1, <3>2
  <2>2. CASE /\ file' = [file EXCEPT ![k] = [lines |-> SubSeq(all, 1, Fits), n |-> 0]]
             /\ making' = [making EXCEPT ![c] = Idle]
    <3>1. 0 \in 0 .. creates
      BY DEF ResTypeOK
    <3> QED
      BY <1>2, <2>2, <3>1 DEF ResTypeOK
  <2> QED
    BY <2>1, <2>2 DEF Write
<1>5. /\ file'[k] # None /\ file'[k].n = n /\ file'[k].lines = lines
      /\ DOMAIN file' = Kinds
      /\ \A j \in Kinds : j # k => file'[j] = file[j]
  BY <1>2, <1>4 DEF ResTypeOK, None
<1>6. k \in raced \/ \A d \in Creators \ {c} : ~At(d, k)
  BY <1>1, <1>2 DEF Apart, At
<1>7. \A d \in Creators \ {c} : making[d].pc \in {"open", "write", "register"} =>
         making[d].kind \in Kinds /\ (making[d].kind = k => k \in raced)
  BY <1>3, <1>6 DEF At, ResTypeOK, Working
<1>8. k \in raced \/ \A s \in told : s.kind # k
  BY <1>1, <1>2 DEF Writing
<1>9. CreatedIsKept'
  BY <1>1, <1>5, <1>8 DEF CreatedIsKept, ResTypeOK
<1>10. DOMAIN making' = Creators /\ \A d \in Creators : d # c => making'[d] = making[d]
  BY <1>4 DEF Proceed, ResTypeOK
<1>11. \A j \in Kinds \ {"rule", k} : Unfinished(j) \/ Settled(j)'
  BY <1>1, <1>5 DEF Same, Settled, Discovered
<1>12. CASE lines = all /\ n = w.n /\ Proceed(c, "register")
  <2>1. /\ Working(making'[c]) /\ making'[c].pc = "register" /\ making'[c].n = w.n
        /\ making'[c].kind = k /\ making'[c].desc = w.desc /\ making'[c].body = w.body
    BY <1>1, <1>2, <1>12 DEF Proceed, ResTypeOK, Working, Places
  <2>2. ResTypeOK'
    BY <1>1, <1>2, <1>5, <1>10, <2>1 DEF ResTypeOK, Working
  <2>3. Apart'
    BY <1>1, <1>10, <2>1 DEF Apart, At
  <2>4. Opening'
    BY <1>1, <1>5, <1>7, <1>10, <2>1 DEF Opening
  <2>5. Writing'
    <3> SUFFICES ASSUME NEW d \in Creators, making'[d].pc \in {"write", "register"}
                 PROVE  LET j == making'[d].kind IN
                          \/ j \in raced
                          \/ file'[j] # None /\ file'[j].n = making'[d].n /\ \A s \in told : s.kind # j
      BY <1>1 DEF Writing
    <3>1. CASE d = c
      BY <1>5, <1>8, <1>12, <2>1, <3>1
    <3>2. CASE d # c
      BY <1>5, <1>10, <1>7, <3>2 DEF Writing
    <3> QED
      BY <3>1, <3>2
  <2>6. Registering'
    <3> SUFFICES ASSUME NEW d \in Creators, making'[d].pc = "register"
                 PROVE  LET v == making'[d] IN
                          v.kind \in raced \/ file'[v.kind].lines = Written(v.kind, v.desc, v.body)
      BY <1>1 DEF Registering
    <3>1. CASE d = c
      BY <1>5, <1>12, <2>1, <3>1
    <3>2. CASE d # c
      BY <1>5, <1>10, <1>7, <3>2 DEF Registering
    <3> QED
      BY <3>1, <3>2
  <2>7. Same'
    <3> SUFFICES ASSUME NEW j \in Kinds \ {"rule"}, ~Unfinished(j)' PROVE Settled(j)'
      BY DEF Same
    <3>1. j # k
      BY <2>1 DEF Unfinished
    <3>2. ~Unfinished(j)
      BY <1>1, <1>10, <3>1 DEF Unfinished
    <3> QED
      BY <1>11, <3>1, <3>2
  <2> QED
    BY <1>9, <2>2, <2>3, <2>4, <2>5, <2>6, <2>7
<1>13. CASE n = 0 /\ making' = [making EXCEPT ![c] = Idle]
  <2>1. making'[c] = Idle
    BY <1>13 DEF ResTypeOK
  <2>2. ResTypeOK'
    BY <1>1, <1>2, <1>5, <1>10, <2>1 DEF ResTypeOK, Working
  <2>3. Apart'
    BY <1>1, <1>3, <1>10, <2>1 DEF Apart, At
  <2>4. Opening'
    BY <1>1, <1>3, <1>5, <1>7, <1>10, <2>1 DEF Opening
  <2>5. Writing'
    BY <1>1, <1>3, <1>5, <1>6, <1>10, <2>1 DEF Writing, At, ResTypeOK, Working
  <2>6. Registering'
    BY <1>1, <1>3, <1>5, <1>6, <1>10, <2>1 DEF Registering, At, ResTypeOK, Working
  <2>7. Same'
    <3> SUFFICES ASSUME NEW j \in Kinds \ {"rule"}, ~Unfinished(j)' PROVE Settled(j)'
      BY DEF Same
    <3>1. CASE j = k
      BY <3>1, <1>5, <1>13 DEF Settled
    <3>2. CASE j # k
      <4>1. ~Unfinished(j)
        BY <1>1, <1>10, <3>2 DEF Unfinished
      <4> QED
        BY <1>11, <3>2, <4>1
    <3> QED
      BY <3>1, <3>2
  <2> QED
    BY <1>9, <2>2, <2>3, <2>4, <2>5, <2>6, <2>7
<1> QED
  BY <1>4, <1>12, <1>13

\* What is told of is in the file, and memory holds what the file says.
LEMMA RegisterInv ==
  ASSUME ResInv, NEW c \in Creators, Register(c)
  PROVE  ResInv'
<1> USE DEF ResInv
<1> DEFINE w == making[c]
           k == w.kind
<1>1. w.pc = "register" /\ UNCHANGED <<file, project, creates, raced>>
  BY DEF Register
<1>2. Working(w) /\ k \in Kinds /\ w.n \in 1 .. creates
  BY <1>1 DEF ResTypeOK, Working, Idle
<1>3. Idle.pc = "idle"
  BY DEF Idle
<1>4. CASE Succeed(c)
  <2>1. /\ making'[c] = Idle /\ DOMAIN making' = Creators
        /\ \A d \in Creators : d # c => making'[d] = making[d]
        /\ told' = told \union {[kind |-> k, n |-> w.n]}
    BY <1>4 DEF Succeed, ResTypeOK
  <2>2. /\ DOMAIN known' = Kinds
        /\ \A j \in Kinds : j # k => known'[j] = known[j]
        /\ \/ k = "rule"
           \/ k \in {"skill", "agent"} /\ known'[k] = Parsed(k, file[k].lines)
           \/ k = "command" /\ known'[k] = AsGiven(w)
    BY <1>2, <1>1 DEF Register, AddSkill, AddAgent, InjectCommand, AppendRule, Succeed, ResTypeOK
  <2>3. ResTypeOK'
    BY <1>1, <1>2, <2>1, <2>2 DEF ResTypeOK, Working
  <2>4. Apart' /\ Opening' /\ Registering'
    BY <1>1, <1>3, <2>1 DEF Apart, At, Opening, Registering
  <2>5. k \in raced \/ \A d \in Creators \ {c} : ~At(d, k)
    BY <1>1, <1>2 DEF Apart, At
  <2>6. Writing'
    <3> SUFFICES ASSUME NEW d \in Creators, making'[d].pc \in {"write", "register"}
                 PROVE  \/ making'[d].kind \in raced
                        \/ /\ file[making'[d].kind] # None /\ file[making'[d].kind].n = making'[d].n
                           /\ \A s \in told' : s.kind # making'[d].kind
      BY <1>1 DEF Writing
    <3>1. d # c /\ making'[d] = making[d]
      BY <1>3, <2>1
    <3>2. making[d].kind # k \/ k \in raced
      BY <2>5, <3>1 DEF At
    <3> QED
      BY <2>1, <3>1, <3>2 DEF Writing
  <2>7. CreatedIsKept'
    BY <1>1, <1>2, <2>1 DEF CreatedIsKept, Writing
  <2>8. Same'
    <3> SUFFICES ASSUME NEW j \in Kinds \ {"rule"}, ~Unfinished(j)' PROVE Settled(j)'
      BY DEF Same
    <3>1. CASE j # k
      <4>1. ~Unfinished(j)
        BY <2>1, <3>1 DEF Unfinished
      <4> QED
        BY <1>1, <2>2, <3>1, <4>1 DEF Same, Settled, Discovered
    <3>2. CASE j = k /\ k \notin raced \union project
      <4>1. file[k] # None /\ file[k].lines = Written(k, w.desc, w.body)
        BY <1>1, <1>2, <3>2 DEF Writing, Registering
      <4>2. CASE k \in {"skill", "agent"}
        BY <1>1, <2>2, <3>2, <4>1, <4>2 DEF Settled, Discovered
      <4>3. CASE k = "command"
        <5>1. known'[k].desc = w.desc /\ known'[k].body = w.body
          BY <2>2, <4>3 DEF AsGiven
        <5> QED
          BY <1>1, <3>2, <4>1, <4>3, <5>1 DEF Settled
      <4> QED
        BY <2>2, <3>2, <4>2, <4>3
    <3>3. CASE j = k /\ k \in raced \union project
      BY <1>1, <3>3 DEF Settled
    <3> QED
      BY <3>1, <3>2, <3>3
  <2> QED
    BY <2>3, <2>4, <2>6, <2>7, <2>8
<1>5. CASE UNCHANGED <<known, making, told>>
  BY <1>1, <1>5 DEF ResTypeOK, Working, Apart, At, Opening, Writing, Registering, CreatedIsKept, Same,
                    Unfinished, Settled, Discovered
<1> QED
  BY <1>4, <1>5 DEF Register, AddSkill, AddAgent, InjectCommand, AppendRule

LEMMA ReloadInv ==
  ASSUME ResInv, ReloadSkills
  PROVE  ResInv'
<1> USE DEF ResInv, ReloadSkills
<1>1. ResTypeOK' /\ Apart' /\ Opening' /\ Writing' /\ Registering' /\ CreatedIsKept'
  BY DEF ResTypeOK, Working, Apart, At, Opening, Writing, Registering, CreatedIsKept
<1>2. /\ known'["skill"] = Discovered("skill")'
      /\ \A k \in Kinds \ {"skill"} : known'[k] = known[k]
  BY DEF ResTypeOK, Discovered, Kinds
<1>3. Same'
  BY <1>2 DEF Same, Unfinished, Settled, Discovered
<1> QED
  BY <1>1, <1>3

\* Nothing is under way after a start, and memory is what the files say.
LEMMA RestartInv ==
  ASSUME ResInv, Restart
  PROVE  ResInv'
<1> USE DEF ResInv, Restart
<1>1. \A c \in Creators : making'[c] = Idle /\ making'[c].pc = "idle"
  BY DEF Idle
<1>2. ResTypeOK'
  BY <1>1 DEF ResTypeOK
<1>3. Apart' /\ Opening' /\ Writing' /\ Registering' /\ CreatedIsKept'
  BY <1>1 DEF Apart, At, Opening, Writing, Registering, CreatedIsKept
<1>4. \A k \in Kinds : known'[k] = Discovered(k)'
  BY DEF Discovered
<1>5. Same'
  BY <1>4 DEF Same, Settled
<1> QED
  BY <1>2, <1>3, <1>5

LEMMA SameEnough == ResInv => SameAfterRestart
<1> SUFFICES ASSUME ResInv, \A c \in Creators : making[c] = Idle, NEW k \in Kinds \ {"rule"}
             PROVE  Settled(k)
  BY DEF SameAfterRestart, Settled
<1> QED
  BY DEF ResInv, Same, Unfinished, Idle

-----------------------------------------------------------------------------
(* The turn.                                                               *)

TurnInv ==
  /\ \E m \in 0 .. 2 : asked \in [1 .. m -> Kinds]
  /\ ~NoTurn => making["job"] = Idle
  /\ phase # "idle" => asked = <<>> /\ making["turn"] = Idle

IInv == StreamInv /\ ResInv /\ TurnInv

LEMMA Names == /\ {"ui", "job", "turn"} \subseteq Creators /\ SubAgents \subseteq Creators
               /\ <<>> \in [1 .. 0 -> Kinds]
<1>1. 1 .. 0 = {} /\ DOMAIN <<>> = {}
  OBVIOUS
<1> QED
  BY <1>1, CreatorsAssumption, TurnAssumption DEF SubAgents

LEMMA InitInv == Init => IInv
<1> SUFFICES ASSUME Init PROVE IInv
  OBVIOUS
<1>1. StreamInv /\ ResInv
  BY StreamInitInv, ResInitInv DEF Init
<1>2. TurnInv
  BY Names DEF Init, StreamInit, ResInit, TurnInv, NoTurn
<1> QED
  BY <1>1, <1>2 DEF IInv

\* A call of a tool is a creation begun.
LEMMA ToolWork ==
  ASSUME NEW c \in Creators, NEW kind \in Kinds, ToolCall(c, kind)
  PROVE  \E pc \in {"generate", "check"} : \E d, b : Work(c, kind, pc, d, b)
BY DEF ToolCall, SkillTool, CommandTool, AgentTool, RuleTool, WithBody, Kinds

LEMMA WorkKeeps ==
  ASSUME ResInv, NEW c \in Creators, NEW kind \in Kinds, NEW pc \in {"generate", "check"},
         NEW d, NEW b, Work(c, kind, pc, d, b)
  PROVE  making[c] = Idle /\ \A e \in Creators : e # c => making'[e] = making[e]
BY DEF Work, ResInv, ResTypeOK

\* A step of a creation is of one under way and touches no other.
LEMMA CreateKeeps ==
  ASSUME ResInv, NEW c \in Creators, Generate(c) \/ Check(c) \/ Open(c) \/ Write(c) \/ Register(c)
  PROVE  ResInv' /\ making[c] # Idle /\ \A e \in Creators : e # c => making'[e] = making[e]
<1>1. ResInv'
  BY GenerateInv, CheckInv, OpenInv, WriteInv, RegisterInv
<1>2. making[c] # Idle
  <2>1. Idle.pc = "idle"
    BY DEF Idle
  <2>2. making[c].pc # "idle"
    BY DEF Generate, Check, Open, Write, Register
  <2> QED
    BY <2>1, <2>2
<1>3. DOMAIN making = Creators
  BY DEF ResInv, ResTypeOK
<1>4. \A e \in Creators : e # c => making'[e] = making[e]
  <2>1. CASE Generate(c)
    BY <1>3, <2>1 DEF Generate
  <2>2. CASE Check(c)
    BY <1>3, <2>2 DEF Check, Proceed
  <2>3. CASE Open(c)
    BY <1>3, <2>3 DEF Open, Proceed
  <2>4. CASE Write(c)
    BY <1>3, <2>4 DEF Write, Proceed
  <2>5. CASE Register(c)
    BY <1>3, <2>5 DEF Register, AddSkill, AddAgent, InjectCommand, AppendRule, Succeed
  <2> QED
    BY <2>1, <2>2, <2>3, <2>4, <2>5
<1> QED
  BY <1>1, <1>2, <1>4

\* The calls handed to the executor are of known kinds, and no more than the reply's.
LEMMA CallsAsked ==
  ASSUME StreamInv, StartCalls
  PROVE  \E m \in 0 .. 2 : asked' \in [1 .. m -> Kinds]
<1> DEFINE calls == Finish.calls
           good == {n \in 0 .. Len(calls) : \A i \in 1 .. n : calls[i].name \in DOMAIN KindOf /\ calls[i].args # <<>>}
<1>1. CASE phase = "failed"
  BY <1>1, Names DEF StartCalls
<1>2. CASE phase # "failed"
  <2>1. asked' = [i \in 1 .. Max(good) |-> KindOf[calls[i].name]]
    BY <1>2 DEF StartCalls
  <2>2. Len(calls) \in Nat /\ Len(calls) <= 2
    BY CallsMean
  <2>3. 0 \in good /\ good \in SUBSET (0 .. Len(calls))
    BY <2>2
  <2>4. Max(good) \in good
    <3> HIDE DEF good, calls
    <3> QED
      BY <2>2, <2>3, MaxIn
  <2>5. Max(good) \in 0 .. 2 /\ \A i \in 1 .. Max(good) : calls[i].name \in DOMAIN KindOf
    <3>1. Max(good) \in 0 .. Len(calls)
      BY <2>4
    <3> HIDE DEF calls
    <3> QED
      BY <2>2, <2>4, <3>1
  <2>6. \A name \in DOMAIN KindOf : KindOf[name] \in Kinds
    BY DEF KindOf, Kinds
  <2> HIDE DEF good, calls
  <2>7. asked' \in [1 .. Max(good) -> Kinds]
    BY <2>1, <2>5, <2>6
  <2> QED
    BY <2>5, <2>7
<1> QED
  BY <1>1, <1>2

LEMMA NextInv == IInv /\ [Next]_vars => IInv'
<1> SUFFICES ASSUME IInv, [Next]_vars PROVE IInv'
  OBVIOUS
<1>1. StreamInv /\ ResInv /\ TurnInv
  BY DEF IInv
<1>2. CASE Stream
  <2>1. StreamInv'
    BY <1>1, <1>2, StreamStepInv DEF Stream
  <2>2. ResInv' /\ UNCHANGED <<asked, making>>
    BY <1>1, <1>2, ResStutter DEF Stream, resVars
  <2>3. phase' # "idle" /\ asked = <<>> /\ making["turn"] = Idle /\ making["job"] = Idle
    BY <1>1, <1>2 DEF Stream, Request, Chunk, Complete, Fail, WorkerFree, NoTurn, TurnInv
  <2> QED
    BY <1>1, <2>1, <2>2, <2>3 DEF IInv, TurnInv
<1>3. CASE StartCalls
  <2>1. StreamInv' /\ ResInv' /\ phase' = "idle" /\ UNCHANGED making
    BY <1>1, <1>3, StreamStepInv, ResStutter DEF StartCalls, Handed, resVars
  <2>2. making["job"] = Idle
    BY <1>1, <1>3 DEF StartCalls, Handed, TurnInv, NoTurn
  <2> QED
    BY <1>1, <1>3, <2>1, <2>2, CallsAsked DEF IInv, TurnInv
<1>4. CASE RunCall
  <2>1. PICK m \in 0 .. 2 : asked \in [1 .. m -> Kinds]
    BY <1>1 DEF TurnInv
  <2>2. asked \in Seq(Kinds) /\ Len(asked) = m /\ asked # <<>>
    BY <1>4, <2>1 DEF RunCall
  <2>3. m - 1 \in 0 .. 2 /\ Head(asked) \in Kinds /\ asked' \in [1 .. m - 1 -> Kinds]
    <3>1. asked' = Tail(asked)
      BY <1>4 DEF RunCall
    <3>2. Tail(asked) \in Seq(Kinds) /\ Len(Tail(asked)) = m - 1
      BY <2>2, HeadTailProperties
    <3> QED
      <4>1. m # 0
        BY <2>2
      <4>2. Head(asked) \in Kinds
        BY <2>2
      <4>3. Tail(asked) \in [1 .. m - 1 -> Kinds]
        <5> DEFINE rest == Tail(asked)
        <5> HIDE DEF rest
        <5>1. rest \in Seq(Kinds) /\ Len(rest) = m - 1
          BY <3>2 DEF rest
        <5>2. rest \in [1 .. m - 1 -> Kinds]
          BY <5>1
        <5> QED
          BY <5>2 DEF rest
      <4> QED
        BY <3>1, <4>1, <4>2, <4>3
  <2>4. "turn" \in Creators
    BY Names
  <2>5. PICK pc \in {"generate", "check"} : \E d, b : Work("turn", Head(asked), pc, d, b)
    BY <1>4, <2>3, <2>4, ToolWork DEF RunCall
  <2>6. ResInv' /\ making'["job"] = making["job"]
    BY <1>1, <2>3, <2>4, <2>5, WorkInv, WorkKeeps, Names
  <2>7. StreamInv' /\ phase' = phase
    BY <1>1, <1>4, StreamStutter DEF RunCall, streamVars
  <2>8. phase = "idle" /\ making["job"] = Idle
    BY <1>1, <2>2 DEF TurnInv, NoTurn
  <2> QED
    BY <2>3, <2>6, <2>7, <2>8 DEF IInv, TurnInv
<1>5. CASE UserCreates
  <2>1. StreamInv' /\ phase' = phase /\ asked' = asked
    BY <1>1, <1>5, StreamStutter DEF UserCreates, streamVars
  <2>2. PICK c \in {"ui", "job"}, kind \in Kinds, pc \in {"generate", "check"} :
          /\ \E d, b : Work(c, kind, pc, d, b)
          /\ c = "job" => NoTurn
    BY <1>5 DEF UserCreates, FastPath, SlowPath, WorkerFree
  <2>3. ResInv' /\ \A e \in Creators : e # c => making'[e] = making[e]
    BY <1>1, <2>2, WorkInv, WorkKeeps, Names
  <2>4. TurnInv'
    BY <1>1, <2>1, <2>2, <2>3, Names DEF TurnInv, NoTurn
  <2> QED
    BY <2>1, <2>3, <2>4 DEF IInv
<1>6. CASE Reload
  <2>1. StreamInv' /\ ResInv' /\ UNCHANGED <<phase, asked, making>>
    BY <1>1, <1>6, StreamStutter, ReloadInv DEF Reload, ReloadSkills, streamVars
  <2> QED
    BY <1>1, <2>1 DEF IInv, TurnInv, NoTurn
<1>7. CASE StartAgain
  <2>1. ResInv' /\ making'["job"] = Idle /\ making'["turn"] = Idle
    BY <1>1, <1>7, RestartInv, Names DEF StartAgain, Restart
  <2>2. StreamInv'
    <3>1. <<>> \in Seq(Event)
      OBVIOUS
    <3> QED
      BY <1>7, <3>1, StreamFresh DEF StartAgain
  <2> QED
    BY <1>7, <2>1, <2>2, Names DEF StartAgain, IInv, TurnInv
<1>8. ASSUME NEW c \in Creators, Create(c) PROVE IInv'
  <2>1. StreamInv' /\ phase' = phase /\ asked' \in {asked, <<>>} /\ (c # "turn" => asked' = asked)
    BY <1>1, <1>8, StreamStutter DEF Create, streamVars
  <2>2. ResInv' /\ making[c] # Idle /\ \A e \in Creators : e # c => making'[e] = making[e]
    BY <1>1, <1>8, CreateKeeps DEF Create
  <2>3. TurnInv'
    <3>1. \E m \in 0 .. 2 : asked' \in [1 .. m -> Kinds]
      <4>1. 0 \in 0 .. 2
        OBVIOUS
      <4>2. CASE asked' = asked
        BY <1>1, <4>2 DEF TurnInv
      <4>3. CASE asked' = <<>>
        BY <4>1, <4>3, Names
      <4> QED
        BY <2>1, <4>2, <4>3
    <3>2. CASE c = "job"
      BY <1>1, <2>1, <2>2, <3>1, <3>2, Names DEF TurnInv, NoTurn
    <3>3. CASE c = "turn"
      BY <1>1, <2>1, <2>2, <3>1, <3>3, Names DEF TurnInv, NoTurn
    <3>4. CASE c \notin {"job", "turn"}
      BY <1>1, <2>1, <2>2, <3>1, <3>4, Names DEF TurnInv, NoTurn
    <3> QED
      BY <3>2, <3>3, <3>4
  <2> QED
    BY <2>1, <2>2, <2>3 DEF IInv
<1>9. ASSUME NEW c \in SubAgents, SubAgentCalls(c) PROVE IInv'
  <2>1. StreamInv' /\ phase' = phase /\ asked' = asked
    BY <1>1, <1>9, StreamStutter DEF SubAgentCalls, streamVars
  <2>2. c \in Creators /\ c \notin {"ui", "job", "turn"}
    BY Names DEF SubAgents
  <2>3. PICK kind \in Kinds, pc \in {"generate", "check"} : \E d, b : Work(c, kind, pc, d, b)
    BY <1>9, <2>2, ToolWork, TurnAssumption DEF SubAgentCalls
  <2>4. ResInv' /\ \A e \in Creators : e # c => making'[e] = making[e]
    BY <1>1, <2>2, <2>3, WorkInv, WorkKeeps
  <2>5. TurnInv'
    BY <1>1, <2>1, <2>2, <2>4, Names DEF TurnInv, NoTurn
  <2> QED
    BY <2>1, <2>4, <2>5 DEF IInv
<1>10. CASE UNCHANGED vars
  <2>1. StreamInv' /\ ResInv' /\ UNCHANGED <<phase, asked, making>>
    BY <1>1, <1>10, StreamStutter, ResStutter DEF vars, streamVars, resVars
  <2> QED
    BY <1>1, <2>1 DEF IInv, TurnInv, NoTurn
<1> QED
  BY <1>2, <1>3, <1>4, <1>5, <1>6, <1>7, <1>8, <1>9, <1>10 DEF Next

-----------------------------------------------------------------------------

\* What the proofs know of every state: the parser has read the lines that arrived, nobody is
\* told of what may be lost, and memory agrees with the files of what is not being written.
THEOREM TurnInvariant == Spec => []IInv
<1> QED
  BY InitInv, NextInv, PTL DEF Spec

\* Any bodies, any creators: the state is typed and the worker does one thing at a time.
THEOREM TurnTypeCorrect == Spec => []TypeOK
<1>1. ASSUME IInv PROVE TypeOK
  <2>1. phase \in {"idle", "streaming", "done", "failed"} /\ pos \in 0 .. 2 * Len(body)
    BY <1>1 DEF IInv, StreamInv
  <2>2. Len(buffer) <= 1
    <3>1. buffer = Rest(pos)
      BY <1>1 DEF IInv, StreamInv, ReadTo
    <3> QED
      BY <3>1 DEF Rest
  <2>3. asked \in BoundedSeq(Kinds, 2)
    BY <1>1 DEF IInv, TurnInv, BoundedSeq, SeqOf
  <2>4. /\ \A c \in Creators : making[c].pc \in {"idle", "generate", "check", "open", "write", "register"}
        /\ \A k \in Kinds : file[k] # None => file[k].n \in 0 .. creates
        /\ told \subseteq [kind : Kinds, n : 1 .. creates] /\ raced \subseteq Kinds
    BY <1>1 DEF IInv, ResInv, ResTypeOK, Working, Places, Idle
  <2>5. /\ ~(phase = "idle" /\ asked = <<>> /\ making["turn"] = Idle) => making["job"] = Idle
        /\ phase # "idle" => asked = <<>> /\ making["turn"] = Idle
    BY <1>1 DEF IInv, TurnInv, NoTurn
  <2> QED
    BY <2>1, <2>2, <2>3, <2>4, <2>5 DEF TypeOK
<1> QED
  BY <1>1, TurnInvariant, PTL

\* However a body is cut into chunks, the reply handed over is that of its whole lines.
THEOREM RepliesAreWhole == Spec => []StreamEqualsWhole
<1>1. ASSUME IInv PROVE StreamEqualsWhole
  <2> DEFINE n == pos \div 2
             called == {idx \in {1, 2} : Named(body, n, idx) # {}}
  <2>1. StreamInv /\ Means(parser, body, n)
    BY <1>1 DEF IInv, StreamInv, ReadTo
  <2>2. /\ \A kinds : Of(kinds) = Lines(body, n, kinds)
        /\ \A idx \in {1, 2} : Naming(idx) = Named(body, n, idx) /\ Arguing(idx) = Argued(body, n, idx)
        /\ Value = Values(body, n)
    BY DEF Of, Lines, Arrived, Naming, Named, Arguing, Argued, Value, Values
  <2>3. Called = called
    BY <2>2 DEF Called
  <2>4. /\ Finish.text = parser.content /\ Finish.reasoning = parser.reasoning
        /\ Finish.finish = parser.finish
    BY DEF Finish
  <2>5. /\ Len(Finish.calls) = Cardinality(called)
        /\ \A idx \in called : Finish.calls[Place(idx, called)] = CallOf(ToolOf(parser, idx))
    BY <2>1, CallsMean
  <2>6. ASSUME NEW idx \in called
        PROVE  LET call == Finish.calls[Place(idx, called)] IN
               /\ call.name = body[Max(Naming(idx))].name
               /\ IF Cardinality(Arguing(idx)) = 2 THEN InOrder(call.args, Arguing(idx), Value)
                                                   ELSE call.args = <<>>
    <3> DEFINE tool == ToolOf(parser, idx)
    <3>1. idx \in {1, 2} /\ Named(body, n, idx) # {}
      OBVIOUS
    <3>2. /\ tool.name = body[Max(Named(body, n, idx))].name
          /\ InOrder(tool.args, Argued(body, n, idx), Values(body, n))
      BY <2>1, <3>1 DEF Means, ToolMeans
    <3>3. Len(tool.args) = Cardinality(Argued(body, n, idx))
      BY <3>2 DEF InOrder
    <3>4. /\ CallOf(tool).name = tool.name
          /\ CallOf(tool).args = IF Len(tool.args) = 2 THEN tool.args ELSE <<>>
      BY DEF CallOf
    <3> HIDE DEF tool, n, called
    <3> QED
      BY <2>2, <2>5, <3>1, <3>2, <3>3, <3>4 DEF tool
  <2> HIDE DEF n, called
  <2> QED
    BY <2>1, <2>2, <2>3, <2>4, <2>5, <2>6 DEF StreamEqualsWhole, Means
<1> QED
  BY <1>1, TurnInvariant, PTL

\* What a success was told of is in its file, but for resources two creators raced for.
THEOREM CreatedAreKept == Spec => []CreatedIsKept
<1>1. IInv => CreatedIsKept
  BY DEF IInv, ResInv
<1> QED
  BY <1>1, TurnInvariant, PTL

\* A restart changes nothing of the skills, commands and sub-agents in memory.
THEOREM RestartsChangeNothing == Spec => []SameAfterRestart
<1>1. IInv => SameAfterRestart
  BY SameEnough DEF IInv
<1> QED
  BY <1>1, TurnInvariant, PTL

=============================================================================
