------------------------- MODULE ProfileProject_proofs -------------------------
(***************************************************************************)
(* What resolving a profile comes to, what the validator says of it, and   *)
(* what the planner, compose-profile and the network policies of a chart   *)
(* make of a profile that it says nothing of, whatever the files say.      *)
(*                                                                         *)
(* Resolving is recursive in two places, a file over its parents and the   *)
(* loop over the references of one file, and so are the dependency check   *)
(* and what both are compared with.  All are instances of one definition,  *)
(* Level, so that one lemma shows that they have a solution: `job` says    *)
(* which of them is meant, and on what.                                    *)
(***************************************************************************)
EXTENDS ProfileProject, WellFoundedInduction, FiniteSetTheorems, SequenceTheorems, TLAPS

(***************************************************************************)
(* Recursion                                                               *)
(***************************************************************************)

\* The files on the way to a file, which ComposeExtends goes down by.
OneFile(files, below, stack, f) ==
    IF f \in stack THEN Failed("E113")
    ELSE IF ~IsDocument(files[f]) THEN Load(files[f])
    ELSE MergeParents(files[f], f,
           [ref \in Files |-> IF files[ref] = Absent THEN Failed("E112")
                              ELSE below[stack \cup {f}][ref]])

\* One more reference of a file, which MergedParents goes up by.
OneParent(refs, parents, before, i) ==
    IF i = 0 THEN From(Absent, Resolved(Absent, <<>>))
    ELSE AddParent(before[i - 1], refs[i],
                   IF refs[i] = Outside THEN before[i - 1] ELSE parents[refs[i]])

\* One more member of a sequence, which Only goes up by.
OneMember(seq, S, before, i) ==
    IF i = 0 THEN <<>>
    ELSE IF seq[i] \in S THEN Append(before[i - 1], seq[i]) ELSE before[i - 1]

\* One more of the sequences that FlattenSeq puts one after the other.
OnePart(seqs, before, i) ==
    IF i = 1 THEN seqs[i] ELSE before[i - 1] \o seqs[i]

\* The files that a file is made of, which Lineage goes up the ancestry by.
OneLine(files, lines, f) ==
    IF files[f].extends = NoExtends THEN <<f>>
    ELSE FlattenSeq([i \in DOMAIN files[f].extends |-> lines[files[f].extends[i]]]) \o <<f>>

\* One more node of a sequence, which VisitAll goes up by.
OneNode(dfs, nodes, found, after, i) ==
    IF i = 0 THEN found ELSE dfs[nodes[i]][after[i - 1]]

Level(job, g, x) ==
    IF job.of = "files" THEN [f \in Files |-> OneFile(job.files, g, x, f)]
    ELSE IF job.of = "parents" THEN OneParent(job.refs, job.parents, g, x)
    ELSE IF job.of = "members" THEN OneMember(job.seq, job.S, g, x)
    ELSE IF job.of = "parts" THEN OnePart(job.seqs, g, x)
    ELSE IF job.of = "lines" THEN OneLine(job.files, g, x)
    ELSE IF job.of = "nodes" THEN OneNode(job.dfs, job.nodes, job.found, g, x)
    ELSE [n \in job.ids |-> [found \in Findings(job.ids) |->
             Visit(job.ids, job.dependsOn, g, x, n, found)]]

Solution(job, S) == CHOOSE g : g = [x \in S |-> Level(job, g, x)]

(* A recursive function exists if its value depends only on smaller ones.  *)
LEMMA RecursionUnfolds ==
    ASSUME NEW job, NEW S, NEW R, IsWellFoundedOn(R, S), IsTransitivelyClosedOn(R, S),
           \A x \in S : \A g, h : (\A y \in S : <<y, x>> \in R => g[y] = h[y]) =>
                                      Level(job, g, x) = Level(job, h, x)
    PROVE  Solution(job, S) = [x \in S |-> Level(job, Solution(job, S), x)]
<1> DEFINE Less(x)    == {y \in S : <<y, x>> \in R}
           Solves(g, T) == g = [y \in T |-> Level(job, g, y)]
           Below(x)   == CHOOSE g : Solves(g, Less(x))
<1> HIDE DEF Level
<1>0. \A x \in S : \A y \in Less(x) : Less(y) \subseteq Less(x)
  BY DEF IsTransitivelyClosedOn
<1>1. ASSUME NEW x \in S, NEW g, NEW h, Solves(g, Less(x)), Solves(h, Less(x)) PROVE g = h
  <2> DEFINE Differ == {y \in Less(x) : g[y] # h[y]}
  <2>1. SUFFICES Differ = {}
    BY <1>1
  <2>2. SUFFICES ASSUME Differ # {} PROVE FALSE
    OBVIOUS
  <2>3. PICK y \in Differ : \A z \in Differ : <<z, y>> \notin R
    BY <2>2, WFMin
  <2>4. \A z \in S : <<z, y>> \in R => g[z] = h[z]
    BY <2>3, <1>0
  <2>5. Level(job, g, y) = Level(job, h, y)
    BY <2>4
  <2> QED BY <2>5, <2>3, <1>1
<1>2. ASSUME NEW x \in S, NEW g, Solves(g, Less(x)), NEW y \in Less(x)
      PROVE  Solves([z \in Less(y) |-> g[z]], Less(y))
  <2> DEFINE h == [z \in Less(y) |-> g[z]]
  <2>1. ASSUME NEW z \in Less(y) PROVE h[z] = Level(job, h, z)
    <3>1. g[z] = Level(job, g, z)
      BY <1>0, <1>2
    <3>2. \A w \in S : <<w, z>> \in R => g[w] = h[w]
      BY <1>0
    <3> QED BY <3>1, <3>2
  <2> QED BY <2>1
<1>3. ASSUME NEW T \in SUBSET S, \A x \in T : Less(x) \subseteq T,
             \A x \in T : \E g : Solves(g, Less(x))
      PROVE  \E g : Solves(g, T)
  <2> DEFINE g == [x \in T |-> Level(job, Below(x), x)]
  <2>1. \A x \in T : Solves(Below(x), Less(x))
    BY <1>3
  <2> HIDE DEF Below
  <2>2. ASSUME NEW x \in T, NEW y \in Less(x) PROVE Below(x)[y] = g[y]
    <3> DEFINE h == [z \in Less(y) |-> Below(x)[z]]
    <3>1. y \in T
      BY <2>2, <1>3
    <3>2. Solves(h, Less(y))
      <4>1. x \in S /\ Solves(Below(x), Less(x))
        BY <2>1
      <4> HIDE DEF Solves, Less
      <4> QED BY <4>1, <1>2
    <3>3. h = Below(y)
      <4> HIDE DEF h, Solves, Less
      <4> QED BY <3>1, <3>2, <2>1, <1>1
    <3>4. \A w \in S : <<w, y>> \in R => Below(x)[w] = h[w]
      OBVIOUS
    <3>5. Level(job, Below(x), y) = Level(job, h, y)
      BY <3>4
    <3>6. Below(x)[y] = Level(job, Below(x), y)
      BY <2>1, <2>2
    <3> QED BY <3>1, <3>3, <3>5, <3>6
  <2>3. ASSUME NEW x \in T PROVE Level(job, Below(x), x) = Level(job, g, x)
    <3>1. \A y \in S : <<y, x>> \in R => Below(x)[y] = g[y]
      BY <2>2, <2>3
    <3> HIDE DEF g
    <3> QED BY <3>1
  <2> QED BY <2>3
<1>4. \A x \in S : \E g : Solves(g, Less(x))
  <2> DEFINE Without == {x \in S : ~ \E g : Solves(g, Less(x))}
  <2>1. SUFFICES ASSUME Without # {} PROVE FALSE
    OBVIOUS
  <2>2. PICK x \in Without : \A y \in Without : <<y, x>> \notin R
    BY <2>1, WFMin
  <2>3. \A y \in Less(x) : \E g : Solves(g, Less(y))
    BY <2>2
  <2>4. Less(x) \in SUBSET S /\ \A y \in Less(x) : Less(y) \subseteq Less(x)
    BY <1>0
  <2> QED BY <2>2, <2>3, <2>4, <1>3
<1>5. \E g : Solves(g, S)
  BY <1>3, <1>4
<1> QED BY <1>5 DEF Solution

LEMMA SetsGrow ==
    ASSUME NEW T, IsFiniteSet(T), NEW R,
           R = {p \in (SUBSET T) \X (SUBSET T) : p[2] \subseteq p[1] /\ p[1] # p[2]}
    PROVE  IsWellFoundedOn(R, SUBSET T) /\ IsTransitivelyClosedOn(R, SUBSET T)
<1>1. IsTransitivelyClosedOn(R, SUBSET T)
  BY DEF IsTransitivelyClosedOn
<1>2. ASSUME NEW up \in [Nat -> SUBSET T], \A n \in Nat : <<up[n + 1], up[n]>> \in R PROVE FALSE
  <2> DEFINE down == [n \in Nat |-> T \ up[n]]
  <2>1. down \in [Nat -> SUBSET T]
    OBVIOUS
  <2>2. ASSUME NEW n \in Nat PROVE <<down[n + 1], down[n]>> \in StrictSubsetOrdering(T)
    <3>1. n + 1 \in Nat
      OBVIOUS
    <3>2. /\ up[n] \subseteq T /\ up[n + 1] \subseteq T
          /\ up[n] \subseteq up[n + 1] /\ up[n + 1] # up[n]
      BY <1>2, <3>1
    <3>3. down[n] = T \ up[n] /\ down[n + 1] = T \ up[n + 1]
      BY <3>1
    <3> HIDE DEF down
    <3> QED BY <3>2, <3>3 DEF StrictSubsetOrdering
  <2>3. IsWellFoundedOn(StrictSubsetOrdering(T), SUBSET T)
    BY FS_StrictSubsetOrderingWellFounded, FS_FiniteSubsetsOfFinite
  <2> QED BY <2>1, <2>2, <2>3 DEF IsWellFoundedOn
<1> QED BY <1>1, <1>2 DEF IsWellFoundedOn

LEMMA StacksGrow ==
    ASSUME NEW R, R = {p \in (SUBSET Files) \X (SUBSET Files) : p[2] \subseteq p[1] /\ p[1] # p[2]}
    PROVE  IsWellFoundedOn(R, SUBSET Files) /\ IsTransitivelyClosedOn(R, SUBSET Files)
BY SetsGrow, ProfileFiles

LEMMA IndicesGrow ==
    ASSUME NEW n \in Nat, NEW R, R = {p \in Nat \X Nat : p[1] < p[2]}
    PROVE  IsWellFoundedOn(R, 0 .. n) /\ IsTransitivelyClosedOn(R, 0 .. n)
<1>1. IsWellFoundedOn(R, Nat)
  BY NatLessThanWellFounded DEF OpToRel
<1>2. IsWellFoundedOn(R, 0 .. n)
  BY <1>1, IsWellFoundedOnSubset
<1>3. IsTransitivelyClosedOn(R, 0 .. n)
  BY DEF IsTransitivelyClosedOn
<1> QED BY <1>2, <1>3

(* A loop whose rounds depend only on the round before.                    *)
LEMMA LoopUnfolds ==
    ASSUME NEW job, NEW n \in Nat,
           \A i \in 0 .. n : \A g, h : (i # 0 => g[i - 1] = h[i - 1]) =>
                                       Level(job, g, i) = Level(job, h, i)
    PROVE  Solution(job, 0 .. n) = [i \in 0 .. n |-> Level(job, Solution(job, 0 .. n), i)]
<1> DEFINE R == {p \in Nat \X Nat : p[1] < p[2]}
           rounds == 0 .. n
<1>1. IsWellFoundedOn(R, rounds) /\ IsTransitivelyClosedOn(R, rounds)
  BY IndicesGrow
<1>2. ASSUME NEW x \in rounds, NEW g, NEW h, \A y \in rounds : <<y, x>> \in R => g[y] = h[y]
      PROVE  Level(job, g, x) = Level(job, h, x)
  <2>1. x # 0 => x - 1 \in 0 .. n /\ <<x - 1, x>> \in R
    OBVIOUS
  <2>2. x # 0 => g[x - 1] = h[x - 1]
    BY <1>2, <2>1
  <2> QED BY <2>2
<1> HIDE DEF R, rounds
<1>3. Solution(job, rounds) = [i \in rounds |-> Level(job, Solution(job, rounds), i)]
  BY <1>1, <1>2, RecursionUnfolds
<1> QED BY <1>3 DEF rounds

(* What holds in no first round of a loop, and in no round whose           *)
(* predecessor is free of it, holds in none.                               *)
LEMMA NoFirstRound ==
    ASSUME NEW n \in Nat, NEW Bad \in SUBSET (0 .. n), 0 \notin Bad,
           \A i \in Bad : i - 1 \in Bad
    PROVE  Bad = {}
<1> DEFINE R == {p \in Nat \X Nat : p[1] < p[2]}
<1>1. SUFFICES ASSUME Bad # {} PROVE FALSE
  OBVIOUS
<1>2. PICK i \in Bad : \A j \in Bad : <<j, i>> \notin R
  BY <1>1, IndicesGrow, WFMin
<1>3. i - 1 \in Bad /\ i - 1 < i /\ i - 1 \in Nat /\ i \in Nat
  BY <1>2
<1> QED BY <1>2, <1>3

(***************************************************************************)
(* Sequences of modules                                                    *)
(***************************************************************************)

MembersJob(seq, S) == [of |-> "members", seq |-> seq, S |-> S]
MembersLoop(seq, S) == Solution(MembersJob(seq, S), 0 .. Len(seq))

LEMMA OnlyUnfolds ==
    ASSUME NEW seq, NEW S, Len(seq) \in Nat
    PROVE  /\ Only(seq, S) = MembersLoop(seq, S)[Len(seq)]
           /\ MembersLoop(seq, S) = [i \in 0 .. Len(seq) |-> OneMember(seq, S, MembersLoop(seq, S), i)]
<1> DEFINE job == MembersJob(seq, S)
           n == Len(seq)
<1>1. \A g, x : Level(job, g, x) = OneMember(seq, S, g, x)
  BY DEF Level, MembersJob
<1>2. \A i \in 0 .. n : \A g, h : (i # 0 => g[i - 1] = h[i - 1]) => Level(job, g, i) = Level(job, h, i)
  BY <1>1, ZenonT(60) DEF OneMember
<1>3. Solution(job, 0 .. n) = [i \in 0 .. n |-> Level(job, Solution(job, 0 .. n), i)]
  <2> HIDE DEF job
  <2> QED BY <1>2, LoopUnfolds
<1>4. Only(seq, S) = MembersLoop(seq, S)[Len(seq)]
  BY DEF Only, MembersLoop, Solution, Level, MembersJob, OneMember
<1> QED BY <1>1, <1>3, <1>4 DEF MembersLoop

\* `part` is what `pos` leads to in the first n members of `seq`: all of them
\* that are in S, in their order.
Picks(part, pos, seq, S, n) ==
    /\ pos \in [1 .. Len(part) -> 1 .. n]
    /\ \A i, j \in 1 .. Len(part) : i < j => pos[i] < pos[j]
    /\ \A i \in 1 .. Len(part) : part[i] = seq[pos[i]] /\ part[i] \in S
    /\ \A k \in 1 .. n : seq[k] \in S => \E i \in 1 .. Len(part) : pos[i] = k

LEMMA OnlyPicks ==
    ASSUME NEW T, NEW seq \in Seq(T), NEW S
    PROVE  /\ Only(seq, S) \in Seq(T)
           /\ \E pos : Picks(Only(seq, S), pos, seq, S, Len(seq))
<1> DEFINE kept == MembersLoop(seq, S)
           Done(i) == kept[i] \in Seq(T) /\ \E pos : Picks(kept[i], pos, seq, S, i)
           Bad == {i \in 0 .. Len(seq) : ~Done(i)}
<1>1. Len(seq) \in Nat /\ \A i \in 0 .. Len(seq) : kept[i] = OneMember(seq, S, kept, i)
  BY OnlyUnfolds
<1> HIDE DEF kept
<1>2. kept[0] = <<>>
  BY <1>1 DEF OneMember
<1>3. 0 \notin Bad
  <2>1. Picks(<<>>, [i \in 1 .. 0 |-> i], seq, S, 0)
    BY DEF Picks
  <2>2. Done(0)
    BY <1>2, <2>1
  <2> QED BY <2>2
<1>4. ASSUME NEW i \in Bad PROVE i - 1 \in Bad
  <2>1. i \in 1 .. Len(seq) /\ i - 1 \in 0 .. Len(seq) /\ seq[i] \in T
    BY <1>1, <1>3
  <2>2. SUFFICES ASSUME kept[i - 1] \in Seq(T), \E pos : Picks(kept[i - 1], pos, seq, S, i - 1)
                 PROVE  Done(i)
    BY <2>1
  <2>3. PICK pos : Picks(kept[i - 1], pos, seq, S, i - 1)
    BY <2>2
  <2>4. CASE seq[i] \in S
    <3> DEFINE m == Len(kept[i - 1])
               here == [j \in 1 .. m + 1 |-> IF j = m + 1 THEN i ELSE pos[j]]
    <3>1. kept[i] = Append(kept[i - 1], seq[i])
      <4>1. kept[i] = OneMember(seq, S, kept, i) /\ i # 0
        BY <1>1, <2>1
      <4> QED BY <4>1, <2>4 DEF OneMember
    <3>2. /\ kept[i] \in Seq(T) /\ Len(kept[i]) = m + 1 /\ m \in Nat
          /\ kept[i][m + 1] = seq[i] /\ \A j \in 1 .. m : kept[i][j] = kept[i - 1][j]
      BY <2>1, <2>2, <3>1
    <3> HIDE DEF Done, Bad, m
    <3>3. /\ pos \in [1 .. m -> 1 .. i - 1]
          /\ \A j, k \in 1 .. m : j < k => pos[j] < pos[k]
          /\ \A j \in 1 .. m : kept[i - 1][j] = seq[pos[j]] /\ kept[i - 1][j] \in S
          /\ \A k \in 1 .. i - 1 : seq[k] \in S => \E j \in 1 .. m : pos[j] = k
      BY <2>3 DEF Picks, m
    <3>4. here \in [1 .. m + 1 -> 1 .. i] /\ here[m + 1] = i /\ \A j \in 1 .. m : here[j] = pos[j]
      BY <2>1, <3>2, <3>3
    <3> HIDE DEF here
    <3>5. \A j, k \in 1 .. m + 1 : j < k => here[j] < here[k]
      <4> TAKE j, k \in 1 .. m + 1
      <4> HAVE j < k
      <4>1. j \in 1 .. m /\ here[j] = pos[j] /\ pos[j] \in 1 .. i - 1
        <5>1. m \in Nat /\ j \in Nat /\ j < m + 1
          BY <3>2
        <5>2. j \in 1 .. m
          BY <5>1
        <5> QED BY <5>2, <3>3, <3>4
      <4>2. CASE k = m + 1
        BY <2>1, <3>4, <4>1, <4>2
      <4>3. CASE k # m + 1
        <5>1. k \in 1 .. m
          BY <3>2, <4>3
        <5> QED BY <5>1, <4>1, <3>3, <3>4
      <4> QED BY <4>2, <4>3
    <3>6. \A j \in 1 .. m + 1 : kept[i][j] = seq[here[j]] /\ kept[i][j] \in S
      <4> TAKE j \in 1 .. m + 1
      <4>1. CASE j = m + 1
        BY <2>4, <3>2, <3>4, <4>1
      <4>2. CASE j # m + 1
        <5>1. j \in 1 .. m
          BY <3>2, <4>2
        <5> QED BY <5>1, <3>2, <3>3, <3>4
      <4> QED BY <4>1, <4>2
    <3>7. \A k \in 1 .. i : seq[k] \in S => \E j \in 1 .. m + 1 : here[j] = k
      <4> TAKE k \in 1 .. i
      <4> HAVE seq[k] \in S
      <4>1. CASE k = i
        BY <3>2, <3>4, <4>1
      <4>2. CASE k # i
        <5>1. k \in 1 .. i - 1
          BY <2>1, <4>2
        <5>2. PICK j \in 1 .. m : pos[j] = k
          BY <5>1, <3>3
        <5>3. j \in 1 .. m + 1 /\ here[j] = k
          BY <5>2, <3>2, <3>4
        <5> QED BY <5>3
      <4> QED BY <4>1, <4>2
    <3>8. Picks(kept[i], here, seq, S, i)
      BY <3>2, <3>4, <3>5, <3>6, <3>7 DEF Picks
    <3> QED BY <3>2, <3>8 DEF Done
  <2>5. CASE seq[i] \notin S
    <3>1. kept[i] = kept[i - 1]
      <4>1. kept[i] = OneMember(seq, S, kept, i) /\ i # 0
        BY <1>1, <2>1
      <4> QED BY <4>1, <2>5 DEF OneMember
    <3>2. Picks(kept[i], pos, seq, S, i)
      BY <2>1, <2>2, <2>3, <2>5, <3>1 DEF Picks
    <3> QED BY <2>2, <3>1, <3>2
  <2> QED BY <2>4, <2>5
<1>5. Bad = {}
  <2> HIDE DEF Bad
  <2>1. Bad \in SUBSET (0 .. Len(seq))
    BY DEF Bad
  <2> QED BY <1>1, <1>3, <1>4, <2>1, NoFirstRound
<1>6. Done(Len(seq))
  BY <1>1, <1>5
<1>7. Only(seq, S) = kept[Len(seq)]
  BY <1>1, OnlyUnfolds DEF kept
<1> QED BY <1>6, <1>7

(* Of a sequence, exactly what is wanted is kept, and nothing twice.       *)
LEMMA OnlyKeeps ==
    ASSUME NEW T, NEW seq \in Seq(T), NEW S
    PROVE  /\ Only(seq, S) \in Seq(T)
           /\ Range(Only(seq, S)) = Range(seq) \cap S
           /\ (\A i, j \in DOMAIN seq : seq[i].id = seq[j].id => i = j) =>
                  \A i, j \in DOMAIN Only(seq, S) : Only(seq, S)[i].id = Only(seq, S)[j].id => i = j
<1> DEFINE part == Only(seq, S)
<1>1. part \in Seq(T)
  BY OnlyPicks
<1>2. PICK pos : Picks(part, pos, seq, S, Len(seq))
  BY OnlyPicks
<1> HIDE DEF part
<1>3. DOMAIN part = 1 .. Len(part) /\ Len(part) \in Nat /\ DOMAIN seq = 1 .. Len(seq) /\ Len(seq) \in Nat
  BY <1>1
<1>4. Range(part) = Range(seq) \cap S
  <2>1. \A i \in DOMAIN part : part[i] \in Range(seq) \cap S
    BY <1>2, <1>3 DEF Picks, Range
  <2>2. \A k \in DOMAIN seq : seq[k] \in S => \E i \in DOMAIN part : part[i] = seq[k]
    BY <1>2, <1>3 DEF Picks
  <2> QED BY <2>1, <2>2 DEF Range
<1>5. ASSUME \A i, j \in DOMAIN seq : seq[i].id = seq[j].id => i = j,
             NEW i \in DOMAIN part, NEW j \in DOMAIN part, part[i].id = part[j].id
      PROVE  i = j
  <2>1. /\ pos[i] \in DOMAIN seq /\ part[i] = seq[pos[i]]
        /\ pos[j] \in DOMAIN seq /\ part[j] = seq[pos[j]]
    BY <1>2, <1>3 DEF Picks
  <2>2. pos[i] = pos[j]
    BY <1>5, <2>1
  <2>3. (i < j => pos[i] < pos[j]) /\ (j < i => pos[j] < pos[i])
    BY <1>2, <1>3 DEF Picks
  <2> QED BY <1>3, <2>1, <2>2, <2>3
<1> QED BY <1>1, <1>4, <1>5 DEF part

(***************************************************************************)
(* Merging modules                                                         *)
(***************************************************************************)

\* What stands for modules that are not a list is not a list.
NotAList == \A S : BadModules \notin Seq(S)

LEMMA SequenceOfRange ==
    ASSUME NEW T, NEW seq \in Seq(T)
    PROVE  seq \in Seq(Range(seq)) /\ Range(seq) \subseteq T
<1>1. \A i \in DOMAIN seq : seq[i] \in Range(seq) /\ seq[i] \in T
  BY DEF Range
<1>2. seq \in Seq(Range(seq))
  BY <1>1
<1> QED BY <1>1, <1>2 DEF Range

(* The merge of two well-shaped lists of modules: the modules of the base  *)
(* where they were, each with what is laid over it, then the new ones in   *)
(* their order.                                                            *)
LEMMA MergedModulesAre ==
    ASSUME NEW base, NEW over, NEW from, NEW source, NEW prov,
           IsModules(base), WellShaped(base), IsModules(over), WellShaped(over),
           NEW merged, merged = MergeModules(base, over, from, source, prov).value
    PROVE  /\ IsModules(merged) /\ merged \in Seq(Range(merged)) /\ DOMAIN base \subseteq DOMAIN merged
           /\ \A i \in DOMAIN base : merged[i].id = base[i].id
           /\ \A i \in DOMAIN base :
                 merged[i].fields = IF base[i].id \in IdsOf(over)
                                    THEN Override(FieldsOf(base, base[i].id), FieldsOf(over, base[i].id))
                                    ELSE base[i].fields
           /\ \A i \in DOMAIN merged \ DOMAIN base :
                 \E k \in DOMAIN over : merged[i] = over[k] /\ over[k].id \notin IdsOf(base)
           /\ \A k \in DOMAIN over : over[k].id \notin IdsOf(base) =>
                 \E i \in DOMAIN merged \ DOMAIN base : merged[i] = over[k]
           /\ \A i, j \in DOMAIN merged \ DOMAIN base : \A k, l \in DOMAIN over :
                 i < j /\ merged[i] = over[k] /\ merged[j] = over[l] => k < l
<1> DEFINE both == IdsOf(base) \cap IdsOf(over)
           entries == {"id", "fields"}
           wanted == {m \in Range(over) : m.id \notin both}
           added == Only(over, wanted)
<1>1. /\ base \in Seq(Range(base)) /\ \A m \in Range(base) : DOMAIN m = entries /\ IsList(DependsOn(m))
      /\ over \in Seq(Range(over)) /\ \A m \in Range(over) : DOMAIN m = entries /\ IsList(DependsOn(m))
  BY DEF IsModules, WellShaped
<1>2. PICK new : /\ DOMAIN new = both /\ merged = MergedModules(base, over, new)
                 /\ \A m \in both : new[m].value = Override(FieldsOf(base, m), FieldsOf(over, m))
  <2> DEFINE start == Override(prov, Constantly({<<"modules", m>> : m \in IdsOf(base)}, from))
             new == [m \in both |-> MergeMapping(FieldsOf(base, m), FieldsOf(over, m),
                                                 from, source, <<"modules", m>>, start)]
  <2>1. merged = MergedModules(base, over, new)
    BY DEF MergeModules
  <2>2. \A m \in both : new[m].value = Override(FieldsOf(base, m), FieldsOf(over, m))
    BY DEF MergeMapping
  <2>3. DOMAIN new = both
    OBVIOUS
  <2> HIDE DEF new, both
  <2> QED BY <2>1, <2>2, <2>3
<1> HIDE DEF both
<1> DEFINE head == [i \in DOMAIN base |-> IF base[i].id \in both
                                          THEN [base[i] EXCEPT !.fields = new[base[i].id].value]
                                          ELSE base[i]]
           T == Range(head) \cup Range(over)
<1>3. \A i \in DOMAIN base : base[i] \in Range(base) /\ DOMAIN base[i] = entries
  BY <1>1 DEF Range
<1>4. \A i \in DOMAIN base :
         /\ head[i].id = base[i].id /\ DOMAIN head[i] = entries
         /\ head[i].fields = IF base[i].id \in both THEN new[base[i].id].value ELSE base[i].fields
  BY <1>3
<1>5. DOMAIN base = 1 .. Len(base) /\ Len(base) \in Nat
  BY <1>1
<1>6. head \in Seq(Range(head)) /\ Len(head) = Len(base)
  <2>1. \A i \in 1 .. Len(base) : head[i] \in Range(head)
    BY <1>5 DEF Range
  <2> QED BY <1>5, <2>1, SMTT(30)
<1>7. /\ added \in Seq(Range(over))
      /\ Range(added) = {m \in Range(over) : m.id \notin both}
  <2> HIDE DEF wanted
  <2>1. added \in Seq(Range(over)) /\ Range(added) = Range(over) \cap wanted
    BY <1>1, OnlyKeeps
  <2> QED BY <2>1 DEF wanted
<1>8. PICK pos : Picks(added, pos, over, wanted, Len(over))
  BY <1>1, OnlyPicks
<1>9. merged = head \o added /\ head \in Seq(T) /\ added \in Seq(T)
  <2>1. merged = head \o added
    BY <1>2 DEF MergedModules
  <2> HIDE DEF head, added
  <2> QED BY <1>6, <1>7, <2>1
<1> HIDE DEF head, added, T, wanted
<1>10. /\ merged \in Seq(T)
       /\ Len(merged) = Len(base) + Len(added) /\ Len(added) \in Nat
       /\ DOMAIN added = 1 .. Len(added) /\ DOMAIN merged = 1 .. Len(base) + Len(added)
       /\ \A i \in 1 .. Len(base) : merged[i] = head[i]
       /\ \A i \in 1 .. Len(added) : merged[Len(base) + i] = added[i]
  <2>1. /\ head \o added \in Seq(T)
        /\ Len(head \o added) = Len(head) + Len(added)
        /\ \A i \in 1 .. Len(head) + Len(added) :
              (head \o added)[i] = IF i <= Len(head) THEN head[i] ELSE added[i - Len(head)]
    BY <1>9, ConcatProperties
  <2>2. Len(added) \in Nat /\ DOMAIN added = 1 .. Len(added)
    BY <1>9
  <2> QED BY <1>5, <1>6, <1>9, <2>1, <2>2
<1>11. \A i \in DOMAIN merged \ DOMAIN base :
          i - Len(base) \in DOMAIN added /\ merged[i] = added[i - Len(base)] /\ i \in Nat
  <2> TAKE i \in DOMAIN merged \ DOMAIN base
  <2>1. i - Len(base) \in 1 .. Len(added) /\ i = Len(base) + (i - Len(base)) /\ i \in Nat
    BY <1>5, <1>10
  <2> QED BY <1>10, <2>1
<1>12. \A i \in DOMAIN added :
          /\ pos[i] \in DOMAIN over /\ added[i] = over[pos[i]] /\ over[pos[i]].id \notin IdsOf(base)
          /\ \A j \in DOMAIN added : i < j => pos[i] < pos[j]
  <2> TAKE i \in DOMAIN added
  <2>1. /\ pos[i] \in 1 .. Len(over) /\ added[i] = over[pos[i]]
        /\ \A j \in DOMAIN added : i < j => pos[i] < pos[j]
    BY <1>8, <1>10 DEF Picks
  <2>2. added[i] \in Range(added) /\ pos[i] \in DOMAIN over
    BY <1>1, <2>1 DEF Range
  <2>3. added[i].id \notin both /\ over[pos[i]].id \in IdsOf(over)
    BY <1>7, <2>2 DEF IdsOf
  <2> QED BY <2>1, <2>2, <2>3 DEF both
<1>13. \A k \in DOMAIN over : over[k].id \notin IdsOf(base) => \E i \in DOMAIN added : added[i] = over[k]
  <2> TAKE k \in DOMAIN over
  <2> HAVE over[k].id \notin IdsOf(base)
  <2>1. over[k] \in Range(over) /\ over[k].id \notin both
    BY DEF Range, both
  <2> QED BY <1>7, <2>1 DEF Range
<1>14. merged \in Seq(Range(merged)) /\ DOMAIN base \subseteq DOMAIN merged
  BY <1>5, <1>10, SequenceOfRange
<1>15. ASSUME NEW i \in DOMAIN base
       PROVE  /\ DOMAIN merged[i] = entries /\ merged[i].id = base[i].id
              /\ merged[i].fields = IF base[i].id \in IdsOf(over)
                                    THEN Override(FieldsOf(base, base[i].id), FieldsOf(over, base[i].id))
                                    ELSE base[i].fields
  <2>1. merged[i] = head[i] /\ base[i].id \in IdsOf(base)
    BY <1>5, <1>10 DEF IdsOf
  <2>2. base[i].id \in both <=> base[i].id \in IdsOf(over)
    BY <2>1 DEF both
  <2> QED BY <1>2, <1>4, <2>1, <2>2
<1>16. \A k \in DOMAIN over : over[k].id \notin IdsOf(base) =>
           \E i \in DOMAIN merged \ DOMAIN base : merged[i] = over[k]
  <2> TAKE k \in DOMAIN over
  <2> HAVE over[k].id \notin IdsOf(base)
  <2>1. PICK i \in DOMAIN added : added[i] = over[k]
    BY <1>13
  <2>2. Len(base) + i \in DOMAIN merged \ DOMAIN base /\ merged[Len(base) + i] = over[k]
    BY <1>5, <1>10, <2>1
  <2> QED BY <2>2
<1>17. ASSUME NEW i \in DOMAIN merged \ DOMAIN base, NEW j \in DOMAIN merged \ DOMAIN base,
              NEW k \in DOMAIN over, NEW l \in DOMAIN over,
              i < j, merged[i] = over[k], merged[j] = over[l]
       PROVE  k < l
  <2> DEFINE x == i - Len(base)
             y == j - Len(base)
  <2>1. x \in DOMAIN added /\ y \in DOMAIN added /\ x < y /\ merged[i] = added[x] /\ merged[j] = added[y]
    BY <1>5, <1>11, <1>17
  <2> HIDE DEF x, y
  <2>2. over[pos[x]] = over[k] /\ over[pos[y]] = over[l] /\ pos[x] < pos[y]
        /\ pos[x] \in DOMAIN over /\ pos[y] \in DOMAIN over
    BY <1>12, <1>17, <2>1
  <2>3. pos[x] = k /\ pos[y] = l
    BY <2>2 DEF WellShaped
  <2> QED BY <2>2, <2>3
<1>18. \A i \in DOMAIN merged \ DOMAIN base :
          \E k \in DOMAIN over : merged[i] = over[k] /\ over[k].id \notin IdsOf(base)
  BY <1>11, <1>12
<1>19. IsModules(merged)
  <2>1. /\ \A k \in DOMAIN over : DOMAIN over[k] = entries /\ IsList(DependsOn(over[k]))
        /\ \A i \in DOMAIN base : IsList(DependsOn(base[i]))
    BY <1>1 DEF Range
  <2>2. ASSUME NEW i \in DOMAIN base PROVE IsList(DependsOn(merged[i]))
    <3>1. CASE base[i].id \in IdsOf(over)
      <4>1. PICK a \in DOMAIN base, b \in DOMAIN over :
                merged[i].fields = Override(base[a].fields, over[b].fields)
        <5>1. base[i].id \in IdsOf(base)
          BY DEF IdsOf
        <5>2. \A seq : base[i].id \in IdsOf(seq) =>
                  \E a \in DOMAIN seq : FieldsOf(seq, base[i].id) = seq[a].fields
          BY DEF IdsOf, FieldsOf
        <5> QED BY <1>15, <3>1, <5>1, <5>2
      <4>2. DependsOn(merged[i]) \in {DependsOn(base[a]), DependsOn(over[b])}
        BY <4>1 DEF DependsOn, At, Override
      <4> QED BY <2>1, <4>2
    <3>2. CASE base[i].id \notin IdsOf(over)
      BY <1>15, <2>1, <2>2, <3>2 DEF DependsOn
    <3> QED BY <3>1, <3>2
  <2>3. \A i \in DOMAIN merged : DOMAIN merged[i] = entries /\ IsList(DependsOn(merged[i]))
    BY <1>15, <1>18, <2>1, <2>2
  <2>4. \A m \in Range(merged) : DOMAIN m = entries /\ IsList(DependsOn(m))
    BY <2>3 DEF Range
  <2> QED BY <1>14, <2>4 DEF IsModules
<1> QED BY <1>14, <1>15, <1>16, <1>17, <1>18, <1>19

(* It is a well-shaped list of the modules that are in either.             *)
LEMMA MergedModulesFit ==
    ASSUME NEW base, NEW over, NEW from, NEW source, NEW prov,
           IsModules(base), WellShaped(base), IsModules(over), WellShaped(over),
           NEW merged, merged = MergeModules(base, over, from, source, prov).value
    PROVE  /\ IsModules(merged) /\ IdsOf(merged) = IdsOf(base) \cup IdsOf(over)
           /\ NotAList => WellShaped(merged)
<1> DEFINE new == DOMAIN merged \ DOMAIN base
<1>1. IsModules(merged) /\ merged \in Seq(Range(merged)) /\ DOMAIN base \subseteq DOMAIN merged
  BY MergedModulesAre
<1>2. \A i \in DOMAIN base : merged[i].id = base[i].id
  BY MergedModulesAre
<1>3. /\ \A i \in new : \E k \in DOMAIN over : merged[i] = over[k] /\ over[k].id \notin IdsOf(base)
      /\ \A k \in DOMAIN over : over[k].id \notin IdsOf(base) => \E i \in new : merged[i] = over[k]
  BY MergedModulesAre
<1>4. \A i, j \in new : \A k, l \in DOMAIN over : i < j /\ merged[i] = over[k] /\ merged[j] = over[l] => k < l
  BY MergedModulesAre
<1>5. /\ \A k \in DOMAIN over : over[k].id \in IdsOf(over)
      /\ \A i \in DOMAIN base : base[i].id \in IdsOf(base)
      /\ DOMAIN over \subseteq Nat
  BY DEF IsModules, WellShaped, IdsOf, Range
<1>6. IdsOf(merged) = IdsOf(base) \cup IdsOf(over)
  <2>1. \A i \in DOMAIN merged : merged[i].id \in IdsOf(base) \cup IdsOf(over)
    BY <1>1, <1>2, <1>3, <1>5
  <2>2. \A i \in DOMAIN base : base[i].id \in IdsOf(merged)
    BY <1>1, <1>2 DEF IdsOf
  <2>3. \A k \in DOMAIN over : over[k].id \in IdsOf(base) \cup IdsOf(merged)
    BY <1>3 DEF IdsOf
  <2> QED BY <2>1, <2>2, <2>3 DEF IdsOf
<1>7. ASSUME NotAList PROVE WellShaped(merged)
  <2>1. merged # BadModules
    BY <1>1, <1>7 DEF NotAList
  <2>2. NoId \notin IdsOf(merged)
    BY <1>6 DEF WellShaped
  <2>3. \A i, j \in DOMAIN merged : merged[i].id = merged[j].id => i = j
    <3> SUFFICES ASSUME NEW i \in DOMAIN merged, NEW j \in DOMAIN merged, merged[i].id = merged[j].id
                 PROVE  i = j
      OBVIOUS
    <3>1. CASE i \in DOMAIN base /\ j \in DOMAIN base
      BY <1>2, <3>1 DEF WellShaped
    <3>2. CASE i \in DOMAIN base <=> j \notin DOMAIN base
      BY <1>2, <1>3, <1>5, <3>2
    <3>3. CASE i \notin DOMAIN base /\ j \notin DOMAIN base
      <4>1. PICK k \in DOMAIN over, l \in DOMAIN over : merged[i] = over[k] /\ merged[j] = over[l]
        BY <1>3, <3>3
      <4>2. k = l
        BY <4>1 DEF WellShaped
      <4>3. (i < j => k < l) /\ (j < i => l < k) /\ i \in Nat /\ j \in Nat
        <5>1. i \in Nat /\ j \in Nat
          BY <1>1
        <5> QED BY <1>4, <3>3, <4>1, <5>1
      <4> QED BY <1>5, <4>2, <4>3
    <3> QED BY <3>1, <3>2, <3>3
  <2> QED BY <2>1, <2>2, <2>3 DEF WellShaped
<1> QED BY <1>1, <1>6, <1>7

(***************************************************************************)
(* Resolving, unfolded                                                     *)
(***************************************************************************)

FilesJob(files) == [of |-> "files", files |-> files]
ParentsJob(refs, parents) == [of |-> "parents", refs |-> refs, parents |-> parents]

Composed(files) == Solution(FilesJob(files), SUBSET Files)
ParentsLoop(refs, parents) == Solution(ParentsJob(refs, parents), 0 .. Len(refs))

LEMMA ComposedUnfolds ==
    ASSUME NEW files
    PROVE  Composed(files) = [stack \in SUBSET Files |->
                                [f \in Files |-> OneFile(files, Composed(files), stack, f)]]
<1> DEFINE job == FilesJob(files)
           R == {p \in (SUBSET Files) \X (SUBSET Files) : p[2] \subseteq p[1] /\ p[1] # p[2]}
           stacks == SUBSET Files
<1>1. \A g, x : Level(job, g, x) = [f \in Files |-> OneFile(files, g, x, f)]
  BY DEF Level, FilesJob
<1>2. ASSUME NEW x \in SUBSET Files, NEW g, NEW h, \A y \in SUBSET Files : <<y, x>> \in R => g[y] = h[y]
      PROVE  Level(job, g, x) = Level(job, h, x)
  <2>1. ASSUME NEW f \in Files PROVE OneFile(files, g, x, f) = OneFile(files, h, x, f)
    <3>1. CASE f \in x
      BY <3>1 DEF OneFile
    <3>2. CASE f \notin x
      <4>1. g[x \cup {f}] = h[x \cup {f}]
        BY <3>2, <1>2
      <4> QED BY <4>1 DEF OneFile
    <3> QED BY <3>1, <3>2
  <2> QED BY <2>1, <1>1
<1>3. Solution(job, stacks) = [x \in stacks |-> Level(job, Solution(job, stacks), x)]
  <2> HIDE DEF job
  <2>1. IsWellFoundedOn(R, stacks) /\ IsTransitivelyClosedOn(R, stacks)
    BY StacksGrow
  <2>2. \A x \in stacks : \A g, h : (\A y \in stacks : <<y, x>> \in R => g[y] = h[y]) =>
                                       Level(job, g, x) = Level(job, h, x)
    BY <1>2
  <2> HIDE DEF R, stacks
  <2> QED BY <2>1, <2>2, RecursionUnfolds
<1> QED BY <1>1, <1>3, ZenonT(60) DEF Composed

LEMMA ComposeUnfolds ==
    ASSUME NEW files, NEW file
    PROVE  ComposeExtends(files, file) = Composed(files)[{}][file]
BY DEF ComposeExtends, Composed, Solution, Level, FilesJob, OneFile

LEMMA MergedUnfolds ==
    ASSUME NEW refs, NEW parents, Len(refs) \in Nat
    PROVE  /\ MergedParents(refs, parents) = ParentsLoop(refs, parents)[Len(refs)]
           /\ ParentsLoop(refs, parents) = [i \in 0 .. Len(refs) |->
                                         OneParent(refs, parents, ParentsLoop(refs, parents), i)]
<1> DEFINE job == ParentsJob(refs, parents)
           n == Len(refs)
<1>1. \A g, x : Level(job, g, x) = OneParent(refs, parents, g, x)
  BY DEF Level, ParentsJob
<1>2. ASSUME NEW i \in 0 .. n, NEW g, NEW h, i # 0 => g[i - 1] = h[i - 1]
      PROVE  Level(job, g, i) = Level(job, h, i)
  <2>1. CASE i = 0
    BY <2>1, <1>1 DEF OneParent
  <2>2. CASE i # 0
    <3> DEFINE parent(soFar) == IF refs[i] = Outside THEN soFar ELSE parents[refs[i]]
    <3>1. \A k : OneParent(refs, parents, k, i) = AddParent(k[i - 1], refs[i], parent(k[i - 1]))
      BY <2>2 DEF OneParent
    <3> HIDE DEF job, n, parent
    <3> QED BY <1>1, <1>2, <2>2, <3>1
  <2> QED BY <2>1, <2>2
<1>3. Solution(job, 0 .. n) = [i \in 0 .. n |-> Level(job, Solution(job, 0 .. n), i)]
  <2> HIDE DEF job
  <2> QED BY <1>2, LoopUnfolds
<1>4. MergedParents(refs, parents) = ParentsLoop(refs, parents)[Len(refs)]
  BY DEF MergedParents, ParentsLoop, Solution, Level, ParentsJob, OneParent
<1> QED BY <1>1, <1>3, <1>4 DEF ParentsLoop

(***************************************************************************)
(* What resolving comes to: a document, or errors.  The commands rely on   *)
(* the errors: `cds plan` and `cds render` look at nothing else.           *)
(***************************************************************************)

\* A result that is there, or that says why it is not.
Explained(result) ==
    /\ {"ok", "doc", "prov", "errors"} \subseteq DOMAIN result
    /\ result.ok \/ result.errors # {}

Fit(result) == Explained(result) /\ (result.ok => IsMapping(result.doc))

\* A result that can be merged with another.
Mergeable(result) == result.ok /\ WellShaped(result.doc.modules)

\* What the loop over the parents begins with, and goes on with.
Beginning == From(Absent, Resolved(Absent, <<>>))
Underway(result) == Fit(result) /\ (result.ok => result.from \in Files)

LEMMA ResultsAreFit ==
    /\ \A doc, prov : Explained(Resolved(doc, prov))
    /\ \A doc, prov : IsMapping(doc) => Fit(Resolved(doc, prov))
    /\ \A code : Fit(Failed(code)) /\ ~Failed(code).ok
    /\ \A content : Explained(Load(content))
    /\ \A content : ~IsDocument(content) => Fit(Load(content)) /\ ~Load(content).ok
<1>1. \A doc, prov : Explained(Resolved(doc, prov)) /\ Resolved(doc, prov).doc = doc
  BY DEF Explained, Resolved
<1>2. \A code : Explained(Failed(code)) /\ ~Failed(code).ok
  BY DEF Explained, Failed, FailedWith
<1>3. \A content : Explained(Load(content))
  <2> HIDE DEF Explained, Resolved, Failed
  <2> QED BY <1>1, <1>2 DEF Load
<1>4. \A content : ~IsDocument(content) => \E code : Load(content) = Failed(code)
  BY DEF Load, IsDocument
<1> QED BY <1>1, <1>2, <1>3, <1>4 DEF Fit

LEMMA MergeIsExplained ==
    ASSUME NEW base, NEW over, NEW from, NEW source, NEW prov
    PROVE  Explained(MergeDocuments(base, over, from, source, prov))
BY ResultsAreFit DEF MergeDocuments, MergedDocument, Fit

LEMMA MergeIsFit ==
    ASSUME NEW base, NEW over, NEW from, NEW source, NEW prov, IsMapping(base), IsMapping(over),
           NEW result, result = MergeDocuments(base, over, from, source, prov)
    PROVE  /\ Fit(result)
           /\ result.ok <=> WellShaped(base.modules) /\ WellShaped(over.modules)
           /\ NotAList => (result.ok <=> Mergeable(result))
<1>1. CASE ~(WellShaped(base.modules) /\ WellShaped(over.modules))
  BY <1>1, ResultsAreFit DEF MergeDocuments, Mergeable
<1>2. CASE WellShaped(base.modules) /\ WellShaped(over.modules)
  <2>1. PICK sections, p :
            result = MergedDocument(sections, MergeModules(base.modules, over.modules, from, source, p))
    BY <1>2 DEF MergeDocuments
  <2> DEFINE modules == MergeModules(base.modules, over.modules, from, source, p)
  <2>2. IsModules(modules.value) /\ (NotAList => WellShaped(modules.value))
    BY <1>2, MergedModulesFit DEF IsMapping
  <2> HIDE DEF modules
  <2>3. /\ result.ok
        /\ result.doc = [extends |-> NoExtends, sections |-> sections, modules |-> modules.value]
    BY <2>1 DEF MergedDocument, Resolved, modules
  <2>4. IsMapping(result.doc) /\ result.doc.modules = modules.value
    BY <2>2, <2>3 DEF IsMapping
  <2> QED BY <1>2, <2>2, <2>3, <2>4, MergeIsExplained DEF Fit, Mergeable
<1> QED BY <1>1, <1>2

LEMMA FromKeeps ==
    ASSUME NEW result, NEW file, Explained(result)
    PROVE  /\ Explained(From(file, result)) /\ From(file, result).from = file
           /\ From(file, result).ok = result.ok /\ From(file, result).doc = result.doc
BY DEF Explained, From, Override

LEMMA BeginningIs == Beginning.ok /\ Beginning.from = Absent
<1>1. Explained(Resolved(Absent, <<>>)) /\ Resolved(Absent, <<>>).ok
  BY ResultsAreFit DEF Resolved
<1> QED BY <1>1, FromKeeps DEF Beginning

(* A parent is added if it, and what was there before, can be merged.      *)
LEMMA AddParentIsFit ==
    ASSUME NEW soFar, soFar = Beginning \/ Underway(soFar),
           NEW ref \in Files \cup {Outside}, NEW parent, ref # Outside => Fit(parent),
           NEW result, result = AddParent(soFar, ref, parent)
    PROVE  /\ Underway(result)
           /\ NotAList => (Mergeable(result) <=> /\ soFar = Beginning \/ Mergeable(soFar)
                                                 /\ ref # Outside /\ Mergeable(parent))
<1>1. CASE ~soFar.ok
  <2>1. result = soFar
    BY <1>1 DEF AddParent
  <2> QED BY <1>1, <2>1, BeginningIs DEF Mergeable
<1>2. CASE soFar.ok /\ ref = Outside
  <2>1. result = Failed("E111")
    BY <1>2 DEF AddParent
  <2> QED BY <1>2, <2>1, ResultsAreFit DEF Underway, Mergeable
<1>3. CASE soFar.ok /\ ref # Outside /\ ~parent.ok
  <2>1. result = parent
    BY <1>3 DEF AddParent
  <2> QED BY <1>3, <2>1 DEF Underway, Mergeable
<1>4. CASE soFar.ok /\ ref # Outside /\ parent.ok /\ soFar.from = Absent
  <2>1. result = From(ref, parent)
    BY <1>4 DEF AddParent
  <2>2. soFar = Beginning
    BY <1>4, ProfileFiles DEF Underway
  <2>3. Explained(parent)
    BY <1>4 DEF Fit
  <2> QED BY <1>4, <2>1, <2>2, <2>3, FromKeeps, ProfileFiles DEF Underway, Fit, Mergeable
<1>5. CASE soFar.ok /\ ref # Outside /\ parent.ok /\ soFar.from # Absent
  <2> DEFINE both == MergeDocuments(soFar.doc, parent.doc, soFar.from, ref, soFar.prov)
  <2>1. result = From(ref, both)
    BY <1>5 DEF AddParent
  <2>2. Underway(soFar) /\ IsMapping(soFar.doc) /\ IsMapping(parent.doc)
    BY <1>5, BeginningIs DEF Underway, Fit
  <2>3. /\ Fit(both)
        /\ both.ok <=> WellShaped(soFar.doc.modules) /\ WellShaped(parent.doc.modules)
        /\ NotAList => (both.ok <=> Mergeable(both))
    BY <2>2, MergeIsFit
  <2>4. soFar # Beginning
    BY <1>5, BeginningIs
  <2> HIDE DEF both
  <2>5. /\ Explained(result) /\ result.from = ref /\ result.ok = both.ok /\ result.doc = both.doc
    BY <2>1, <2>3, FromKeeps DEF Fit
  <2>6. Underway(result) /\ (Mergeable(result) <=> Mergeable(both))
    BY <1>5, <2>3, <2>5 DEF Underway, Fit, Mergeable
  <2> QED BY <1>5, <2>3, <2>4, <2>6 DEF Mergeable
<1> QED BY <1>1, <1>2, <1>3, <1>4, <1>5

LEMMA MergedParentsIsFit ==
    ASSUME NEW refs \in Seq(Files \cup {Outside}), refs # <<>>, NEW parents,
           \A ref \in Files : Fit(parents[ref])
    PROVE  /\ Underway(MergedParents(refs, parents))
           /\ NotAList => (Mergeable(MergedParents(refs, parents)) <=>
                              \A ref \in Range(refs) : ref # Outside /\ Mergeable(parents[ref]))
<1> DEFINE merged == ParentsLoop(refs, parents)
           n == Len(refs)
           All(i) == \A j \in 1 .. i : refs[j] # Outside /\ Mergeable(parents[refs[j]])
           Done(i) == IF i = 0 THEN merged[i] = Beginning
                      ELSE Underway(merged[i]) /\ (NotAList => (Mergeable(merged[i]) <=> All(i)))
           Bad == {i \in 0 .. n : ~Done(i)}
<1>1. n \in Nat /\ n # 0 /\ \A i \in 1 .. n : refs[i] \in Files \cup {Outside}
  OBVIOUS
<1>2. /\ \A i \in 0 .. n : merged[i] = OneParent(refs, parents, merged, i)
      /\ MergedParents(refs, parents) = merged[n]
  BY <1>1, MergedUnfolds
<1> HIDE DEF merged, n
<1>3. 0 \notin Bad
  BY <1>1, <1>2 DEF OneParent, Beginning
<1>4. ASSUME NEW i \in Bad PROVE i - 1 \in Bad
  <2>1. i \in 1 .. n /\ i - 1 \in 0 .. n /\ i - 1 \in Nat
    BY <1>1, <1>3
  <2>2. SUFFICES ASSUME Done(i - 1) PROVE Done(i)
    BY <2>1
  <2> DEFINE parent == IF refs[i] = Outside THEN merged[i - 1] ELSE parents[refs[i]]
             Started == merged[i - 1] = Beginning \/ Mergeable(merged[i - 1])
  <2>3. merged[i] = AddParent(merged[i - 1], refs[i], parent)
    BY <1>2, <2>1 DEF OneParent
  <2>4. merged[i - 1] = Beginning \/ Underway(merged[i - 1])
    BY <2>2
  <2>5. refs[i] \in Files \cup {Outside} /\ (refs[i] # Outside => Fit(parent) /\ parent = parents[refs[i]])
    BY <1>1, <2>1
  <2>6. NotAList => (Started <=> All(i - 1))
    <3>1. CASE i - 1 = 0
      BY <3>1, <2>2
    <3>2. CASE i - 1 # 0
      <4>1. merged[i - 1] # Beginning
        <5>1. Underway(merged[i - 1])
          BY <2>2, <3>2
        <5> QED BY <5>1, BeginningIs, ProfileFiles DEF Underway
      <4> QED BY <2>2, <3>2, <4>1
    <3> QED BY <3>1, <3>2
  <2>7. All(i) <=> All(i - 1) /\ refs[i] # Outside /\ Mergeable(parents[refs[i]])
    BY <2>1
  <2> HIDE DEF parent, All
  <2>8. /\ Underway(merged[i])
        /\ NotAList => (Mergeable(merged[i]) <=> Started /\ refs[i] # Outside /\ Mergeable(parent))
    BY <2>3, <2>4, <2>5, AddParentIsFit, ZenonT(60)
  <2> QED BY <2>1, <2>5, <2>6, <2>7, <2>8
<1>5. Bad = {}
  <2> HIDE DEF Bad
  <2>1. Bad \in SUBSET (0 .. n)
    BY DEF Bad
  <2> QED BY <1>1, <1>3, <1>4, <2>1, NoFirstRound
<1>6. Done(n)
  BY <1>1, <1>5
<1>7. All(n) <=> \A ref \in Range(refs) : ref # Outside /\ Mergeable(parents[ref])
  BY DEF Range, n
<1> QED BY <1>1, <1>2, <1>6, <1>7

LEMMA OneFileIsFit ==
    ASSUME NEW files, \A f \in Files : IsContent(files[f]), NEW below, NEW stack, NEW f \in Files,
           f \in stack \/ \A ref \in Files : Fit(below[stack \cup {f}][ref]),
           NEW result, result = OneFile(files, below, stack, f)
    PROVE  /\ Fit(result)
           /\ NotAList =>
                /\ result.ok <=>
                     /\ f \notin stack /\ IsDocument(files[f])
                     /\ files[f].extends # NoExtends =>
                          /\ files[f].extends \notin {BadExtends, <<>>}
                          /\ \A ref \in Range(files[f].extends) :
                               /\ ref # Outside /\ files[ref] # Absent
                               /\ Mergeable(below[stack \cup {f}][ref])
                          /\ WellShaped(files[f].modules)
                /\ Mergeable(result) <=> result.ok /\ WellShaped(files[f].modules)
<1> DEFINE parents == [ref \in Files |-> IF files[ref] = Absent THEN Failed("E112")
                                         ELSE below[stack \cup {f}][ref]]
           doc == files[f]
           merged == MergedParents(doc.extends, parents)
<1>1. CASE f \in stack \/ ~IsDocument(doc)
  BY <1>1, ResultsAreFit DEF OneFile, Mergeable
<1>2. CASE f \notin stack /\ IsDocument(doc)
  <2>1. \A ref \in Files :
           /\ Fit(parents[ref])
           /\ Mergeable(parents[ref]) <=> files[ref] # Absent /\ Mergeable(below[stack \cup {f}][ref])
    BY <1>2, ResultsAreFit DEF Mergeable
  <2>2. result = MergeParents(doc, f, parents) /\ IsMapping(doc)
    BY <1>2 DEF OneFile, IsContent
  <2> HIDE DEF parents
  <2>3. CASE doc.extends = NoExtends
    <3>1. result = Resolved(doc, <<>>)
      BY <2>2, <2>3 DEF MergeParents
    <3>2. result.ok /\ result.doc = doc
      BY <3>1 DEF Resolved
    <3> QED BY <1>2, <2>2, <2>3, <3>1, <3>2, ResultsAreFit DEF Mergeable
  <2>4. CASE doc.extends # NoExtends /\ doc.extends \in {BadExtends, <<>>}
    <3>1. result = Failed("E110")
      BY <2>2, <2>4 DEF MergeParents
    <3> QED BY <2>4, <3>1, ResultsAreFit DEF Mergeable
  <2>5. CASE doc.extends \notin {NoExtends, BadExtends, <<>>}
    <3>1. doc.extends \in Seq(Files \cup {Outside})
      BY <2>2, <2>5 DEF IsMapping
    <3>2. /\ Underway(merged)
          /\ NotAList => (Mergeable(merged) <=>
                            \A ref \in Range(doc.extends) : ref # Outside /\ Mergeable(parents[ref]))
      BY <2>1, <2>5, <3>1, MergedParentsIsFit
    <3>3. \A ref \in Range(doc.extends) : ref # Outside => ref \in Files
      BY <3>1 DEF Range
    <3>4. NotAList => (Mergeable(merged) <=>
                         \A ref \in Range(doc.extends) :
                             /\ ref # Outside /\ files[ref] # Absent
                             /\ Mergeable(below[stack \cup {f}][ref]))
      BY <2>1, <3>2, <3>3
    <3>5. result = Extend(doc, f, merged)
      BY <2>2, <2>5 DEF MergeParents
    <3> HIDE DEF merged
    <3>6. CASE ~merged.ok
      <4>1. result = FailedWith(merged.errors)
        BY <3>5, <3>6 DEF Extend
      <4>2. Fit(result) /\ ~result.ok
        BY <3>2, <3>6, <4>1 DEF Fit, Underway, Explained, FailedWith
      <4> QED BY <2>5, <3>4, <3>6, <4>2 DEF Mergeable
    <3>7. CASE merged.ok
      <4>1. result = MergeDocuments(merged.doc, doc, merged.from, f, merged.prov)
        BY <3>5, <3>7 DEF Extend
      <4>2. IsMapping(merged.doc)
        BY <3>2, <3>7 DEF Fit, Underway
      <4>3. /\ Fit(result)
            /\ result.ok <=> WellShaped(merged.doc.modules) /\ WellShaped(doc.modules)
            /\ NotAList => (result.ok <=> Mergeable(result))
        BY <2>2, <4>1, <4>2, MergeIsFit
      <4>4. Mergeable(merged) <=> WellShaped(merged.doc.modules)
        BY <3>7 DEF Mergeable
      <4> HIDE DEF doc
      <4>5. NotAList =>
              (result.ok <=> /\ \A ref \in Range(doc.extends) :
                                  /\ ref # Outside /\ files[ref] # Absent
                                  /\ Mergeable(below[stack \cup {f}][ref])
                             /\ WellShaped(doc.modules))
        BY <3>4, <4>3, <4>4
      <4> QED BY <1>2, <2>5, <4>3, <4>5 DEF doc
    <3> QED BY <3>6, <3>7
  <2> QED BY <2>3, <2>4, <2>5
<1> QED BY <1>1, <1>2

\* Whatever has been met on the way, there is one more to meet.
Endless(T, Bad) ==
    /\ Bad \in SUBSET (SUBSET T)
    /\ \A met \in Bad : \E x \in T : x \notin met /\ met \cup {x} \in Bad

(* What holds of a member whenever it holds of those below it, on every    *)
(* way to it that has not met it yet, holds of every member.               *)
LEMMA NoLastSet ==
    ASSUME NEW T, IsFiniteSet(T), NEW Bad, Endless(T, Bad)
    PROVE  Bad = {}
<1> DEFINE R == {p \in (SUBSET T) \X (SUBSET T) : p[2] \subseteq p[1] /\ p[1] # p[2]}
           sets == SUBSET T
<1>0. /\ Bad \in SUBSET (SUBSET T)
      /\ \A met \in Bad : \E x \in T : x \notin met /\ met \cup {x} \in Bad
  BY DEF Endless
<1>1. SUFFICES ASSUME Bad # {} PROVE FALSE
  OBVIOUS
<1>2. PICK met \in Bad : \A other \in Bad : <<other, met>> \notin R
  <2>1. IsWellFoundedOn(R, sets)
    BY SetsGrow
  <2> HIDE DEF R, sets
  <2>2. Bad \subseteq sets
    BY <1>0 DEF sets
  <2> QED BY <1>1, <2>1, <2>2, WFMin
<1>3. PICK x \in T : x \notin met /\ met \cup {x} \in Bad
  BY <1>0, <1>2
<1>4. <<met \cup {x}, met>> \in R
  BY <1>0, <1>3
<1> QED BY <1>2, <1>3, <1>4

LEMMA NoLastStack ==
    ASSUME NEW Bad \in SUBSET (SUBSET Files),
           \A stack \in Bad : \E f \in Files : f \notin stack /\ stack \cup {f} \in Bad
    PROVE  Bad = {}
<1>1. Endless(Files, Bad)
  BY DEF Endless
<1> QED BY <1>1, ProfileFiles, NoLastSet

LEMMA ComposedIsFit ==
    ASSUME NEW files, \A f \in Files : IsContent(files[f])
    PROVE  \A stack \in SUBSET Files : \A f \in Files : Fit(Composed(files)[stack][f])
<1> DEFINE composed == Composed(files)
           Bad == {stack \in SUBSET Files : \E f \in Files : ~Fit(composed[stack][f])}
<1>1. \A stack \in SUBSET Files : \A f \in Files : composed[stack][f] = OneFile(files, composed, stack, f)
  BY ComposedUnfolds
<1> HIDE DEF composed
<1>2. ASSUME NEW stack \in Bad PROVE \E f \in Files : f \notin stack /\ stack \cup {f} \in Bad
  <2>1. PICK f \in Files : ~Fit(composed[stack][f])
    OBVIOUS
  <2>2. ~Fit(OneFile(files, composed, stack, f))
    BY <1>1, <2>1
  <2>3. f \notin stack /\ ~ \A ref \in Files : Fit(composed[stack \cup {f}][ref])
    BY <2>2, OneFileIsFit
  <2> QED BY <2>3
<1>3. Bad = {}
  <2> HIDE DEF Bad
  <2>1. Bad \in SUBSET (SUBSET Files)
    BY DEF Bad
  <2> QED BY <1>2, <2>1, NoLastStack
<1> QED BY <1>3 DEF composed

LEMMA ComposeIsFit ==
    ASSUME NEW files, \A f \in Files : IsContent(files[f]), NEW file \in Files
    PROVE  Fit(ComposeExtends(files, file))
BY ComposedIsFit, ComposeUnfolds

(* However the files refer to each other, whatever is missing or malformed *)
(* among them, and whatever environment is chosen.                         *)
LEMMA FailuresExplained ==
    ASSUME NEW files, \A f \in Files : IsContent(files[f]), NEW file \in Files, NEW overlay
    PROVE  Explained(Resolve(files, file, overlay))
<1>1. Explained(ComposeExtends(files, file))
  BY ComposeIsFit DEF Fit
<1> QED BY <1>1, ResultsAreFit, MergeIsExplained DEF Resolve, ApplyEnvironment, Fit

(***************************************************************************)
(* The files                                                               *)
(***************************************************************************)

LEMMA ResolvedIsFit ==
    ASSUME NEW files, \A f \in Files : IsContent(files[f]), NEW file \in Files,
           NEW overlay \in Files \cup {Absent, Outside}
    PROVE  Fit(Resolve(files, file, overlay))
<1> DEFINE base == ComposeExtends(files, file)
<1>1. Fit(base) /\ Resolve(files, file, overlay) = ApplyEnvironment(files, file, base, overlay)
  BY ComposeIsFit DEF Resolve
<1> HIDE DEF base
<1>2. CASE ~base.ok \/ overlay \in {Absent, Outside}
  BY <1>1, <1>2, ResultsAreFit DEF ApplyEnvironment
<1>3. CASE base.ok /\ overlay \notin {Absent, Outside}
  <2>1. overlay \in Files
    BY <1>3
  <2>2. CASE ~IsDocument(files[overlay])
    BY <1>1, <1>3, <2>2, ResultsAreFit DEF ApplyEnvironment, IsDocument
  <2>3. CASE IsDocument(files[overlay])
    <3>1. Resolve(files, file, overlay) = MergeDocuments(base.doc, files[overlay], file, overlay, base.prov)
      BY <1>1, <1>3, <2>3 DEF ApplyEnvironment, IsDocument
    <3>2. IsMapping(base.doc) /\ IsMapping(files[overlay])
      BY <1>1, <1>3, <2>1, <2>3 DEF Fit, IsContent
    <3> QED BY <3>1, <3>2, MergeIsFit
  <2> QED BY <2>2, <2>3
<1> QED BY <1>2, <1>3

LEMMA ListIsFinite ==
    ASSUME NEW seq, IsList(seq)
    PROVE  IsFiniteSet(Range(seq))
<1>1. seq \in Surjection(1 .. Len(seq), Range(seq)) /\ Len(seq) \in Nat
  BY DEF IsList, Surjection, Range
<1>2. IsFiniteSet(1 .. Len(seq))
  BY <1>1, FS_Interval
<1> QED BY <1>1, <1>2, FS_Surjection

LEMMA SetToSeqIsList ==
    ASSUME NEW S, IsFiniteSet(S)
    PROVE  IsList(SetToSeq(S)) /\ Range(SetToSeq(S)) \subseteq S
<1>1. Cardinality(S) \in Nat /\ ExistsBijection(1 .. Cardinality(S), S)
  BY FS_CardinalityType
<1>2. \E f \in [1 .. Cardinality(S) -> S] : IsInjective(f)
  BY <1>1 DEF ExistsBijection, Bijection, Injection
<1>3. SetToSeq(S) \in [1 .. Cardinality(S) -> S]
  BY <1>2 DEF SetToSeq
<1>4. SetToSeq(S) \in Seq(S)
  BY <1>1, <1>3
<1> QED BY <1>4, SequenceOfRange DEF IsList

\* A list of modules with one of them changed, or one more.
LEMMA ChangedIsModules ==
    ASSUME NEW modules, IsModules(modules), modules # BadModules,
           NEW fields, IsList(At(fields, "dependsOn", <<>>))
    PROVE  /\ \A i \in DOMAIN modules : IsModules([modules EXCEPT ![i].fields = fields])
           /\ \A id : IsModules(Append(modules, [id |-> id, fields |-> fields]))
<1> DEFINE entries == {"id", "fields"}
           Fine(m) == DOMAIN m = entries /\ IsList(DependsOn(m))
<1>1. modules \in Seq(Range(modules)) /\ \A m \in Range(modules) : Fine(m)
  BY DEF IsModules
<1>2. ASSUME NEW T, NEW seq \in Seq(T), \A m \in T : Fine(m) PROVE IsModules(seq)
  BY <1>2, SequenceOfRange DEF IsModules
<1>3. \A i \in DOMAIN modules : DOMAIN modules[i] = entries
  BY <1>1 DEF Range
<1>4. ASSUME NEW i \in DOMAIN modules PROVE IsModules([modules EXCEPT ![i].fields = fields])
  <2> DEFINE new == [modules[i] EXCEPT !.fields = fields]
             T == Range(modules) \cup {new}
  <2>1. [modules EXCEPT ![i].fields = fields] = [modules EXCEPT ![i] = new]
    OBVIOUS
  <2>2. Fine(new)
    <3>1. DOMAIN new = entries /\ new.fields = fields
      BY <1>3
    <3> QED BY <3>1 DEF DependsOn
  <2> HIDE DEF new, Fine
  <2>3. [modules EXCEPT ![i] = new] \in Seq(T)
    BY <1>1
  <2>4. \A m \in T : Fine(m)
    BY <1>1, <2>2
  <2>5. IsModules([modules EXCEPT ![i] = new])
    <3> HIDE DEF T
    <3> QED BY <1>2, <2>3, <2>4
  <2> QED BY <2>1, <2>5
<1>5. ASSUME NEW id PROVE IsModules(Append(modules, [id |-> id, fields |-> fields]))
  <2> DEFINE new == [id |-> id, fields |-> fields]
             T == Range(modules) \cup {new}
  <2>1. Fine(new)
    BY DEF DependsOn
  <2> HIDE DEF new, Fine
  <2>2. Append(modules, new) \in Seq(T)
    BY <1>1
  <2>3. IsModules(Append(modules, new))
    BY <1>1, <1>2, <2>1, <2>2
  <2> QED BY <2>3 DEF new
<1> QED BY <1>4, <1>5

\* A profile and what compose-profile makes of it: the module that it adds, and
\* the reference that it chose for each of the module's consume entries.
Composes(doc, request, composed, module, ref) ==
    LET consumes == Range(Catalog[request.source].consumes)
    IN /\ DOMAIN composed = DOMAIN doc /\ composed.extends = doc.extends
       /\ composed.modules = Append(doc.modules, module)
       /\ module = [id |-> module.id, fields |-> module.fields]
       /\ \A s \in {"metadata", "waiver"} : Section(composed, s) = Section(doc, s)
       /\ DOMAIN SecretValues(doc) \subseteq DOMAIN SecretValues(composed)
       /\ module.id \notin IdsOf(doc.modules) \cup {NoId}
       /\ RequiredFields \subseteq DOMAIN module.fields
       /\ SourceOf(module) = request.source /\ IsEnabled(module) = request.enabled
       /\ IsList(DependsOn(module))
       /\ \A d \in Range(DependsOn(module)) :
             d \in Range(request.dependsOn) \/ \E c \in consumes : ref[c] # NoRef /\ d = ref[c][1]
       /\ SecretAliases(ConfigOf(module)) \subseteq DOMAIN SecretValues(composed)
       /\ \A c \in consumes :
             /\ Choose(c, request, Providers(doc)).errors = {}
             /\ ref[c] = Choose(c, request, Providers(doc)).ref
             /\ (\A d \in consumes : d.from = c.from => d = c) /\ At(request.config, c.from, Blank) = Blank =>
                   At(ConfigOf(module), c.from, Blank) = (IF ref[c] = NoRef THEN Blank ELSE Binding(ref[c]))

LEMMA ComposedIs ==
    ASSUME NEW doc, IsMapping(doc), doc.modules # BadModules,
           NEW request \in Requests, ComposeProfile(doc, request).ok
    PROVE  \E module, ref : Composes(doc, request, ComposeProfile(doc, request).doc, module, ref)
<1>1. \A errors : ~NotComposed(errors).ok
  BY DEF NotComposed
<1> DEFINE id == IF request.id # NoId THEN request.id
                 ELSE At(At(Catalog, request.source, Nothing), "name", NoId)
           def == Catalog[request.source]
           consumes == Range(def.consumes)
           choice == [c \in consumes |-> Choose(c, request, Providers(doc))]
           chosen == {c \in consumes : choice[c].ref # NoRef}
           depends == Range(request.dependsOn) \cup {choice[c].ref[1] : c \in chosen}
           bound == [p \in {c.from : c \in chosen} |->
                        Binding(choice[CHOOSE c \in chosen : c.from = p].ref)]
           config == Override(request.config, bound)
           new == SecretAliases(config) \ DOMAIN SecretValues(doc)
           secrets == Override(SecretValues(doc),
                               [a \in new |-> [env |-> request.secretEnvs[a], required |-> TRUE]])
           composed == ComposeProfile(doc, request).doc
<1>2. /\ RequestErrors(doc, request, id) = {}
      /\ \A c \in consumes : choice[c].errors = {}
      /\ composed = WithModule(doc, id, request, config, depends, secrets)
  <2> HIDE DEF Range, Binding, Choose, Providers, Override
  <2> QED BY <1>1, ZenonT(60) DEF ComposeProfile
<1>3. \A c \in consumes : choice[c] = Choose(c, request, Providers(doc))
  OBVIOUS
<1>4. depends = Range(request.dependsOn) \cup {choice[c].ref[1] : c \in chosen}
  OBVIOUS
<1>5. DOMAIN bound = {c.from : c \in chosen}
  OBVIOUS
<1>6. \A c \in chosen : (\A d \in consumes : d.from = c.from => d = c) => bound[c.from] = Binding(choice[c].ref)
  <2> SUFFICES ASSUME NEW c \in chosen, \A d \in consumes : d.from = c.from => d = c
               PROVE  bound[c.from] = Binding(choice[c].ref)
    OBVIOUS
  <2>1. c = CHOOSE d \in chosen : d.from = c.from
    <3>1. \A d \in chosen : d.from = c.from => d = c
      OBVIOUS
    <3> HIDE DEF chosen
    <3> QED BY <3>1
  <2> HIDE DEF choice, chosen, consumes
  <2> QED BY <1>5, <2>1
<1>7. DOMAIN secrets = DOMAIN SecretValues(doc) \cup SecretAliases(config)
  <2> HIDE DEF config
  <2> QED BY DEF Override
<1> HIDE DEF id, choice, secrets, depends, bound, composed, new
<1>8. IsList(def.consumes) /\ \A c \in consumes : c.from \in ConfigPaths
  <2>1. SourceErrors(request.source) = {}
    BY <1>2 DEF RequestErrors
  <2>2. At(Catalog, request.source, Absent) \notin {Absent, Unreadable}
    BY <2>1 DEF SourceErrors
  <2>3. def \in Range(Catalog) \ {Absent, Unreadable}
    BY <2>2 DEF At, Range
  <2> QED BY <2>3, Contents
<1>9. id # NoId /\ id \notin IdsOf(doc.modules)
  BY <1>2 DEF RequestErrors
<1> HIDE DEF def, consumes
<1>10. IsFiniteSet(depends)
  <2>1. IsFiniteSet(chosen)
    <3>1. IsFiniteSet(consumes)
      BY <1>8, ListIsFinite DEF consumes
    <3> QED BY <3>1, FS_Subset
  <2> HIDE DEF chosen
  <2> DEFINE first == [c \in chosen |-> choice[c].ref[1]]
             firsts == {choice[c].ref[1] : c \in chosen}
  <2>2. first \in Surjection(chosen, firsts)
    BY DEF Surjection
  <2>3. IsFiniteSet(firsts)
    <3> HIDE DEF first, firsts
    <3> QED BY <2>1, <2>2, FS_Surjection
  <2>4. IsFiniteSet(Range(request.dependsOn))
    BY ListIsFinite, Contents
  <2> HIDE DEF firsts
  <2>5. IsFiniteSet(Range(request.dependsOn) \cup firsts)
    BY <2>3, <2>4, FS_Union
  <2> QED BY <1>4, <2>5 DEF firsts
<1>11. DOMAIN config \subseteq ConfigPaths
  <2>1. DOMAIN config = DOMAIN request.config \cup DOMAIN bound
    BY DEF Override
  <2>2. DOMAIN bound \subseteq ConfigPaths
    BY <1>5, <1>8
  <2> QED BY <2>1, <2>2, Contents
<1>12. \A p \in DOMAIN bound : config[p] = bound[p]
  BY DEF Override
<1>13. \A p \in DOMAIN request.config \ DOMAIN bound : config[p] = request.config[p]
  BY DEF Override
<1>14. DOMAIN config = DOMAIN request.config \cup DOMAIN bound
  BY DEF Override
<1> HIDE DEF config
<1> DEFINE basic == [f \in {"source", "enabled"} |->
                        IF f = "source" THEN request.source ELSE request.enabled]
           links == [f \in {g \in {"dependsOn"} : depends # {}} |-> SetToSeq(depends)]
           fields == Override(Override(config, basic), links)
           block == [s \in {t \in {"secrets"} : secrets # Nothing} |-> secrets]
           sections == Override(doc.sections, block)
           module == [id |-> id, fields |-> fields]
<1>15. composed = [doc EXCEPT !.modules = Append(@, module), !.sections = sections]
  BY <1>2 DEF WithModule
<1>16. /\ composed.modules = Append(doc.modules, module) /\ composed.extends = doc.extends
       /\ composed.sections = sections /\ DOMAIN composed = DOMAIN doc
  <2> HIDE DEF module, sections
  <2> QED BY <1>15 DEF IsMapping
<1>17. /\ \A s \in {"metadata", "waiver"} : Section(composed, s) = Section(doc, s)
       /\ DOMAIN SecretValues(composed) = DOMAIN SecretValues(doc) \cup SecretAliases(config)
  <2>1. DOMAIN block \subseteq {"secrets"} /\ (secrets # Nothing => "secrets" \in DOMAIN block /\ block["secrets"] = secrets)
        /\ (secrets = Nothing => DOMAIN block = {})
    OBVIOUS
  <2> HIDE DEF block
  <2>2. /\ DOMAIN sections = DOMAIN doc.sections \cup DOMAIN block
        /\ \A s \in DOMAIN block : sections[s] = block[s]
        /\ \A s \in DOMAIN doc.sections \ DOMAIN block : sections[s] = doc.sections[s]
    BY DEF Override
  <2> HIDE DEF sections
  <2>3. \A s \in {"metadata", "waiver"} : Section(composed, s) = Section(doc, s)
    BY <1>16, <2>1, <2>2 DEF Section, At
  <2>4. CASE secrets # Nothing
    BY <1>7, <1>16, <2>1, <2>2, <2>4 DEF SecretValues, Section, At
  <2>5. CASE secrets = Nothing
    <3>1. DOMAIN secrets = {}
      BY <2>5 DEF Nothing
    <3>2. SecretValues(composed) = SecretValues(doc)
      BY <1>16, <2>1, <2>2, <2>5 DEF SecretValues, Section, At
    <3>3. DOMAIN SecretValues(doc) = {} /\ SecretAliases(config) = {}
      BY <1>7, <3>1
    <3>4. DOMAIN SecretValues(composed) = DOMAIN SecretValues(doc)
      BY <3>2
    <3> QED BY <2>3, <3>3, <3>4
  <2> QED BY <2>3, <2>4, <2>5
<1>18. /\ {"source", "enabled"} \subseteq DOMAIN fields
       /\ fields["source"] = request.source /\ fields["enabled"] = request.enabled
       /\ IsList(At(fields, "dependsOn", <<>>)) /\ Range(At(fields, "dependsOn", <<>>)) \subseteq depends
       /\ \A p \in ConfigPaths : p \in DOMAIN fields <=> p \in DOMAIN config
       /\ \A p \in DOMAIN config : fields[p] = config[p]
  <2>1. DOMAIN basic = {"source", "enabled"} /\ basic["source"] = request.source /\ basic["enabled"] = request.enabled
    OBVIOUS
  <2>2. DOMAIN links \subseteq {"dependsOn"} /\ \A f \in DOMAIN links : links[f] = SetToSeq(depends)
    OBVIOUS
  <2> HIDE DEF basic, links
  <2>3. DOMAIN fields = DOMAIN config \cup DOMAIN basic \cup DOMAIN links
    BY DEF Override
  <2>4. /\ \A f \in DOMAIN links : fields[f] = links[f]
        /\ \A f \in DOMAIN basic \ DOMAIN links : fields[f] = basic[f]
        /\ \A f \in DOMAIN config \ (DOMAIN basic \cup DOMAIN links) : fields[f] = config[f]
    BY DEF Override
  <2> HIDE DEF fields
  <2>5. {"source", "enabled", "dependsOn"} \cap ConfigPaths = {}
    BY Contents
  <2>6. IsList(At(fields, "dependsOn", <<>>)) /\ Range(At(fields, "dependsOn", <<>>)) \subseteq depends
    <3>1. IsList(<<>>) /\ Range(<<>>) = {}
      BY DEF IsList, Range
    <3>2. IsList(SetToSeq(depends)) /\ Range(SetToSeq(depends)) \subseteq depends
      BY <1>10, SetToSeqIsList
    <3>3. At(fields, "dependsOn", <<>>) \in {<<>>, SetToSeq(depends)}
      BY <1>11, <2>1, <2>2, <2>3, <2>4, <2>5 DEF At
    <3> QED BY <3>1, <3>2, <3>3
  <2> QED BY <1>11, <2>1, <2>2, <2>3, <2>4, <2>5, <2>6
<1> HIDE DEF fields
<1>19. /\ SourceOf(module) = request.source /\ IsEnabled(module) = request.enabled
       /\ IsList(DependsOn(module)) /\ Range(DependsOn(module)) \subseteq depends
       /\ RequiredFields \subseteq DOMAIN module.fields
  BY <1>18 DEF SourceOf, IsEnabled, DependsOn, At, RequiredFields
<1>20. ConfigOf(module) = [p \in DOMAIN config |-> config[p]]
  <2>1. DOMAIN fields \cap ConfigPaths = DOMAIN config
    BY <1>11, <1>18
  <2>2. ConfigOf(module) = [p \in DOMAIN fields \cap ConfigPaths |-> fields[p]]
    BY DEF ConfigOf
  <2> QED BY <1>18, <2>1, <2>2
<1>21. SecretAliases(ConfigOf(module)) = SecretAliases(config)
  BY <1>20 DEF SecretAliases
<1> DEFINE ref == [c \in consumes |-> choice[c].ref]
<1>22. ASSUME NEW c \in consumes, \A d \in consumes : d.from = c.from => d = c,
              At(request.config, c.from, Blank) = Blank
       PROVE  At(ConfigOf(module), c.from, Blank) = IF ref[c] = NoRef THEN Blank ELSE Binding(ref[c])
  <2>1. DOMAIN ConfigOf(module) = DOMAIN config /\ \A p \in DOMAIN config : ConfigOf(module)[p] = config[p]
    BY <1>20
  <2> HIDE DEF module
  <2>2. CASE c \in chosen
    <3>1. c.from \in DOMAIN bound /\ bound[c.from] = Binding(ref[c]) /\ ref[c] # NoRef
      BY <1>5, <1>6, <1>22, <2>2
    <3> HIDE DEF chosen, ref
    <3> QED BY <1>12, <1>14, <2>1, <3>1 DEF At
  <2>3. CASE c \notin chosen
    <3>1. c.from \notin DOMAIN bound
      BY <1>5, <1>22, <2>3
    <3>2. ref[c] = NoRef
      BY <2>3
    <3> HIDE DEF chosen, ref
    <3> QED BY <1>13, <1>14, <1>22, <2>1, <3>1, <3>2 DEF At
  <2> QED BY <2>2, <2>3
<1>23. \A d \in Range(DependsOn(module)) :
            d \in Range(request.dependsOn) \/ \E c \in consumes : ref[c] # NoRef /\ d = ref[c][1]
  BY <1>4, <1>19
<1>24. \A c \in consumes : /\ Choose(c, request, Providers(doc)).errors = {}
                           /\ ref[c] = Choose(c, request, Providers(doc)).ref
  BY <1>2, <1>3
<1>25. module.id = id /\ module = [id |-> module.id, fields |-> module.fields]
  OBVIOUS
<1> HIDE DEF module, ref
<1>26. Composes(doc, request, composed, module, ref)
  BY <1>9, <1>16, <1>17, <1>19, <1>21, <1>22, <1>23, <1>24, <1>25 DEF Composes, consumes, def
<1> QED BY <1>26 DEF composed

LEMMA ComposedIsMapping ==
    ASSUME NEW doc, IsMapping(doc), doc.modules # BadModules,
           NEW request \in Requests, ComposeProfile(doc, request).ok
    PROVE  IsMapping(ComposeProfile(doc, request).doc)
<1> DEFINE composed == ComposeProfile(doc, request).doc
<1>1. PICK module, ref : Composes(doc, request, composed, module, ref)
  BY ComposedIs
<1> HIDE DEF composed
<1>2. /\ DOMAIN composed = DOMAIN doc /\ composed.extends = doc.extends
      /\ composed.modules = Append(doc.modules, module)
      /\ module = [id |-> module.id, fields |-> module.fields] /\ IsList(At(module.fields, "dependsOn", <<>>))
  BY <1>1 DEF Composes, DependsOn
<1>3. IsModules(composed.modules)
  BY <1>2, ChangedIsModules DEF IsMapping
<1> QED BY <1>2, <1>3 DEF IsMapping, composed

LEMMA SaveContent ==
    ASSUME TypeOK, NEW file, NEW content, file \in Files => IsContent(content), Save(file, content)
    PROVE  TypeOK'
BY Contents DEF TypeOK, Save

LEMMA EditedIsContent ==
    ASSUME NEW doc, IsDocument(doc), IsContent(doc)
    PROVE  /\ doc.modules # BadModules =>
                 \A id, key, value : (key = "dependsOn" /\ value # Absent => IsList(value)) =>
                     IsContent([doc EXCEPT !.modules = WithModuleField(@, id, key, value)])
           /\ \A sections : IsContent([doc EXCEPT !.sections = sections])
           /\ \A extends \in {NoExtends, BadExtends} \cup Seq(Files \cup {Outside}) :
                 IsContent([doc EXCEPT !.extends = extends])
<1>1. IsMapping(doc)
  BY DEF IsContent
<1>2. ASSUME doc.modules # BadModules, NEW id, NEW key, NEW value,
             key = "dependsOn" /\ value # Absent => IsList(value)
      PROVE  IsModules(WithModuleField(doc.modules, id, key, value))
  <2>1. ASSUME NEW mapping, IsList(At(mapping, "dependsOn", <<>>))
        PROVE  IsList(At(WithField(mapping, key, value), "dependsOn", <<>>))
    <3>1. CASE value = Absent
      <4>1. At(WithField(mapping, key, value), "dependsOn", <<>>) \in {At(mapping, "dependsOn", <<>>), <<>>}
        BY <3>1 DEF At, WithField
      <4>2. IsList(<<>>)
        BY DEF IsList, Range
      <4> QED BY <2>1, <4>1, <4>2
    <3>2. CASE value # Absent
      <4>1. At(WithField(mapping, key, value), "dependsOn", <<>>) =
                IF key = "dependsOn" THEN value ELSE At(mapping, "dependsOn", <<>>)
        BY <3>2 DEF At, WithField, Put, Override
      <4> QED BY <1>2, <2>1, <3>2, <4>1
    <3> QED BY <3>1, <3>2
  <2>2. CASE id \in IdsOf(doc.modules)
    <3> DEFINE i == IndexOf(doc.modules, id)
               fields == WithField(doc.modules[i].fields, key, value)
    <3>1. i \in DOMAIN doc.modules
      BY <2>2 DEF IndexOf, IdsOf
    <3>2. WithModuleField(doc.modules, id, key, value) = [doc.modules EXCEPT ![i].fields = fields]
      BY <2>2, <3>1 DEF WithModuleField
    <3>3. IsModules(doc.modules) /\ IsList(At(doc.modules[i].fields, "dependsOn", <<>>))
      <4>1. IsModules(doc.modules) /\ doc.modules[i] \in Range(doc.modules)
        BY <1>1, <3>1 DEF IsMapping, Range
      <4> QED BY <1>2, <4>1 DEF IsModules, DependsOn
    <3>4. IsList(At(fields, "dependsOn", <<>>))
      BY <2>1, <3>3
    <3> HIDE DEF i, fields
    <3> QED BY <1>2, <3>1, <3>2, <3>3, <3>4, ChangedIsModules
  <2>3. CASE id \notin IdsOf(doc.modules)
    <3> DEFINE fields == WithField(Nothing, key, value)
    <3>1. WithModuleField(doc.modules, id, key, value) = Append(doc.modules, [id |-> id, fields |-> fields])
      BY <2>3 DEF WithModuleField
    <3>2. At(Nothing, "dependsOn", <<>>) = <<>>
      BY DEF At, Nothing
    <3>3. IsList(At(Nothing, "dependsOn", <<>>))
      <4>1. IsList(<<>>)
        BY DEF IsList, Range
      <4> QED BY <3>2, <4>1
    <3>4. IsList(At(fields, "dependsOn", <<>>))
      BY <2>1, <3>3
    <3> HIDE DEF fields
    <3> QED BY <1>1, <1>2, <3>1, <3>4, ChangedIsModules DEF IsMapping
  <2> QED BY <2>2, <2>3
<1>3. \A modules : IsModules(modules) => IsMapping([doc EXCEPT !.modules = modules])
  BY <1>1 DEF IsMapping
<1>4. \A sections : IsMapping([doc EXCEPT !.sections = sections])
  BY <1>1 DEF IsMapping
<1>5. \A extends \in {NoExtends, BadExtends} \cup Seq(Files \cup {Outside}) :
          IsMapping([doc EXCEPT !.extends = extends])
  BY <1>1 DEF IsMapping
<1> QED BY <1>2, <1>3, <1>4, <1>5 DEF IsContent

LEMMA TypesStep ==
    ASSUME TypeOK, Next
    PROVE  TypeOK'
<1>1. CASE EditModule
  <2>1. PICK e \in FieldEdits :
            /\ IsDocument(disk[e[1]]) /\ disk[e[1]].modules # BadModules
            /\ Save(e[1], [disk[e[1]] EXCEPT !.modules = WithModuleField(@, e[2], e[3], e[4])])
    BY <1>1 DEF EditModule
  <2>2. e[3] = "dependsOn" /\ e[4] # Absent => IsList(e[4])
    BY Contents
  <2> QED BY <2>1, <2>2, SaveContent, EditedIsContent DEF TypeOK
<1>2. CASE EditSection
  <2>1. PICK e, sections :
            /\ e \in SectionEdits
            /\ IsDocument(disk[e[1]])
            /\ Save(e[1], [disk[e[1]] EXCEPT !.sections = sections])
    BY <1>2 DEF EditSection
  <2> QED BY <2>1, SaveContent, EditedIsContent DEF TypeOK
<1>3. CASE EditExtends
  <2>1. PICK e \in ExtendsEdits :
            IsDocument(disk[e[1]]) /\ Save(e[1], [disk[e[1]] EXCEPT !.extends = e[2]])
    BY <1>3 DEF EditExtends
  <2> QED BY <2>1, SaveContent, EditedIsContent, Contents DEF TypeOK
<1>4. CASE ReplaceFile \/ GenerateProfile
  BY <1>4, SaveContent, Contents DEF ReplaceFile, GenerateProfile
<1>5. CASE ComposeModule
  <2>1. PICK request \in Requests, target \in {Profile, Copy} :
            /\ Resolve(disk, Profile, Absent).ok
            /\ Resolve(disk, Profile, Absent).doc.modules # BadModules
            /\ ComposeProfile(Resolve(disk, Profile, Absent).doc, request).ok
            /\ Save(target, ComposeProfile(Resolve(disk, Profile, Absent).doc, request).doc)
    BY <1>5 DEF ComposeModule, SaveComposed
  <2>2. IsMapping(Resolve(disk, Profile, Absent).doc)
    BY <2>1, ResolvedIsFit, Contents DEF TypeOK, Fit
  <2>3. IsMapping(ComposeProfile(Resolve(disk, Profile, Absent).doc, request).doc)
    BY <2>1, <2>2, ComposedIsMapping
  <2>4. IsContent(ComposeProfile(Resolve(disk, Profile, Absent).doc, request).doc)
    BY <2>3 DEF IsContent
  <2> QED BY <2>1, <2>4, SaveContent
<1> QED BY <1>1, <1>2, <1>3, <1>4, <1>5 DEF Next

(* Edited by hand or by the commands, a file stays a document.             *)
THEOREM FilesStayDocuments == Spec => []TypeOK
<1>1. Init => TypeOK
  BY Contents DEF Init, TypeOK
<1>2. TypeOK /\ [Next]_vars => TypeOK'
  BY TypesStep DEF vars, TypeOK
<1> QED BY <1>1, <1>2, PTL DEF Spec

(***************************************************************************)
(* What is planned for an environment without errors was valid in the very *)
(* look that the plan was made from: a resolution that fails says why, and *)
(* so does a document that is not valid.                                   *)
(***************************************************************************)
LEMMA PlannedWasResolved ==
    ASSUME TypeOK, NEW overlay, NEW options, BuildPlan(disk, Profile, overlay, options).errors = {}
    PROVE  Resolve(disk, Profile, overlay).ok
<1> DEFINE resolved == Resolve(disk, Profile, overlay)
<1>1. Explained(resolved)
  BY FailuresExplained, Contents DEF TypeOK
<1>2. \A errors : NoPlan(errors).errors = errors
  BY DEF NoPlan
<1>3. PlanResolved(resolved, overlay, options).errors = {}
  BY DEF BuildPlan
<1> HIDE DEF resolved
<1>4. SUFFICES ASSUME ~resolved.ok PROVE FALSE
  BY DEF resolved
<1>5. At1(resolved.errors, "profile") = {}
  BY <1>2, <1>3, <1>4 DEF PlanResolved
<1> QED BY <1>1, <1>4, <1>5 DEF Explained, At1

LEMMA PlannedWasValid ==
    ASSUME TypeOK, NEW overlay, overlay # Absent, NEW options,
           BuildPlan(disk, Profile, overlay, options).errors = {}
    PROVE  Validate(Resolve(disk, Profile, overlay).doc) = {}
<1> DEFINE resolved == Resolve(disk, Profile, overlay)
<1>1. \A errors : NoPlan(errors).errors = errors
  BY DEF NoPlan
<1>2. PlanResolved(resolved, overlay, options).errors = {} /\ resolved.ok
  BY PlannedWasResolved DEF BuildPlan
<1> HIDE DEF resolved
<1>3. Validate(resolved.doc) = {}
  BY <1>1, <1>2 DEF PlanResolved
<1> QED BY <1>3 DEF resolved

(***************************************************************************)
(* Which profiles resolve                                                  *)
(***************************************************************************)

LEMMA ParentsAreFiles ==
    ASSUME TypeOK, NEW f \in Files
    PROVE  /\ Parents(f) \subseteq Files
           /\ IsDocument(disk[f]) /\ disk[f].extends = NoExtends => Parents(f) = {}
           /\ IsDocument(disk[f]) /\ disk[f].extends \notin {NoExtends, BadExtends} =>
                 /\ disk[f].extends \in Seq(Files \cup {Outside})
                 /\ Parents(f) = Range(disk[f].extends) \ {Outside}
<1>1. CASE ~IsDocument(disk[f]) \/ disk[f].extends \in {NoExtends, BadExtends}
  BY <1>1 DEF Parents
<1>2. CASE IsDocument(disk[f]) /\ disk[f].extends \notin {NoExtends, BadExtends}
  <2>1. disk[f].extends \in Seq(Files \cup {Outside})
    BY <1>2 DEF TypeOK, IsContent, IsMapping
  <2>2. Range(disk[f].extends) \subseteq Files \cup {Outside}
    BY <2>1, SequenceOfRange
  <2> QED BY <1>2, <2>1, <2>2 DEF Parents
<1> QED BY <1>1, <1>2

(* A file, and the ancestry of what it extends.                            *)
LEMMA AncestryUnfolds ==
    ASSUME TypeOK, NEW f \in Files
    PROVE  /\ Ancestry(f) \subseteq Files /\ f \in Ancestry(f)
           /\ \A g \in Ancestry(f) : Ancestry(g) \subseteq Ancestry(f)
           /\ Ancestry(f) = {f} \cup UNION {Ancestry(g) : g \in Parents(f)}
<1> DEFINE Closed(S) == \A g \in S : Parents(g) \subseteq S
<1>1. ASSUME NEW x \in Files, NEW S \in SUBSET Files, x \in S, Closed(S) PROVE Ancestry(x) \subseteq S
  BY <1>1 DEF Ancestry
<1>2. ASSUME NEW x \in Files PROVE Ancestry(x) \in SUBSET Files /\ x \in Ancestry(x)
  BY DEF Ancestry
<1>3. ASSUME NEW x \in Files PROVE Closed(Ancestry(x))
  <2> SUFFICES ASSUME NEW g \in Ancestry(x), NEW h \in Parents(g) PROVE h \in Ancestry(x)
    OBVIOUS
  <2>1. g \in Files /\ h \in Files
    BY <1>2, ParentsAreFiles
  <2>2. ASSUME NEW S \in SUBSET Files, x \in S, \A y \in S : Parents(y) \subseteq S PROVE h \in S
    BY <2>2 DEF Ancestry
  <2> QED BY <2>1, <2>2 DEF Ancestry
<1>4. ASSUME NEW x \in Files, NEW g \in Ancestry(x) PROVE Ancestry(g) \subseteq Ancestry(x)
  <2>1. g \in Files
    BY <1>2
  <2> HIDE DEF Closed
  <2> QED BY <1>1, <1>2, <1>3, <2>1
<1> DEFINE T == {f} \cup UNION {Ancestry(g) : g \in Parents(f)}
<1>5. T \subseteq Ancestry(f)
  BY <1>2, <1>3, <1>4
<1>6. Ancestry(f) \subseteq T
  <2>1. T \in SUBSET Files /\ f \in T
    BY <1>2, ParentsAreFiles
  <2>2. ASSUME NEW g \in T PROVE Parents(g) \subseteq T
    <3>1. CASE g = f
      <4>1. \A h \in Parents(f) : h \in Ancestry(h)
        BY <1>2, ParentsAreFiles
      <4> QED BY <3>1, <4>1
    <3>2. CASE g # f
      <4>1. PICK h \in Parents(f) : g \in Ancestry(h)
        BY <3>2
      <4>2. Parents(g) \subseteq Ancestry(h)
        BY <1>3, <4>1, ParentsAreFiles
      <4> QED BY <4>1, <4>2
    <3> QED BY <3>1, <3>2
  <2> HIDE DEF T
  <2> QED BY <1>1, <2>1, <2>2
<1> QED BY <1>2, <1>4, <1>5, <1>6

\* What a file must be for others to be laid over it: it itself, and all of its
\* ancestry, none of which is on the way to it.
Extendable(f) ==
    /\ IsDocument(disk[f]) /\ WellShaped(disk[f].modules)
    /\ disk[f].extends # NoExtends =>
          disk[f].extends \notin {BadExtends, <<>>} /\ Outside \notin Range(disk[f].extends)

AllExtendable(stack, f) ==
    /\ Ancestry(f) \cap stack = {}
    /\ \A a \in Ancestry(f) : Extendable(a) /\ \A g \in Parents(a) : a \notin Ancestry(g)

LEMMA ExtendableUnfolds ==
    ASSUME TypeOK, NEW f \in Files, NEW stack
    PROVE  AllExtendable(stack, f) <=>
             f \notin stack /\ Extendable(f) /\ \A g \in Parents(f) : AllExtendable(stack \cup {f}, g)
<1>1. /\ f \in Ancestry(f)
      /\ Ancestry(f) = {f} \cup UNION {Ancestry(g) : g \in Parents(f)}
  BY AncestryUnfolds
<1>2. ASSUME AllExtendable(stack, f), NEW g \in Parents(f) PROVE AllExtendable(stack \cup {f}, g)
  <2>1. Ancestry(g) \subseteq Ancestry(f) /\ f \notin Ancestry(g)
    BY <1>1, <1>2 DEF AllExtendable
  <2> QED BY <1>2, <2>1 DEF AllExtendable
<1>3. ASSUME f \notin stack, Extendable(f), \A g \in Parents(f) : AllExtendable(stack \cup {f}, g)
      PROVE  AllExtendable(stack, f)
  <2>1. \A g \in Parents(f) : Ancestry(g) \cap (stack \cup {f}) = {}
    BY <1>3 DEF AllExtendable
  <2>2. Ancestry(f) \cap stack = {}
    BY <1>1, <1>3, <2>1
  <2>3. ASSUME NEW a \in Ancestry(f)
        PROVE  Extendable(a) /\ \A g \in Parents(a) : a \notin Ancestry(g)
    <3>1. CASE a = f
      BY <1>3, <2>1, <3>1
    <3>2. CASE a # f
      <4>1. PICK g \in Parents(f) : a \in Ancestry(g)
        BY <1>1, <3>2
      <4> QED BY <1>3, <4>1 DEF AllExtendable
    <3> QED BY <3>1, <3>2
  <2> QED BY <2>2, <2>3 DEF AllExtendable
<1>4. AllExtendable(stack, f) => f \notin stack /\ Extendable(f)
  BY <1>1 DEF AllExtendable
<1> QED BY <1>2, <1>3, <1>4

(* A file has come to something that others can be laid over exactly if    *)
(* all of its ancestry is fit for that.                                    *)
LEMMA ComposedIfExtendable ==
    ASSUME NotAList, TypeOK
    PROVE  \A stack \in SUBSET Files : \A f \in Files :
               Mergeable(Composed(disk)[stack][f]) <=> AllExtendable(stack, f)
<1> DEFINE composed == Composed(disk)
           Agree(stack, f) == Mergeable(composed[stack][f]) <=> AllExtendable(stack, f)
           Bad == {stack \in SUBSET Files : \E f \in Files : ~Agree(stack, f)}
<1>1. /\ \A stack \in SUBSET Files : \A f \in Files : composed[stack][f] = OneFile(disk, composed, stack, f)
      /\ \A stack \in SUBSET Files : \A f \in Files : Fit(composed[stack][f])
      /\ \A f \in Files : IsContent(disk[f])
  BY ComposedUnfolds, ComposedIsFit DEF TypeOK
<1> HIDE DEF composed
<1>2. ASSUME NEW stack \in Bad PROVE \E f \in Files : f \notin stack /\ stack \cup {f} \in Bad
  <2>1. PICK f \in Files : ~Agree(stack, f)
    OBVIOUS
  <2>2. SUFFICES ASSUME f \notin stack => \A g \in Files : Agree(stack \cup {f}, g) PROVE Agree(stack, f)
    BY <2>1
  <2> DEFINE result == composed[stack][f]
             below(ref) == composed[stack \cup {f}][ref]
  <2>3. result = OneFile(disk, composed, stack, f) /\ \A ref \in Files : f \notin stack => Fit(below(ref))
    BY <1>1
  <2>4. Mergeable(result) <=>
          /\ f \notin stack /\ IsDocument(disk[f]) /\ WellShaped(disk[f].modules)
          /\ disk[f].extends # NoExtends =>
               /\ disk[f].extends \notin {BadExtends, <<>>}
               /\ \A ref \in Range(disk[f].extends) :
                    ref # Outside /\ disk[ref] # Absent /\ Mergeable(below(ref))
    <3> HIDE DEF result
    <3> QED BY <1>1, <2>3, OneFileIsFit
  <2>5. AllExtendable(stack, f) <=>
             f \notin stack /\ Extendable(f) /\ \A g \in Parents(f) : AllExtendable(stack \cup {f}, g)
    BY ExtendableUnfolds
  <2>6. CASE f \in stack \/ ~IsDocument(disk[f]) \/ ~WellShaped(disk[f].modules)
             \/ (disk[f].extends # NoExtends /\ disk[f].extends \in {BadExtends, <<>>})
    BY <2>4, <2>5, <2>6 DEF Extendable
  <2>7. CASE f \notin stack /\ IsDocument(disk[f]) /\ WellShaped(disk[f].modules)
             /\ disk[f].extends = NoExtends
    BY <2>4, <2>5, <2>7, ParentsAreFiles DEF Extendable
  <2>8. CASE f \notin stack /\ IsDocument(disk[f]) /\ WellShaped(disk[f].modules)
             /\ disk[f].extends \notin {NoExtends, BadExtends, <<>>}
    <3> DEFINE refs == disk[f].extends
    <3>1. Parents(f) = Range(refs) \ {Outside} /\ Parents(f) \subseteq Files
      BY <2>8, ParentsAreFiles
    <3>2. \A g \in Files : Mergeable(below(g)) <=> AllExtendable(stack \cup {f}, g)
      BY <2>2, <2>8
    <3>3. \A g \in Files : AllExtendable(stack \cup {f}, g) => disk[g] # Absent
      BY AncestryUnfolds DEF AllExtendable, Extendable, IsDocument
    <3> HIDE DEF result, below
    <3>4. Mergeable(result) <=> \A ref \in Range(refs) : ref # Outside /\ disk[ref] # Absent /\ Mergeable(below(ref))
      BY <2>4, <2>8
    <3>5. AllExtendable(stack, f) <=>
             Outside \notin Range(refs) /\ \A g \in Parents(f) : AllExtendable(stack \cup {f}, g)
      BY <2>5, <2>8 DEF Extendable
    <3>6. Mergeable(result) <=> AllExtendable(stack, f)
      <4> HIDE DEF refs
      <4> QED BY <3>1, <3>2, <3>3, <3>4, <3>5
    <3> QED BY <3>6 DEF result
  <2> HIDE DEF Agree
  <2> QED BY <2>6, <2>7, <2>8
<1>3. Bad = {}
  <2> HIDE DEF Bad
  <2>1. Bad \in SUBSET (SUBSET Files)
    BY DEF Bad
  <2> QED BY <1>2, <2>1, NoLastStack
<1> QED BY <1>3 DEF composed

(* A file that extends others is made one document with them exactly if    *)
(* all are fit to be extended; a file that extends none needs only to be a *)
(* document.                                                               *)
LEMMA ExtendedIfExtendable ==
    ASSUME NotAList, TypeOK, NEW f \in Files, NEW base, base = ComposeExtends(disk, f)
    PROVE  /\ Mergeable(base) <=> AllExtendable({}, f)
           /\ base.ok <=> /\ IsDocument(disk[f])
                          /\ disk[f].extends # NoExtends => AllExtendable({}, f)
<1>1. Mergeable(base) <=> AllExtendable({}, f)
  BY ComposedIfExtendable, ComposeUnfolds
<1>2. /\ \A g \in Files : Fit(Composed(disk)[{} \cup {f}][g]) /\ IsContent(disk[g])
      /\ base = OneFile(disk, Composed(disk), {}, f)
  BY ComposedUnfolds, ComposeUnfolds, ComposedIsFit DEF TypeOK
<1>3. /\ base.ok => IsDocument(disk[f]) /\ (disk[f].extends # NoExtends => WellShaped(disk[f].modules))
      /\ IsDocument(disk[f]) /\ disk[f].extends = NoExtends => base.ok
      /\ Mergeable(base) <=> base.ok /\ WellShaped(disk[f].modules)
  BY <1>2, OneFileIsFit
<1> QED BY <1>1, <1>3

LEMMA ComposableIfExtendable ==
    ASSUME TypeOK, NEW f \in Files, NEW overlay \in Files \cup {Absent}, overlay # f
    PROVE  /\ overlay # Absent \/ disk[f].extends # NoExtends =>
                (Composable(f, overlay) <=>
                   /\ AllExtendable({}, f)
                   /\ overlay # Absent => IsDocument(disk[overlay]) /\ WellShaped(disk[overlay].modules))
           /\ overlay = Absent /\ disk[f].extends = NoExtends => (Composable(f, overlay) <=> IsDocument(disk[f]))
<1> DEFINE all == Ancestry(f) \cup ({overlay} \ {Absent})
           Others == all # {f}
<1>1. /\ f \in Ancestry(f) /\ Ancestry(f) \subseteq Files
      /\ Ancestry(f) = {f} \cup UNION {Ancestry(g) : g \in Parents(f)}
      /\ \A g \in Files : g \in Ancestry(g)
      /\ Parents(f) \subseteq Files
  BY AncestryUnfolds, ParentsAreFiles
<1>2. Composable(f, overlay) <=>
         /\ \A a \in Ancestry(f) : \A g \in Parents(a) : a \notin Ancestry(g)
         /\ \A a \in all : IsDocument(disk[a])
         /\ \A a \in Ancestry(f) : disk[a].extends # NoExtends =>
               disk[a].extends \notin {BadExtends, <<>>} /\ Outside \notin Range(disk[a].extends)
         /\ Others => \A a \in all : WellShaped(disk[a].modules)
  BY DEF Composable
<1>3. ASSUME overlay # Absent \/ disk[f].extends # NoExtends, Composable(f, overlay) PROVE Others
  <2>1. CASE overlay # Absent
    BY <2>1
  <2>2. CASE disk[f].extends # NoExtends
    <3>1. /\ IsDocument(disk[f]) /\ disk[f].extends \notin {NoExtends, BadExtends, <<>>}
          /\ Outside \notin Range(disk[f].extends)
      BY <1>1, <1>2, <1>3, <2>2
    <3>2. disk[f].extends \in Seq(Files \cup {Outside}) /\ Parents(f) = Range(disk[f].extends) \ {Outside}
      BY <3>1, ParentsAreFiles
    <3>3. disk[f].extends[1] \in Range(disk[f].extends)
      <4>1. 1 \in DOMAIN disk[f].extends
        BY <3>1, <3>2
      <4> QED BY <4>1 DEF Range
    <3>4. PICK g \in Parents(f) : TRUE
      BY <3>1, <3>2, <3>3
    <3>5. g \in Ancestry(f) /\ f \notin Ancestry(g) /\ g \in Ancestry(g)
      BY <1>1, <1>2, <1>3
    <3> QED BY <3>5
  <2> QED BY <1>3, <2>1, <2>2
<1>4. AllExtendable({}, f) <=>
         \A a \in Ancestry(f) : Extendable(a) /\ \A g \in Parents(a) : a \notin Ancestry(g)
  BY DEF AllExtendable
<1>5. CASE overlay # Absent \/ disk[f].extends # NoExtends
  <2>1. ASSUME Composable(f, overlay)
        PROVE  /\ AllExtendable({}, f)
               /\ overlay # Absent => IsDocument(disk[overlay]) /\ WellShaped(disk[overlay].modules)
    <3>1. Others
      BY <1>3, <1>5, <2>1
    <3> HIDE DEF Others
    <3>2. \A a \in all : IsDocument(disk[a]) /\ WellShaped(disk[a].modules)
      BY <1>2, <2>1, <3>1
    <3> QED BY <1>2, <1>4, <2>1, <3>2 DEF Extendable
  <2>2. ASSUME AllExtendable({}, f),
               overlay # Absent => IsDocument(disk[overlay]) /\ WellShaped(disk[overlay].modules)
        PROVE  Composable(f, overlay)
    <3>1. \A a \in all : IsDocument(disk[a]) /\ WellShaped(disk[a].modules)
      BY <1>4, <2>2 DEF Extendable
    <3> QED BY <1>2, <1>4, <2>2, <3>1 DEF Extendable
  <2> QED BY <1>5, <2>1, <2>2
<1>6. CASE overlay = Absent /\ disk[f].extends = NoExtends
  <2>1. CASE ~IsDocument(disk[f])
    BY <1>1, <1>2, <1>6, <2>1
  <2>2. CASE IsDocument(disk[f])
    <3>1. Parents(f) = {}
      BY <1>6, <2>2, ParentsAreFiles
    <3>2. Ancestry(f) = {f} /\ all = {f}
      BY <1>1, <1>6, <3>1
    <3> HIDE DEF all
    <3> QED BY <1>2, <1>6, <2>2, <3>1, <3>2
  <2> QED BY <1>6, <2>1, <2>2
<1> QED BY <1>5, <1>6

LEMMA ResolvedIfExtendable ==
    ASSUME NotAList, TypeOK, NEW f \in Files, NEW overlay \in Files \cup {Absent}, overlay # f
    PROVE  Resolve(disk, f, overlay).ok <=> Composable(f, overlay)
<1> DEFINE base == ComposeExtends(disk, f)
<1>1. /\ Mergeable(base) <=> AllExtendable({}, f)
      /\ base.ok <=> /\ IsDocument(disk[f])
                     /\ disk[f].extends # NoExtends => AllExtendable({}, f)
      /\ Fit(base) /\ Resolve(disk, f, overlay) = ApplyEnvironment(disk, f, base, overlay)
  BY ExtendedIfExtendable, ComposeIsFit DEF TypeOK, Resolve
<1>2. AllExtendable({}, f) => IsDocument(disk[f])
  BY AncestryUnfolds DEF AllExtendable, Extendable
<1> HIDE DEF base
<1>3. CASE overlay = Absent
  <2>1. Resolve(disk, f, overlay) = base
    BY <1>1, <1>3 DEF ApplyEnvironment
  <2> QED BY <1>1, <1>2, <1>3, <2>1, ComposableIfExtendable
<1>4. CASE overlay # Absent
  <2>1. Resolve(disk, f, overlay).ok <=>
          Mergeable(base) /\ IsDocument(disk[overlay]) /\ WellShaped(disk[overlay].modules)
    <3>1. CASE ~base.ok
      BY <1>1, <3>1 DEF ApplyEnvironment, Mergeable
    <3>2. CASE base.ok /\ ~IsDocument(disk[overlay])
      BY <1>1, <1>4, <3>2, ProfileFiles, ResultsAreFit DEF ApplyEnvironment, IsDocument
    <3>3. CASE base.ok /\ IsDocument(disk[overlay])
      <4>1. Resolve(disk, f, overlay) = MergeDocuments(base.doc, disk[overlay], f, overlay, base.prov)
        BY <1>1, <1>4, <3>3, ProfileFiles DEF ApplyEnvironment, IsDocument
      <4>2. IsMapping(base.doc) /\ IsMapping(disk[overlay])
        BY <1>1, <1>4, <3>3 DEF Fit, TypeOK, IsContent
      <4> QED BY <3>3, <4>1, <4>2, MergeIsFit DEF Mergeable
    <3> QED BY <3>1, <3>2, <3>3
  <2> QED BY <1>1, <1>4, <2>1, ComposableIfExtendable
<1> QED BY <1>3, <1>4

(***************************************************************************)
(* What the sections of a resolved document depend on: the same sections   *)
(* of its files, and which files extend which.                             *)
(***************************************************************************)

\* Mappings that hold the same.
Alike(a, b) == DOMAIN a = DOMAIN b /\ \A k \in DOMAIN a : a[k] = b[k]

\* The sections that a release is named by.
Naming == {"metadata", "runtime"}

AlikeDocuments(a, b) == \A s \in Naming : Alike(Section(a, s), Section(b, s))
AlikeResults(a, b)   == a.ok /\ b.ok => AlikeDocuments(a.doc, b.doc)

\* What files say of these sections and of what they extend.
TextOf(files) ==
    [f \in Files |->
        IF IsDocument(files[f])
        THEN <<files[f].extends, Section(files[f], "metadata"), Section(files[f], "runtime")>>
        ELSE <<files[f]>>]

LEMMA MergedSection ==
    ASSUME NEW base, NEW over, NEW from, NEW source, NEW prov,
           NEW result, result = MergeDocuments(base, over, from, source, prov), result.ok,
           NEW s
    PROVE  Alike(Section(result.doc, s), Override(Section(base, s), Section(over, s)))
<1>1. \A code : ~Failed(code).ok
  BY ResultsAreFit
<1>2. PICK modules :
          result = MergedDocument(MergeSections(base.sections, over.sections, from, source, prov).value, modules)
  BY <1>1 DEF MergeDocuments
<1> DEFINE both == DOMAIN base.sections \cap DOMAIN over.sections
           value == MergeSections(base.sections, over.sections, from, source, prov).value
<1>3. value = Override(Override(base.sections, over.sections),
                 [x \in both |-> MergeMapping(base.sections[x], over.sections[x], from, source, <<x>>, prov).value])
  BY DEF MergeSections
<1>4. result.doc.sections = value
  BY <1>2 DEF MergedDocument, Resolved
<1> HIDE DEF value
<1>5. /\ DOMAIN value = DOMAIN base.sections \cup DOMAIN over.sections
      /\ \A x \in DOMAIN value :
            value[x] = IF x \in both THEN Override(base.sections[x], over.sections[x])
                       ELSE IF x \in DOMAIN over.sections THEN over.sections[x] ELSE base.sections[x]
  BY <1>3 DEF Override, MergeMapping
<1>6. Section(result.doc, s) = IF s \in DOMAIN value THEN value[s] ELSE Nothing
  BY <1>4 DEF Section, At
<1>7. /\ Section(base, s) = IF s \in DOMAIN base.sections THEN base.sections[s] ELSE Nothing
      /\ Section(over, s) = IF s \in DOMAIN over.sections THEN over.sections[s] ELSE Nothing
  BY DEF Section, At
<1>8. CASE s \in both
  BY <1>5, <1>6, <1>7, <1>8 DEF Alike
<1>9. CASE s \notin both
  BY <1>5, <1>6, <1>7, <1>9, ZenonT(60) DEF Alike, Override, Nothing
<1> QED BY <1>8, <1>9

LEMMA MergeIsAlike ==
    ASSUME NEW base1, NEW over1, NEW from1, NEW source1, NEW prov1,
           NEW base2, NEW over2, NEW from2, NEW source2, NEW prov2,
           AlikeDocuments(base1, base2), AlikeDocuments(over1, over2)
    PROVE  AlikeResults(MergeDocuments(base1, over1, from1, source1, prov1),
                        MergeDocuments(base2, over2, from2, source2, prov2))
<1> DEFINE a == MergeDocuments(base1, over1, from1, source1, prov1)
           b == MergeDocuments(base2, over2, from2, source2, prov2)
<1>1. SUFFICES ASSUME a.ok, b.ok, NEW s \in Naming PROVE Alike(Section(a.doc, s), Section(b.doc, s))
  BY DEF AlikeResults, AlikeDocuments
<1>2. /\ Alike(Section(a.doc, s), Override(Section(base1, s), Section(over1, s)))
      /\ Alike(Section(b.doc, s), Override(Section(base2, s), Section(over2, s)))
  BY <1>1, MergedSection
<1>3. Alike(Section(base1, s), Section(base2, s)) /\ Alike(Section(over1, s), Section(over2, s))
  BY <1>1 DEF AlikeDocuments
<1> HIDE DEF a, b
<1> QED BY <1>2, <1>3 DEF Alike, Override

\* What the loop over the parents has come to on either side.
InStep(a, b) ==
    a.ok /\ b.ok => /\ a.from = Absent <=> b.from = Absent
                    /\ a.from # Absent => AlikeDocuments(a.doc, b.doc)

LEMMA AddParentWhenOk ==
    ASSUME NEW soFar, NEW ref, NEW parent, AddParent(soFar, ref, parent).ok
    PROVE  /\ soFar.ok /\ ref # Outside /\ parent.ok
           /\ AddParent(soFar, ref, parent) =
                 From(ref, IF soFar.from = Absent THEN parent
                           ELSE MergeDocuments(soFar.doc, parent.doc, soFar.from, ref, soFar.prov))
<1>1. \A code : ~Failed(code).ok
  BY ResultsAreFit
<1> QED BY <1>1 DEF AddParent

LEMMA AddParentAlike ==
    ASSUME NEW soFar1, NEW soFar2, InStep(soFar1, soFar2), NEW ref \in Files \cup {Outside},
           NEW parent1, NEW parent2,
           ref # Outside => Explained(parent1) /\ Explained(parent2) /\ AlikeResults(parent1, parent2)
    PROVE  InStep(AddParent(soFar1, ref, parent1), AddParent(soFar2, ref, parent2))
<1> DEFINE a == AddParent(soFar1, ref, parent1)
           b == AddParent(soFar2, ref, parent2)
           all1 == MergeDocuments(soFar1.doc, parent1.doc, soFar1.from, ref, soFar1.prov)
           all2 == MergeDocuments(soFar2.doc, parent2.doc, soFar2.from, ref, soFar2.prov)
           x == IF soFar1.from = Absent THEN parent1 ELSE all1
           y == IF soFar2.from = Absent THEN parent2 ELSE all2
<1>1. SUFFICES ASSUME a.ok, b.ok PROVE InStep(a, b)
  BY DEF InStep
<1>2. /\ soFar1.ok /\ ref # Outside /\ parent1.ok /\ a = From(ref, x)
      /\ soFar2.ok /\ parent2.ok /\ b = From(ref, y)
  BY <1>1, AddParentWhenOk
<1>3. Explained(x) /\ Explained(y)
  BY <1>2, MergeIsExplained
<1>4. AlikeResults(x, y)
  <2>1. soFar1.from = Absent <=> soFar2.from = Absent
    BY <1>2 DEF InStep
  <2>2. CASE soFar1.from = Absent
    BY <1>2, <2>1, <2>2
  <2>3. CASE soFar1.from # Absent
    <3>1. AlikeDocuments(soFar1.doc, soFar2.doc) /\ AlikeDocuments(parent1.doc, parent2.doc)
      BY <1>2, <2>3 DEF InStep, AlikeResults
    <3>2. AlikeResults(all1, all2)
      BY <3>1, MergeIsAlike
    <3> QED BY <2>1, <2>3, <3>2
  <2> QED BY <2>2, <2>3
<1> HIDE DEF x, y, a, b
<1>5. /\ a.from = ref /\ a.ok = x.ok /\ a.doc = x.doc
      /\ b.from = ref /\ b.ok = y.ok /\ b.doc = y.doc
  BY <1>2, <1>3, FromKeeps
<1> QED BY <1>1, <1>4, <1>5 DEF InStep, AlikeResults

LEMMA MergedParentsAlike ==
    ASSUME NEW refs \in Seq(Files \cup {Outside}), refs # <<>>, NEW parents1, NEW parents2,
           \A ref \in Files : /\ Fit(parents1[ref]) /\ Fit(parents2[ref])
                              /\ AlikeResults(parents1[ref], parents2[ref])
    PROVE  AlikeResults(MergedParents(refs, parents1), MergedParents(refs, parents2))
<1> DEFINE a == ParentsLoop(refs, parents1)
           b == ParentsLoop(refs, parents2)
           n == Len(refs)
           Bad == {i \in 0 .. n : ~InStep(a[i], b[i])}
<1>1. n \in Nat /\ \A i \in 1 .. n : refs[i] \in Files \cup {Outside}
  OBVIOUS
<1>2. /\ \A i \in 0 .. n : a[i] = OneParent(refs, parents1, a, i) /\ b[i] = OneParent(refs, parents2, b, i)
      /\ MergedParents(refs, parents1) = a[n] /\ MergedParents(refs, parents2) = b[n]
  BY <1>1, MergedUnfolds
<1> HIDE DEF a, b, n
<1>3. 0 \notin Bad
  <2>1. a[0] = Beginning /\ b[0] = Beginning
    BY <1>1, <1>2 DEF OneParent, Beginning
  <2> QED BY <2>1, BeginningIs DEF InStep
<1>4. ASSUME NEW i \in Bad PROVE i - 1 \in Bad
  <2>1. i \in 1 .. n /\ i - 1 \in 0 .. n
    BY <1>1, <1>3
  <2>2. SUFFICES ASSUME InStep(a[i - 1], b[i - 1]) PROVE InStep(a[i], b[i])
    BY <2>1
  <2> DEFINE parent1 == IF refs[i] = Outside THEN a[i - 1] ELSE parents1[refs[i]]
             parent2 == IF refs[i] = Outside THEN b[i - 1] ELSE parents2[refs[i]]
  <2>3. a[i] = AddParent(a[i - 1], refs[i], parent1) /\ b[i] = AddParent(b[i - 1], refs[i], parent2)
    BY <1>2, <2>1 DEF OneParent
  <2>4. /\ refs[i] \in Files \cup {Outside}
        /\ refs[i] # Outside => Explained(parent1) /\ Explained(parent2) /\ AlikeResults(parent1, parent2)
    BY <1>1, <2>1 DEF Fit
  <2> HIDE DEF parent1, parent2
  <2> QED BY <2>2, <2>3, <2>4, AddParentAlike
<1>5. Bad = {}
  <2> HIDE DEF Bad
  <2>1. Bad \in SUBSET (0 .. n)
    BY DEF Bad
  <2> QED BY <1>1, <1>3, <1>4, <2>1, NoFirstRound
<1>6. InStep(MergedParents(refs, parents1), MergedParents(refs, parents2))
  BY <1>1, <1>2, <1>5
<1>7. Underway(MergedParents(refs, parents1))
  BY MergedParentsIsFit
<1> QED BY <1>6, <1>7, ProfileFiles DEF InStep, AlikeResults, Underway

LEMMA SameText ==
    ASSUME NEW files1, NEW files2, TextOf(files1) = TextOf(files2), NEW f \in Files
    PROVE  /\ IsDocument(files1[f]) <=> IsDocument(files2[f])
           /\ IsDocument(files1[f]) => /\ files1[f].extends = files2[f].extends
                                       /\ AlikeDocuments(files1[f], files2[f])
<1>1. TextOf(files1)[f] = TextOf(files2)[f]
  OBVIOUS
<1>2. IsDocument(files1[f]) <=> IsDocument(files2[f])
  BY <1>1 DEF TextOf
<1>3. IsDocument(files1[f]) => /\ files1[f].extends = files2[f].extends
                              /\ Section(files1[f], "metadata") = Section(files2[f], "metadata")
                              /\ Section(files1[f], "runtime") = Section(files2[f], "runtime")
  BY <1>1, <1>2 DEF TextOf
<1> QED BY <1>2, <1>3 DEF AlikeDocuments, Alike, Naming

LEMMA OneFileAlike ==
    ASSUME NEW files1, \A g \in Files : IsContent(files1[g]),
           NEW files2, \A g \in Files : IsContent(files2[g]), TextOf(files1) = TextOf(files2),
           NEW below1, NEW below2, NEW stack, NEW f \in Files,
           f \notin stack => \A ref \in Files :
               /\ Fit(below1[stack \cup {f}][ref]) /\ Fit(below2[stack \cup {f}][ref])
               /\ AlikeResults(below1[stack \cup {f}][ref], below2[stack \cup {f}][ref])
    PROVE  AlikeResults(OneFile(files1, below1, stack, f), OneFile(files2, below2, stack, f))
<1> DEFINE a == OneFile(files1, below1, stack, f)
           b == OneFile(files2, below2, stack, f)
           doc1 == files1[f]
           doc2 == files2[f]
           parents1 == [ref \in Files |-> IF files1[ref] = Absent THEN Failed("E112")
                                          ELSE below1[stack \cup {f}][ref]]
           parents2 == [ref \in Files |-> IF files2[ref] = Absent THEN Failed("E112")
                                          ELSE below2[stack \cup {f}][ref]]
<1>1. /\ IsDocument(doc1) <=> IsDocument(doc2)
      /\ IsDocument(doc1) => doc1.extends = doc2.extends /\ AlikeDocuments(doc1, doc2)
  BY SameText
<1>2. CASE f \in stack \/ ~IsDocument(doc1)
  <2>1. ~a.ok
    BY <1>2, ResultsAreFit DEF OneFile
  <2> QED BY <2>1 DEF AlikeResults
<1>3. CASE f \notin stack /\ IsDocument(doc1)
  <2>1. a = MergeParents(doc1, f, parents1) /\ b = MergeParents(doc2, f, parents2)
    BY <1>1, <1>3 DEF OneFile
  <2>2. \A ref \in Files : /\ Fit(parents1[ref]) /\ Fit(parents2[ref])
                           /\ AlikeResults(parents1[ref], parents2[ref])
    BY <1>3, ResultsAreFit DEF AlikeResults
  <2>3. IsMapping(doc1)
    BY <1>3 DEF IsContent
  <2> HIDE DEF a, b, doc1, doc2, parents1, parents2
  <2>4. CASE doc1.extends = NoExtends
    <3>1. a.doc = doc1 /\ b.doc = doc2
      BY <1>1, <1>3, <2>1, <2>4 DEF MergeParents, Resolved
    <3> QED BY <1>1, <1>3, <3>1 DEF AlikeResults, a, b
  <2>5. CASE doc1.extends # NoExtends /\ doc1.extends \in {BadExtends, <<>>}
    <3>1. ~a.ok
      BY <2>1, <2>5, ResultsAreFit DEF MergeParents
    <3> QED BY <3>1 DEF AlikeResults, a, b
  <2>6. CASE doc1.extends \notin {NoExtends, BadExtends, <<>>}
    <3> DEFINE m1 == MergedParents(doc1.extends, parents1)
               m2 == MergedParents(doc1.extends, parents2)
    <3>1. doc1.extends \in Seq(Files \cup {Outside})
      BY <2>3, <2>6 DEF IsMapping
    <3>2. AlikeResults(m1, m2)
      BY <2>2, <2>6, <3>1, MergedParentsAlike
    <3>3. a = Extend(doc1, f, m1) /\ b = Extend(doc2, f, m2)
      BY <1>1, <1>3, <2>1, <2>6 DEF MergeParents
    <3>4. \A errors : ~FailedWith(errors).ok
      BY DEF FailedWith
    <3> HIDE DEF m1, m2
    <3>5. CASE ~m1.ok \/ ~m2.ok
      <4>1. ~a.ok \/ ~b.ok
        BY <3>3, <3>4, <3>5 DEF Extend
      <4> QED BY <4>1 DEF AlikeResults, a, b
    <3>6. CASE m1.ok /\ m2.ok
      <4>1. AlikeDocuments(m1.doc, m2.doc) /\ AlikeDocuments(doc1, doc2)
        BY <1>1, <1>3, <3>2, <3>6 DEF AlikeResults
      <4>2. AlikeResults(MergeDocuments(m1.doc, doc1, m1.from, f, m1.prov),
                         MergeDocuments(m2.doc, doc2, m2.from, f, m2.prov))
        BY <4>1, MergeIsAlike
      <4> QED BY <3>3, <3>6, <4>2 DEF Extend, a, b
    <3> QED BY <3>5, <3>6
  <2> QED BY <2>4, <2>5, <2>6
<1> QED BY <1>2, <1>3

LEMMA ComposedAlike ==
    ASSUME NEW files1, \A g \in Files : IsContent(files1[g]),
           NEW files2, \A g \in Files : IsContent(files2[g]), TextOf(files1) = TextOf(files2)
    PROVE  \A stack \in SUBSET Files : \A f \in Files :
               AlikeResults(Composed(files1)[stack][f], Composed(files2)[stack][f])
<1> DEFINE a == Composed(files1)
           b == Composed(files2)
           Bad == {stack \in SUBSET Files : \E f \in Files : ~AlikeResults(a[stack][f], b[stack][f])}
<1>1. \A stack \in SUBSET Files : \A f \in Files :
         /\ a[stack][f] = OneFile(files1, a, stack, f) /\ Fit(a[stack][f])
         /\ b[stack][f] = OneFile(files2, b, stack, f) /\ Fit(b[stack][f])
  BY ComposedUnfolds, ComposedIsFit
<1> HIDE DEF a, b
<1>2. ASSUME NEW stack \in Bad PROVE \E f \in Files : f \notin stack /\ stack \cup {f} \in Bad
  <2>1. PICK f \in Files : ~AlikeResults(a[stack][f], b[stack][f])
    OBVIOUS
  <2>2. SUFFICES ASSUME f \notin stack => \A g \in Files : AlikeResults(a[stack \cup {f}][g], b[stack \cup {f}][g])
                 PROVE  AlikeResults(a[stack][f], b[stack][f])
    BY <2>1
  <2>3. stack \in SUBSET Files /\ stack \cup {f} \in SUBSET Files
    OBVIOUS
  <2>4. AlikeResults(OneFile(files1, a, stack, f), OneFile(files2, b, stack, f))
    <3> HIDE DEF Bad
    <3> QED BY <1>1, <2>2, <2>3, OneFileAlike
  <2> QED BY <1>1, <2>3, <2>4
<1>3. Bad = {}
  <2> HIDE DEF Bad
  <2>1. Bad \in SUBSET (SUBSET Files)
    BY DEF Bad
  <2> QED BY <1>2, <2>1, NoLastStack
<1> QED BY <1>3 DEF a, b

(* Two looks at files that say the same of themselves and of what they     *)
(* extend find the same sections, if both find a document.                 *)
LEMMA ResolvedAlike ==
    ASSUME NEW files1, \A g \in Files : IsContent(files1[g]),
           NEW files2, \A g \in Files : IsContent(files2[g]), TextOf(files1) = TextOf(files2),
           NEW f \in Files, NEW overlay \in Files \cup {Absent, Outside}
    PROVE  AlikeResults(Resolve(files1, f, overlay), Resolve(files2, f, overlay))
<1> DEFINE base1 == ComposeExtends(files1, f)
           base2 == ComposeExtends(files2, f)
           a == Resolve(files1, f, overlay)
           b == Resolve(files2, f, overlay)
<1>1. AlikeResults(base1, base2)
  BY ComposedAlike, ComposeUnfolds
<1>2. a = ApplyEnvironment(files1, f, base1, overlay) /\ b = ApplyEnvironment(files2, f, base2, overlay)
  BY DEF Resolve
<1> HIDE DEF base1, base2, a, b
<1>3. CASE overlay = Absent
  BY <1>1, <1>2, <1>3 DEF ApplyEnvironment, a, b
<1>4. CASE overlay # Absent
  <2>1. SUFFICES ASSUME a.ok, b.ok PROVE AlikeDocuments(a.doc, b.doc)
    BY DEF AlikeResults, a, b
  <2>2. /\ base1.ok /\ base2.ok /\ overlay \in Files
        /\ IsDocument(files1[overlay]) /\ IsDocument(files2[overlay])
        /\ a = MergeDocuments(base1.doc, files1[overlay], f, overlay, base1.prov)
        /\ b = MergeDocuments(base2.doc, files2[overlay], f, overlay, base2.prov)
    <3>1. overlay # Outside
      BY <1>2, <1>4, <2>1, ResultsAreFit DEF ApplyEnvironment
    <3>2. \A files, base : ApplyEnvironment(files, f, base, overlay).ok =>
             /\ base.ok /\ IsDocument(files[overlay])
             /\ ApplyEnvironment(files, f, base, overlay) =
                   MergeDocuments(base.doc, files[overlay], f, overlay, base.prov)
      BY <1>4, <3>1, ResultsAreFit DEF ApplyEnvironment, IsDocument
    <3> QED BY <1>2, <1>4, <2>1, <3>1, <3>2
  <2>3. AlikeDocuments(base1.doc, base2.doc) /\ AlikeDocuments(files1[overlay], files2[overlay])
    BY <1>1, <2>2, SameText DEF AlikeResults
  <2> QED BY <2>1, <2>2, <2>3, MergeIsAlike DEF AlikeResults
<1> QED BY <1>3, <1>4

(***************************************************************************)
(* What a profile resolves to: its files laid over each other in order.    *)
(***************************************************************************)

\* A sequence is one followed by another.
Joined(all, first, second) ==
    \E m, n \in Nat : /\ DOMAIN first = 1 .. m /\ DOMAIN second = 1 .. n /\ DOMAIN all = 1 .. m + n
                      /\ \A i \in 1 .. m : all[i] = first[i]
                      /\ \A i \in 1 .. n : all[m + i] = second[i]

(* Every place of the whole is one of the first part, or one of the second *)
(* and after all of the first.                                             *)
LEMMA JoinedPlaces ==
    ASSUME NEW all, NEW first, NEW second, Joined(all, first, second)
    PROVE  \E m \in Nat :
             /\ DOMAIN first = 1 .. m /\ DOMAIN first \subseteq DOMAIN all /\ DOMAIN all \subseteq Nat
             /\ \A i \in DOMAIN first : all[i] = first[i]
             /\ \A i \in DOMAIN second : m + i \in DOMAIN all /\ all[m + i] = second[i] /\ i \in Nat /\ i > 0
             /\ \A i \in DOMAIN all : i \in DOMAIN first \/ (i > m /\ i - m \in DOMAIN second /\ all[i] = second[i - m])
<1>1. PICK m \in Nat, n \in Nat :
          /\ DOMAIN first = 1 .. m /\ DOMAIN second = 1 .. n /\ DOMAIN all = 1 .. m + n
          /\ \A i \in 1 .. m : all[i] = first[i]
          /\ \A i \in 1 .. n : all[m + i] = second[i]
  BY DEF Joined
<1>2. \A i \in DOMAIN second : m + i \in DOMAIN all /\ all[m + i] = second[i] /\ i \in Nat /\ i > 0
  BY <1>1
<1>3. ASSUME NEW i \in DOMAIN all, i \notin DOMAIN first
      PROVE  i > m /\ i - m \in DOMAIN second /\ all[i] = second[i - m]
  <2>1. i > m /\ i - m \in 1 .. n /\ i = m + (i - m)
    BY <1>1, <1>3
  <2> QED BY <1>1, <2>1
<1> QED BY <1>1, <1>2, <1>3

(* Layers over layers.                                                     *)
LEMMA LayersJoin ==
    ASSUME NEW a, NEW below, LaidOver(a, below), NEW b, NEW above, LaidOver(b, above),
           NEW all, Joined(all, below, above), NEW c, Alike(c, Override(a, b))
    PROVE  LaidOver(c, all)
<1>1. PICK m \in Nat :
          /\ DOMAIN below = 1 .. m /\ DOMAIN below \subseteq DOMAIN all /\ DOMAIN all \subseteq Nat
          /\ \A i \in DOMAIN below : all[i] = below[i]
          /\ \A i \in DOMAIN above : m + i \in DOMAIN all /\ all[m + i] = above[i] /\ i \in Nat /\ i > 0
          /\ \A i \in DOMAIN all : i \in DOMAIN below \/ (i > m /\ i - m \in DOMAIN above /\ all[i] = above[i - m])
  BY JoinedPlaces
<1>2. /\ DOMAIN c = DOMAIN a \cup DOMAIN b
      /\ \A k \in DOMAIN b : c[k] = b[k]
      /\ \A k \in DOMAIN a \ DOMAIN b : c[k] = a[k]
  BY DEF Alike, Override
<1>3. /\ DOMAIN a = UNION {DOMAIN below[i] : i \in DOMAIN below}
      /\ DOMAIN b = UNION {DOMAIN above[i] : i \in DOMAIN above}
  BY DEF LaidOver
<1>4. DOMAIN c = UNION {DOMAIN all[i] : i \in DOMAIN all}
  <2>1. \A i \in DOMAIN all : DOMAIN all[i] \subseteq DOMAIN c
    BY <1>1, <1>2, <1>3
  <2>2. \A k \in DOMAIN c : \E i \in DOMAIN all : k \in DOMAIN all[i]
    <3> TAKE k \in DOMAIN c
    <3>1. CASE k \in DOMAIN a
      <4>1. PICK i \in DOMAIN below : k \in DOMAIN below[i]
        BY <1>3, <3>1
      <4> QED BY <1>1, <4>1
    <3>2. CASE k \in DOMAIN b
      <4>1. PICK i \in DOMAIN above : k \in DOMAIN above[i]
        BY <1>3, <3>2
      <4> QED BY <1>1, <4>1
    <3> QED BY <1>2, <3>1, <3>2
  <2> QED BY <2>1, <2>2
<1>5. ASSUME NEW i \in DOMAIN all, NEW k \in DOMAIN all[i],
             \A j \in DOMAIN all : j > i => k \notin DOMAIN all[j]
      PROVE  c[k] = all[i][k]
  <2>1. CASE i \in DOMAIN below
    <3>1. \A j \in DOMAIN above : k \notin DOMAIN above[j]
      <4> TAKE j \in DOMAIN above
      <4>1. m + j \in DOMAIN all /\ all[m + j] = above[j] /\ m + j > i
        BY <1>1, <2>1
      <4> QED BY <1>5, <4>1
    <3>2. all[i] = below[i] /\ k \in DOMAIN below[i] /\ k \notin DOMAIN b /\ k \in DOMAIN a
      BY <1>1, <1>3, <1>5, <2>1, <3>1
    <3>3. \A j \in DOMAIN below : j > i => k \notin DOMAIN below[j]
      BY <1>1, <1>5
    <3>4. a[k] = below[i][k]
      BY <2>1, <3>2, <3>3 DEF LaidOver
    <3> QED BY <1>2, <3>2, <3>4
  <2>2. CASE i \notin DOMAIN below
    <3> DEFINE x == i - m
    <3>1. i > m /\ x \in DOMAIN above /\ all[i] = above[x] /\ i \in Nat /\ m + x = i
      BY <1>1, <2>2
    <3> HIDE DEF x
    <3>2. k \in DOMAIN above[x] /\ k \in DOMAIN b
      BY <1>3, <1>5, <3>1
    <3>3. \A j \in DOMAIN above : j > x => k \notin DOMAIN above[j]
      <4> SUFFICES ASSUME NEW j \in DOMAIN above, j > x PROVE k \notin DOMAIN above[j]
        OBVIOUS
      <4>1. m + j \in DOMAIN all /\ all[m + j] = above[j] /\ m + j > i
        BY <1>1, <3>1
      <4> QED BY <1>5, <4>1
    <3>4. b[k] = above[x][k]
      BY <3>1, <3>2, <3>3 DEF LaidOver
    <3> QED BY <1>2, <3>1, <3>2, <3>4
  <2> QED BY <2>1, <2>2
<1> QED BY <1>4, <1>5 DEF LaidOver

\* A document is the overlay of these also where none of them says anything.
Overlays(doc, docs) ==
    /\ HoldsAll(doc, docs) /\ InOrder(doc, docs)
    /\ \A s : LaidOver(Section(doc, s), [i \in DOMAIN docs |-> Section(docs[i], s)])
    /\ \A m : LaidOver(Fields(doc, m), [i \in DOMAIN docs |-> Fields(docs[i], m)])

LEMMA OverlaysIsOverlay ==
    ASSUME NEW doc, NEW docs, Overlays(doc, docs)
    PROVE  OverlayOf(doc, docs)
BY DEF Overlays, OverlayOf

(* A well-shaped document overlays itself.                                 *)
LEMMA OverlaysItself ==
    ASSUME NEW doc, IsMapping(doc), WellShaped(doc.modules),
           NEW docs, DOMAIN docs = 1 .. 1, docs[1] = doc
    PROVE  Overlays(doc, docs)
<1>1. \A layer : \A layers : DOMAIN layers = 1 .. 1 /\ layers[1] = layer => LaidOver(layer, layers)
  BY DEF LaidOver
<1>2. HoldsAll(doc, docs)
  BY DEF HoldsAll
<1>3. InOrder(doc, docs)
  <2> SUFFICES ASSUME NEW a \in DOMAIN doc.modules, NEW b \in DOMAIN doc.modules, a < b
               PROVE  AppearsBefore(docs, doc.modules[a].id, doc.modules[b].id)
    BY DEF InOrder
  <2>1. doc.modules \in Seq(Range(doc.modules))
    BY DEF IsMapping, IsModules, WellShaped
  <2>2. DOMAIN doc.modules \subseteq Nat
    BY <2>1
  <2>3. \A q \in DOMAIN doc.modules : q < a => doc.modules[q].id # doc.modules[b].id
    <3> SUFFICES ASSUME NEW q \in DOMAIN doc.modules, q < a, doc.modules[q].id = doc.modules[b].id PROVE FALSE
      OBVIOUS
    <3>1. q = b
      BY DEF WellShaped
    <3> QED BY <2>2, <3>1
  <2> QED BY <2>3 DEF AppearsBefore
<1>4. \A s : LaidOver(Section(doc, s), [i \in DOMAIN docs |-> Section(docs[i], s)])
  <2> TAKE s
  <2> DEFINE layers == [i \in DOMAIN docs |-> Section(docs[i], s)]
  <2>1. DOMAIN layers = 1 .. 1 /\ layers[1] = Section(doc, s)
    OBVIOUS
  <2> HIDE DEF layers
  <2>2. LaidOver(Section(doc, s), layers)
    BY <1>1, <2>1
  <2> QED BY <2>2 DEF layers
<1>5. \A m : LaidOver(Fields(doc, m), [i \in DOMAIN docs |-> Fields(docs[i], m)])
  <2> TAKE m
  <2> DEFINE layers == [i \in DOMAIN docs |-> Fields(docs[i], m)]
  <2>1. DOMAIN layers = 1 .. 1 /\ layers[1] = Fields(doc, m)
    OBVIOUS
  <2> HIDE DEF layers
  <2>2. LaidOver(Fields(doc, m), layers)
    BY <1>1, <2>1
  <2> QED BY <2>2 DEF layers
<1> QED BY <1>2, <1>3, <1>4, <1>5 DEF Overlays

LEMMA FieldsAre ==
    ASSUME NEW doc, WellShaped(doc.modules)
    PROVE  /\ \A i \in DOMAIN doc.modules : Fields(doc, doc.modules[i].id) = doc.modules[i].fields
           /\ \A m : m \notin IdsOf(doc.modules) => Fields(doc, m) = Nothing
<1>1. \A i \in DOMAIN doc.modules : FieldsOf(doc.modules, doc.modules[i].id) = doc.modules[i].fields
  <2> TAKE i \in DOMAIN doc.modules
  <2> DEFINE j == CHOOSE j \in DOMAIN doc.modules : doc.modules[j].id = doc.modules[i].id
  <2>1. j \in DOMAIN doc.modules /\ doc.modules[j].id = doc.modules[i].id
    OBVIOUS
  <2>2. j = i
    BY <2>1 DEF WellShaped
  <2> QED BY <2>2 DEF FieldsOf
<1> QED BY <1>1 DEF Fields, IdsOf

(* The merge of two documents, module by module.                           *)
LEMMA MergedFields ==
    ASSUME NotAList, NEW base, NEW over, NEW from, NEW source, NEW prov,
           IsMapping(base), WellShaped(base.modules), IsMapping(over), WellShaped(over.modules),
           NEW result, result = MergeDocuments(base, over, from, source, prov)
    PROVE  /\ WellShaped(result.doc.modules)
           /\ \E p : result.doc.modules = MergeModules(base.modules, over.modules, from, source, p).value
           /\ \A m : Alike(Fields(result.doc, m), Override(Fields(base, m), Fields(over, m)))
<1>1. PICK sections, p :
          result = MergedDocument(sections, MergeModules(base.modules, over.modules, from, source, p))
  BY DEF MergeDocuments
<1> DEFINE merged == result.doc.modules
<1>2. merged = MergeModules(base.modules, over.modules, from, source, p).value
  BY <1>1 DEF MergedDocument, Resolved
<1> HIDE DEF merged
<1>3. IsModules(base.modules) /\ IsModules(over.modules)
  BY DEF IsMapping
<1>4. IdsOf(merged) = IdsOf(base.modules) \cup IdsOf(over.modules) /\ WellShaped(merged)
  BY <1>2, <1>3, MergedModulesFit
<1>5. /\ DOMAIN base.modules \subseteq DOMAIN merged
      /\ \A i \in DOMAIN base.modules : merged[i].id = base.modules[i].id
  BY <1>2, <1>3, MergedModulesAre
<1>6. \A i \in DOMAIN base.modules :
         merged[i].fields = IF base.modules[i].id \in IdsOf(over.modules)
                            THEN Override(FieldsOf(base.modules, base.modules[i].id),
                                          FieldsOf(over.modules, base.modules[i].id))
                            ELSE base.modules[i].fields
  BY <1>2, <1>3, MergedModulesAre
<1>7. \A k \in DOMAIN over.modules : over.modules[k].id \notin IdsOf(base.modules) =>
         \E i \in DOMAIN merged \ DOMAIN base.modules : merged[i] = over.modules[k]
  BY <1>2, <1>3, MergedModulesAre
<1>8. \A x : Alike(x, Override(Nothing, x)) /\ Alike(x, x)
  BY DEF Alike, Override, Nothing
<1>9. ASSUME NEW m PROVE Alike(Fields(result.doc, m), Override(Fields(base, m), Fields(over, m)))
  <2>1. CASE m \in IdsOf(base.modules)
    <3>1. PICK i \in DOMAIN base.modules : base.modules[i].id = m
      BY <2>1 DEF IdsOf
    <3>2. Fields(result.doc, m) = merged[i].fields /\ Fields(base, m) = base.modules[i].fields
      BY <1>4, <1>5, <3>1, FieldsAre DEF merged
    <3>3. CASE m \in IdsOf(over.modules)
      <4>1. merged[i].fields = Override(FieldsOf(base.modules, m), FieldsOf(over.modules, m))
        BY <1>6, <3>1, <3>3
      <4>2. Fields(base, m) = FieldsOf(base.modules, m) /\ Fields(over, m) = FieldsOf(over.modules, m)
        BY <2>1, <3>3 DEF Fields
      <4> QED BY <1>8, <3>2, <4>1, <4>2
    <3>4. CASE m \notin IdsOf(over.modules)
      <4>1. merged[i].fields = base.modules[i].fields /\ Fields(over, m) = Nothing
        BY <1>6, <3>1, <3>4 DEF Fields
      <4>2. \A x : Alike(x, Override(x, Nothing))
        BY DEF Alike, Override, Nothing
      <4> QED BY <3>2, <4>1, <4>2
    <3> QED BY <3>3, <3>4
  <2>2. CASE m \notin IdsOf(base.modules) /\ m \in IdsOf(over.modules)
    <3>1. PICK k \in DOMAIN over.modules : over.modules[k].id = m
      BY <2>2 DEF IdsOf
    <3>2. PICK i \in DOMAIN merged : merged[i] = over.modules[k]
      BY <1>7, <2>2, <3>1
    <3>3. Fields(result.doc, m) = over.modules[k].fields /\ Fields(over, m) = over.modules[k].fields
      BY <1>4, <3>1, <3>2, FieldsAre DEF merged
    <3>4. Fields(base, m) = Nothing
      BY <2>2 DEF Fields
    <3> QED BY <1>8, <3>3, <3>4
  <2>3. CASE m \notin IdsOf(base.modules) /\ m \notin IdsOf(over.modules)
    <3>1. Fields(result.doc, m) = Nothing /\ Fields(base, m) = Nothing /\ Fields(over, m) = Nothing
      BY <1>4, <2>3 DEF Fields, merged
    <3> QED BY <1>8, <3>1
  <2> QED BY <2>1, <2>2, <2>3
<1> QED BY <1>2, <1>4, <1>9 DEF merged

(* The order of first appearance goes on in more documents.                *)
LEMMA AppearsInJoined ==
    ASSUME NEW all, NEW first, NEW second, Joined(all, first, second), NEW m, NEW n
    PROVE  /\ AppearsBefore(first, m, n) => AppearsBefore(all, m, n)
           /\ n \notin UNION {IdsOf(first[i].modules) : i \in DOMAIN first} =>
                 /\ m \in UNION {IdsOf(first[i].modules) : i \in DOMAIN first} => AppearsBefore(all, m, n)
                 /\ AppearsBefore(second, m, n) => AppearsBefore(all, m, n)
<1>1. PICK z \in Nat :
         /\ DOMAIN first = 1 .. z /\ DOMAIN first \subseteq DOMAIN all /\ DOMAIN all \subseteq Nat
         /\ \A i \in DOMAIN first : all[i] = first[i]
         /\ \A i \in DOMAIN second : z + i \in DOMAIN all /\ all[z + i] = second[i] /\ i \in Nat /\ i > 0
         /\ \A i \in DOMAIN all : i \in DOMAIN first \/ (i > z /\ i - z \in DOMAIN second /\ all[i] = second[i - z])
  BY JoinedPlaces
<1>2. \A i \in DOMAIN first : \A j \in DOMAIN all : j < i => j \in DOMAIN first
  BY <1>1
<1>3. ASSUME AppearsBefore(first, m, n) PROVE AppearsBefore(all, m, n)
  <2>1. PICK i \in DOMAIN first :
          /\ \E p \in DOMAIN first[i].modules :
                /\ first[i].modules[p].id = m
                /\ \A q \in DOMAIN first[i].modules : q < p => first[i].modules[q].id # n
          /\ \A j \in DOMAIN first : j < i => n \notin IdsOf(first[j].modules)
    BY <1>3 DEF AppearsBefore
  <2>2. i \in DOMAIN all /\ all[i] = first[i]
    BY <1>1
  <2>3. \A j \in DOMAIN all : j < i => n \notin IdsOf(all[j].modules)
    BY <1>1, <1>2, <2>1
  <2> QED BY <2>1, <2>2, <2>3 DEF AppearsBefore
<1>4. ASSUME n \notin UNION {IdsOf(first[i].modules) : i \in DOMAIN first},
             m \in UNION {IdsOf(first[i].modules) : i \in DOMAIN first}
      PROVE  AppearsBefore(all, m, n)
  <2>1. PICK i \in DOMAIN first : m \in IdsOf(first[i].modules)
    BY <1>4
  <2>2. PICK p \in DOMAIN first[i].modules : first[i].modules[p].id = m
    BY <2>1 DEF IdsOf
  <2>3. \A j \in DOMAIN first : n \notin IdsOf(first[j].modules)
    BY <1>4
  <2>4. \A q \in DOMAIN first[i].modules : first[i].modules[q].id # n
    BY <2>3 DEF IdsOf
  <2>5. AppearsBefore(first, m, n)
    BY <2>2, <2>3, <2>4 DEF AppearsBefore
  <2> QED BY <1>3, <2>5
<1>5. ASSUME n \notin UNION {IdsOf(first[i].modules) : i \in DOMAIN first}, AppearsBefore(second, m, n)
      PROVE  AppearsBefore(all, m, n)
  <2>1. PICK i \in DOMAIN second :
          /\ \E p \in DOMAIN second[i].modules :
                /\ second[i].modules[p].id = m
                /\ \A q \in DOMAIN second[i].modules : q < p => second[i].modules[q].id # n
          /\ \A j \in DOMAIN second : j < i => n \notin IdsOf(second[j].modules)
    BY <1>5 DEF AppearsBefore
  <2>2. z + i \in DOMAIN all /\ all[z + i] = second[i] /\ i \in Nat
    BY <1>1
  <2>3. \A j \in DOMAIN all : j < z + i => n \notin IdsOf(all[j].modules)
    <3> SUFFICES ASSUME NEW j \in DOMAIN all, j < z + i PROVE n \notin IdsOf(all[j].modules)
      OBVIOUS
    <3>1. CASE j \in DOMAIN first
      BY <1>1, <1>5, <3>1
    <3>2. CASE j \notin DOMAIN first
      <4>1. j - z \in DOMAIN second /\ all[j] = second[j - z] /\ j \in Nat /\ j - z < i
        BY <1>1, <2>2, <3>2
      <4> QED BY <2>1, <4>1
    <3> QED BY <3>1, <3>2
  <2> QED BY <2>1, <2>2, <2>3 DEF AppearsBefore
<1> QED BY <1>3, <1>4, <1>5

LEMMA DocumentsJoin ==
    ASSUME NEW all, NEW first, NEW second, Joined(all, first, second)
    PROVE  /\ \A s : Joined([i \in DOMAIN all |-> Section(all[i], s)],
                            [i \in DOMAIN first |-> Section(first[i], s)],
                            [i \in DOMAIN second |-> Section(second[i], s)])
           /\ \A m : Joined([i \in DOMAIN all |-> Fields(all[i], m)],
                            [i \in DOMAIN first |-> Fields(first[i], m)],
                            [i \in DOMAIN second |-> Fields(second[i], m)])
<1>1. PICK x \in Nat, y \in Nat :
          /\ DOMAIN first = 1 .. x /\ DOMAIN second = 1 .. y /\ DOMAIN all = 1 .. x + y
          /\ \A i \in 1 .. x : all[i] = first[i]
          /\ \A i \in 1 .. y : all[x + i] = second[i]
  BY DEF Joined
<1>2. (\A i \in 1 .. x : i \in DOMAIN all) /\ (\A i \in 1 .. y : x + i \in DOMAIN all)
  BY <1>1
<1>3. \A whole, below, above :
          /\ DOMAIN whole = DOMAIN all /\ DOMAIN below = DOMAIN first /\ DOMAIN above = DOMAIN second
          /\ \A i \in 1 .. x : whole[i] = below[i]
          /\ \A i \in 1 .. y : whole[x + i] = above[i]
          => Joined(whole, below, above)
  BY <1>1 DEF Joined
<1>4. ASSUME NEW s
      PROVE  Joined([i \in DOMAIN all |-> Section(all[i], s)], [i \in DOMAIN first |-> Section(first[i], s)],
                    [i \in DOMAIN second |-> Section(second[i], s)])
  <2> DEFINE whole == [i \in DOMAIN all |-> Section(all[i], s)]
             below == [i \in DOMAIN first |-> Section(first[i], s)]
             above == [i \in DOMAIN second |-> Section(second[i], s)]
  <2>1. /\ DOMAIN whole = DOMAIN all /\ DOMAIN below = DOMAIN first /\ DOMAIN above = DOMAIN second
        /\ \A i \in 1 .. x : whole[i] = below[i]
        /\ \A i \in 1 .. y : whole[x + i] = above[i]
    BY <1>1, <1>2
  <2> HIDE DEF whole, below, above
  <2>2. Joined(whole, below, above)
    BY <1>3, <2>1
  <2> QED BY <2>2 DEF whole, below, above
<1>5. ASSUME NEW f
      PROVE  Joined([i \in DOMAIN all |-> Fields(all[i], f)], [i \in DOMAIN first |-> Fields(first[i], f)],
                    [i \in DOMAIN second |-> Fields(second[i], f)])
  <2> DEFINE whole == [i \in DOMAIN all |-> Fields(all[i], f)]
             below == [i \in DOMAIN first |-> Fields(first[i], f)]
             above == [i \in DOMAIN second |-> Fields(second[i], f)]
  <2>1. /\ DOMAIN whole = DOMAIN all /\ DOMAIN below = DOMAIN first /\ DOMAIN above = DOMAIN second
        /\ \A i \in 1 .. x : whole[i] = below[i]
        /\ \A i \in 1 .. y : whole[x + i] = above[i]
    BY <1>1, <1>2
  <2> HIDE DEF whole, below, above
  <2>2. Joined(whole, below, above)
    BY <1>3, <2>1
  <2> QED BY <2>2 DEF whole, below, above
<1> QED BY <1>4, <1>5

(* The merge of the overlays of two sequences of documents is the overlay  *)
(* of both, one after the other.                                           *)
LEMMA MergeOverlays ==
    ASSUME NotAList, NEW base, NEW over, NEW from, NEW source, NEW prov,
           IsMapping(base), WellShaped(base.modules), IsMapping(over), WellShaped(over.modules),
           NEW first, Overlays(base, first), NEW second, Overlays(over, second),
           NEW all, Joined(all, first, second),
           NEW result, result = MergeDocuments(base, over, from, source, prov)
    PROVE  Overlays(result.doc, all)
<1> DEFINE doc == result.doc
<1>1. PICK z \in Nat :
         /\ DOMAIN first = 1 .. z /\ DOMAIN first \subseteq DOMAIN all /\ DOMAIN all \subseteq Nat
         /\ \A i \in DOMAIN first : all[i] = first[i]
         /\ \A i \in DOMAIN second : z + i \in DOMAIN all /\ all[z + i] = second[i] /\ i \in Nat /\ i > 0
         /\ \A i \in DOMAIN all : i \in DOMAIN first \/ (i > z /\ i - z \in DOMAIN second /\ all[i] = second[i - z])
  BY JoinedPlaces
<1>2. PICK p : doc.modules = MergeModules(base.modules, over.modules, from, source, p).value
  BY MergedFields
<1>3. IsModules(base.modules) /\ IsModules(over.modules)
  BY DEF IsMapping
<1>4. IdsOf(doc.modules) = IdsOf(base.modules) \cup IdsOf(over.modules)
  BY <1>2, <1>3, MergedModulesFit
<1>5. HoldsAll(doc, all)
  <2>1. DOMAIN doc.sections = DOMAIN base.sections \cup DOMAIN over.sections
    <3>1. PICK modules, sections :
              /\ sections = MergeSections(base.sections, over.sections, from, source, prov).value
              /\ result = MergedDocument(sections, modules)
      BY DEF MergeDocuments
    <3>2. doc.sections = sections
      BY <3>1, SMTT(30) DEF MergedDocument, Resolved
    <3>3. DOMAIN sections = DOMAIN base.sections \cup DOMAIN over.sections
      BY <3>1 DEF MergeSections, Override
    <3> QED BY <3>2, <3>3
  <2>2. /\ DOMAIN base.sections = UNION {DOMAIN first[i].sections : i \in DOMAIN first}
        /\ DOMAIN over.sections = UNION {DOMAIN second[i].sections : i \in DOMAIN second}
        /\ IdsOf(base.modules) = UNION {IdsOf(first[i].modules) : i \in DOMAIN first}
        /\ IdsOf(over.modules) = UNION {IdsOf(second[i].modules) : i \in DOMAIN second}
    BY DEF Overlays, HoldsAll
  <2>3. UNION {DOMAIN all[i].sections : i \in DOMAIN all} = DOMAIN doc.sections
    BY <1>1, <2>1, <2>2
  <2>4. UNION {IdsOf(all[i].modules) : i \in DOMAIN all} = IdsOf(doc.modules)
    BY <1>1, <1>4, <2>2
  <2> QED BY <2>3, <2>4 DEF HoldsAll
<1>6. InOrder(doc, all)
  <2> SUFFICES ASSUME NEW a \in DOMAIN doc.modules, NEW b \in DOMAIN doc.modules, a < b
               PROVE  AppearsBefore(all, doc.modules[a].id, doc.modules[b].id)
    BY DEF InOrder
  <2> DEFINE new == DOMAIN doc.modules \ DOMAIN base.modules
  <2>1. /\ doc.modules \in Seq(Range(doc.modules)) /\ DOMAIN base.modules \subseteq DOMAIN doc.modules
        /\ \A i \in DOMAIN base.modules : doc.modules[i].id = base.modules[i].id
    BY <1>2, <1>3, MergedModulesAre
  <2>2. \A i \in new : \E k \in DOMAIN over.modules :
            doc.modules[i] = over.modules[k] /\ over.modules[k].id \notin IdsOf(base.modules)
    BY <1>2, <1>3, MergedModulesAre
  <2>3. \A i, j \in new : \A k, l \in DOMAIN over.modules :
            i < j /\ doc.modules[i] = over.modules[k] /\ doc.modules[j] = over.modules[l] => k < l
    BY <1>2, <1>3, MergedModulesAre
  <2>4. IdsOf(base.modules) = UNION {IdsOf(first[i].modules) : i \in DOMAIN first}
    BY DEF Overlays, HoldsAll
  <2>5. base.modules \in Seq(Range(base.modules))
    BY <1>3 DEF IsModules, WellShaped
  <2>6. CASE b \in DOMAIN base.modules
    <3>1. a \in DOMAIN base.modules
      BY <2>1, <2>5, <2>6
    <3>2. AppearsBefore(first, base.modules[a].id, base.modules[b].id)
      BY <2>6, <3>1 DEF Overlays, InOrder
    <3> QED BY <2>1, <2>6, <3>1, <3>2, AppearsInJoined
  <2>7. CASE b \notin DOMAIN base.modules
    <3>1. PICK l \in DOMAIN over.modules :
              doc.modules[b] = over.modules[l] /\ over.modules[l].id \notin IdsOf(base.modules)
      BY <2>2, <2>7
    <3>2. CASE a \in DOMAIN base.modules
      <4>1. doc.modules[a].id \in IdsOf(base.modules)
        BY <2>1, <3>2 DEF IdsOf
      <4> QED BY <2>4, <3>1, <4>1, AppearsInJoined
    <3>3. CASE a \notin DOMAIN base.modules
      <4>1. PICK k \in DOMAIN over.modules : doc.modules[a] = over.modules[k]
        BY <2>2, <3>3
      <4>2. k < l
        BY <2>3, <2>7, <3>1, <3>3, <4>1
      <4>3. AppearsBefore(second, over.modules[k].id, over.modules[l].id)
        BY <4>2 DEF Overlays, InOrder
      <4> QED BY <2>4, <3>1, <4>1, <4>3, AppearsInJoined
    <3> QED BY <3>2, <3>3
  <2> QED BY <2>6, <2>7
<1>7. \A s : LaidOver(Section(doc, s), [i \in DOMAIN all |-> Section(all[i], s)])
  <2> TAKE s
  <2>1. Alike(Section(doc, s), Override(Section(base, s), Section(over, s)))
    <3>1. result.ok
      BY MergeIsFit
    <3> QED BY <3>1, MergedSection
  <2> DEFINE below == [i \in DOMAIN first |-> Section(first[i], s)]
             above == [i \in DOMAIN second |-> Section(second[i], s)]
             whole == [i \in DOMAIN all |-> Section(all[i], s)]
  <2>2. LaidOver(Section(base, s), below) /\ LaidOver(Section(over, s), above)
    BY DEF Overlays
  <2>3. Joined(whole, below, above)
    BY DocumentsJoin
  <2> HIDE DEF below, above, whole, doc
  <2>4. LaidOver(Section(doc, s), whole)
    BY <2>1, <2>2, <2>3, LayersJoin
  <2> QED BY <2>4 DEF whole
<1>8. \A m : LaidOver(Fields(doc, m), [i \in DOMAIN all |-> Fields(all[i], m)])
  <2> TAKE m
  <2>1. Alike(Fields(doc, m), Override(Fields(base, m), Fields(over, m)))
    BY MergedFields
  <2> DEFINE below == [i \in DOMAIN first |-> Fields(first[i], m)]
             above == [i \in DOMAIN second |-> Fields(second[i], m)]
             whole == [i \in DOMAIN all |-> Fields(all[i], m)]
  <2>2. LaidOver(Fields(base, m), below) /\ LaidOver(Fields(over, m), above)
    BY DEF Overlays
  <2>3. Joined(whole, below, above)
    BY DocumentsJoin
  <2> HIDE DEF below, above, whole, doc
  <2>4. LaidOver(Fields(doc, m), whole)
    BY <2>1, <2>2, <2>3, LayersJoin
  <2> QED BY <2>4 DEF whole
<1> QED BY <1>5, <1>6, <1>7, <1>8 DEF Overlays

PartsJob(seqs) == [of |-> "parts", seqs |-> seqs]
PartsLoop(seqs) == Solution(PartsJob(seqs), 1 .. Len(seqs))

LEMMA FlattenUnfolds ==
    ASSUME NEW seqs, Len(seqs) \in Nat, Len(seqs) # 0
    PROVE  /\ FlattenSeq(seqs) = PartsLoop(seqs)[Len(seqs)]
           /\ PartsLoop(seqs) = [i \in 1 .. Len(seqs) |-> OnePart(seqs, PartsLoop(seqs), i)]
<1> DEFINE job == PartsJob(seqs)
           n == Len(seqs)
           R == {p \in Nat \X Nat : p[1] < p[2]}
           places == 1 .. n
<1>1. \A g, x : Level(job, g, x) = OnePart(seqs, g, x)
  BY DEF Level, PartsJob
<1>2. IsWellFoundedOn(R, places) /\ IsTransitivelyClosedOn(R, places)
  <2>1. places \subseteq 0 .. n
    OBVIOUS
  <2>2. IsWellFoundedOn(R, 0 .. n)
    BY IndicesGrow
  <2>3. IsTransitivelyClosedOn(R, places)
    BY DEF IsTransitivelyClosedOn
  <2> HIDE DEF R, places
  <2> QED BY <2>1, <2>2, <2>3, IsWellFoundedOnSubset
<1>3. ASSUME NEW x \in places, NEW g, NEW h, \A y \in places : <<y, x>> \in R => g[y] = h[y]
      PROVE  Level(job, g, x) = Level(job, h, x)
  <2>1. x # 1 => x - 1 \in places /\ <<x - 1, x>> \in R
    OBVIOUS
  <2>2. x # 1 => g[x - 1] = h[x - 1]
    BY <1>3, <2>1
  <2> QED BY <1>1, <2>2 DEF OnePart
<1>4. Solution(job, places) = [x \in places |-> Level(job, Solution(job, places), x)]
  <2> HIDE DEF job, R, places
  <2> QED BY <1>2, <1>3, RecursionUnfolds
<1>5. FlattenSeq(seqs) = PartsLoop(seqs)[Len(seqs)]
  BY DEF FlattenSeq, PartsLoop, Solution, Level, PartsJob, OnePart
<1> QED BY <1>1, <1>4, <1>5 DEF PartsLoop

LEMMA FlattenedIsSequence ==
    ASSUME NEW T, NEW seqs, Len(seqs) \in Nat, Len(seqs) # 0, \A i \in 1 .. Len(seqs) : seqs[i] \in Seq(T)
    PROVE  /\ \A i \in 1 .. Len(seqs) : PartsLoop(seqs)[i] \in Seq(T)
           /\ FlattenSeq(seqs) \in Seq(T)
<1> DEFINE flat == PartsLoop(seqs)
           n == Len(seqs)
           Bad == {i \in 1 .. n : flat[i] \notin Seq(T)}
<1>1. /\ \A i \in 1 .. n : flat[i] = OnePart(seqs, flat, i)
      /\ FlattenSeq(seqs) = flat[n]
  BY FlattenUnfolds
<1> HIDE DEF flat, n
<1>2. n \in Nat /\ n # 0 /\ \A i \in 1 .. n : seqs[i] \in Seq(T)
  BY DEF n
<1>3. ASSUME NEW i \in Bad PROVE i - 1 \in Bad
  <2>1. i # 1
    <3>1. CASE i = 1
      <4>1. flat[i] = seqs[i]
        BY <1>1, <1>2, <3>1 DEF OnePart
      <4> QED BY <1>2, <4>1
    <3> QED BY <3>1
  <2>2. i - 1 \in 1 .. n /\ flat[i] = flat[i - 1] \o seqs[i] /\ seqs[i] \in Seq(T)
    <3>1. i \in 1 .. n /\ i - 1 \in 1 .. n
      BY <1>2, <2>1
    <3>2. flat[i] = OnePart(seqs, flat, i)
      BY <1>1, <3>1
    <3> QED BY <1>2, <2>1, <3>1, <3>2 DEF OnePart
  <2>3. flat[i - 1] \in Seq(T) => flat[i - 1] \o seqs[i] \in Seq(T)
    BY <2>2, ConcatProperties
  <2> QED BY <2>2, <2>3
<1>4. Bad = {}
  <2>1. Bad \in SUBSET (0 .. n) /\ 0 \notin Bad
    BY <1>2
  <2> HIDE DEF Bad
  <2> QED BY <1>2, <1>3, <2>1, NoFirstRound
<1>5. \A i \in 1 .. n : flat[i] \in Seq(T)
  BY <1>4
<1>6. FlattenSeq(seqs) \in Seq(T)
  BY <1>1, <1>2, <1>5
<1> QED BY <1>5, <1>6 DEF flat, n

(* Going up from a file to one that extends it, there is more ancestry.    *)
LEMMA AncestriesShrink ==
    ASSUME TypeOK, NEW S \in SUBSET Files,
           NEW R, R = {p \in S \X S : Ancestry(p[1]) \subseteq Ancestry(p[2]) /\ Ancestry(p[1]) # Ancestry(p[2])}
    PROVE  IsWellFoundedOn(R, S) /\ IsTransitivelyClosedOn(R, S)
<1>1. IsTransitivelyClosedOn(R, S)
  BY DEF IsTransitivelyClosedOn
<1>2. ASSUME NEW down \in [Nat -> S], \A n \in Nat : <<down[n + 1], down[n]>> \in R PROVE FALSE
  <2> DEFINE shrinking == [n \in Nat |-> Ancestry(down[n])]
  <2>1. shrinking \in [Nat -> SUBSET Files]
    <3>1. \A n \in Nat : Ancestry(down[n]) \subseteq Files
      BY AncestryUnfolds
    <3> QED BY <3>1
  <2>2. ASSUME NEW n \in Nat PROVE <<shrinking[n + 1], shrinking[n]>> \in StrictSubsetOrdering(Files)
    <3>1. n + 1 \in Nat
      OBVIOUS
    <3>2. Ancestry(down[n + 1]) \subseteq Ancestry(down[n]) /\ Ancestry(down[n + 1]) # Ancestry(down[n])
      BY <1>2, <3>1
    <3>3. shrinking[n] = Ancestry(down[n]) /\ shrinking[n + 1] = Ancestry(down[n + 1])
      BY <3>1
    <3>4. shrinking[n] \in SUBSET Files /\ shrinking[n + 1] \in SUBSET Files
      BY <2>1, <3>1
    <3> HIDE DEF shrinking
    <3> QED BY <3>2, <3>3, <3>4 DEF StrictSubsetOrdering
  <2>3. IsWellFoundedOn(StrictSubsetOrdering(Files), SUBSET Files)
    BY ProfileFiles, FS_StrictSubsetOrderingWellFounded, FS_FiniteSubsetsOfFinite
  <2> QED BY <2>1, <2>2, <2>3 DEF IsWellFoundedOn
<1> QED BY <1>1, <1>2 DEF IsWellFoundedOn

(* In the ancestry of a profile that resolves, whatever extends something  *)
(* extends files with less ancestry.                                       *)
LEMMA ParentsHaveLess ==
    ASSUME TypeOK, NEW root \in Files, AllExtendable({}, root),
           NEW f \in Ancestry(root), disk[f].extends # NoExtends
    PROVE  /\ disk[f].extends \in Seq(Files) /\ disk[f].extends # <<>> /\ Outside \notin Range(disk[f].extends)
           /\ disk[f].extends \notin {NoExtends, BadExtends}
           /\ \A i \in DOMAIN disk[f].extends :
                 /\ disk[f].extends[i] \in Ancestry(root)
                 /\ Ancestry(disk[f].extends[i]) \subseteq Ancestry(f)
                 /\ Ancestry(disk[f].extends[i]) # Ancestry(f)
<1> DEFINE refs == disk[f].extends
<1>1. f \in Files /\ Ancestry(f) \subseteq Ancestry(root) /\ f \in Ancestry(f)
      /\ Ancestry(f) = {f} \cup UNION {Ancestry(g) : g \in Parents(f)}
  BY AncestryUnfolds
<1>2. /\ IsDocument(disk[f]) /\ refs \notin {NoExtends, BadExtends, <<>>} /\ Outside \notin Range(refs)
      /\ \A g \in Parents(f) : f \notin Ancestry(g)
  BY DEF AllExtendable, Extendable
<1>3. refs \in Seq(Files \cup {Outside}) /\ Parents(f) = Range(refs) \ {Outside} /\ Parents(f) \subseteq Files
  BY <1>1, <1>2, ParentsAreFiles
<1> HIDE DEF refs
<1>4. \A i \in DOMAIN refs : refs[i] \in Parents(f) /\ refs[i] \in Files
  BY <1>2, <1>3 DEF Range
<1>5. refs \in Seq(Files)
  BY <1>3, <1>4
<1>6. ASSUME NEW i \in DOMAIN refs
      PROVE  refs[i] \in Ancestry(root) /\ Ancestry(refs[i]) \subseteq Ancestry(f) /\ Ancestry(refs[i]) # Ancestry(f)
  <2>1. refs[i] \in Parents(f) /\ refs[i] \in Ancestry(refs[i])
    BY <1>4, <1>6, AncestryUnfolds
  <2> QED BY <1>1, <1>2, <2>1
<1> QED BY <1>2, <1>5, <1>6 DEF refs

LinesJob(files) == [of |-> "lines", files |-> files]
Lines(root) == Solution(LinesJob(disk), Ancestry(root))

LEMMA LineageUnfolds ==
    ASSUME TypeOK, NEW root \in Files, AllExtendable({}, root)
    PROVE  /\ Lineage(root) = Lines(root)[root]
           /\ \A f \in Ancestry(root) : Lines(root)[f] = OneLine(disk, Lines(root), f)
           /\ \A f \in Ancestry(root) : Lines(root)[f] \in Seq(Files)
<1> DEFINE S == Ancestry(root)
           R == {p \in S \X S : Ancestry(p[1]) \subseteq Ancestry(p[2]) /\ Ancestry(p[1]) # Ancestry(p[2])}
           job == LinesJob(disk)
           line == Lines(root)
<1>1. \A g, x : Level(job, g, x) = OneLine(disk, g, x)
  BY DEF Level, LinesJob
<1>2. S \in SUBSET Files
  BY AncestryUnfolds
<1>3. IsWellFoundedOn(R, S) /\ IsTransitivelyClosedOn(R, S)
  BY <1>2, AncestriesShrink
<1>4. ASSUME NEW f \in S, disk[f].extends # NoExtends, NEW i \in DOMAIN disk[f].extends
      PROVE  disk[f].extends[i] \in S /\ <<disk[f].extends[i], f>> \in R
  BY <1>4, ParentsHaveLess
<1>5. ASSUME NEW f \in S, NEW g, NEW h, \A y \in S : <<y, f>> \in R => g[y] = h[y]
      PROVE  Level(job, g, f) = Level(job, h, f)
  <2> DEFINE refs == disk[f].extends
  <2>1. CASE refs = NoExtends
    BY <1>1, <2>1 DEF OneLine
  <2>2. CASE refs # NoExtends
    <3> HIDE DEF S, R
    <3>1. \A i \in DOMAIN refs : g[refs[i]] = h[refs[i]]
      BY <1>4, <1>5, <2>2
    <3>2. [i \in DOMAIN refs |-> g[refs[i]]] = [i \in DOMAIN refs |-> h[refs[i]]]
      BY <3>1
    <3>3. OneLine(disk, g, f) = OneLine(disk, h, f)
      BY <2>2, <3>2 DEF OneLine
    <3> HIDE DEF job
    <3> QED BY <1>1, <3>3
  <2> QED BY <2>1, <2>2
<1>6. Solution(job, S) = [x \in S |-> Level(job, Solution(job, S), x)]
  <2> HIDE DEF job, R, S
  <2> QED BY <1>3, <1>5, RecursionUnfolds
<1>7. \A f \in S : line[f] = OneLine(disk, line, f)
  BY <1>1, <1>6 DEF Lines
<1>8. Lineage(root) = line[root]
  BY DEF Lineage, Lines, Solution, Level, LinesJob, OneLine
<1>9. \A f \in S : line[f] \in Seq(Files)
  <2> DEFINE Bad == {f \in S : line[f] \notin Seq(Files)}
  <2>1. SUFFICES ASSUME Bad # {} PROVE FALSE
    OBVIOUS
  <2>2. PICK f \in Bad : \A g \in Bad : <<g, f>> \notin R
    <3> HIDE DEF R, S
    <3>1. Bad \subseteq S
      OBVIOUS
    <3> HIDE DEF Bad
    <3> QED BY <1>3, <2>1, <3>1, WFMin
  <2> DEFINE refs == disk[f].extends
             seqs == [i \in DOMAIN refs |-> line[refs[i]]]
  <2> HIDE DEF line
  <2>3. f \in Files /\ f \in S
    BY <1>2
  <2>4. CASE refs = NoExtends
    <3>1. line[f] = <<f>>
      BY <1>7, <2>3, <2>4 DEF OneLine
    <3>2. <<f>> \in Seq(Files)
      BY <2>3
    <3> QED BY <3>1, <3>2
  <2>5. CASE refs # NoExtends
    <3>1. refs \in Seq(Files) /\ refs # <<>>
      BY <2>5, ParentsHaveLess
    <3>2. \A i \in DOMAIN refs : line[refs[i]] \in Seq(Files)
      <4> TAKE i \in DOMAIN refs
      <4>1. refs[i] \in S /\ <<refs[i], f>> \in R
        BY <1>4, <2>3, <2>5
      <4> HIDE DEF R, S
      <4> QED BY <2>2, <4>1
    <3>3. DOMAIN refs = 1 .. Len(refs) /\ Len(refs) \in Nat /\ Len(refs) # 0
      BY <3>1
    <3>4. Len(seqs) = Len(refs) /\ \A i \in 1 .. Len(refs) : seqs[i] \in Seq(Files)
      <4>1. seqs \in Seq(Seq(Files))
        BY <3>2, <3>3
      <4> QED BY <3>2, <3>3, <4>1
    <3> HIDE DEF seqs
    <3>5. FlattenSeq(seqs) \in Seq(Files)
      BY <3>3, <3>4, FlattenedIsSequence
    <3>6. line[f] = FlattenSeq(seqs) \o <<f>>
      BY <1>7, <2>3, <2>5 DEF OneLine, seqs
    <3>7. <<f>> \in Seq(Files)
      BY <2>3
    <3>8. line[f] \in Seq(Files)
      BY <3>5, <3>6, <3>7, ConcatProperties
    <3> QED BY <3>8
  <2> QED BY <2>4, <2>5
<1> QED BY <1>7, <1>8, <1>9

LEMMA DocsJoin ==
    ASSUME NEW T, NEW first \in Seq(T), NEW second \in Seq(T)
    PROVE  Joined(DocsOf(first \o second), DocsOf(first), DocsOf(second))
<1> DEFINE all == first \o second
           m == Len(first)
           n == Len(second)
<1>1. /\ all \in Seq(T) /\ Len(all) = m + n
      /\ \A i \in 1 .. m + n : all[i] = IF i <= m THEN first[i] ELSE second[i - m]
  BY ConcatProperties
<1>2. m \in Nat /\ n \in Nat /\ DOMAIN first = 1 .. m /\ DOMAIN second = 1 .. n
  OBVIOUS
<1>3. DOMAIN all = 1 .. m + n
  BY <1>1
<1> HIDE DEF all, m, n
<1>4. \A i \in 1 .. m : i \in DOMAIN all /\ all[i] = first[i]
  BY <1>1, <1>2, <1>3
<1>5. \A i \in 1 .. n : m + i \in DOMAIN all /\ all[m + i] = second[i]
  <2> TAKE i \in 1 .. n
  <2> DEFINE j == m + i
  <2>1. j \in 1 .. m + n /\ ~(j <= m) /\ j - m = i
    BY <1>2
  <2> HIDE DEF j
  <2>2. j \in DOMAIN all /\ all[j] = second[i]
    BY <1>1, <1>3, <2>1
  <2> QED BY <2>2 DEF j
<1>6. /\ DOMAIN DocsOf(first) = 1 .. m /\ DOMAIN DocsOf(second) = 1 .. n /\ DOMAIN DocsOf(all) = 1 .. m + n
      /\ \A i \in 1 .. m : DocsOf(all)[i] = DocsOf(first)[i]
      /\ \A i \in 1 .. n : DocsOf(all)[m + i] = DocsOf(second)[i]
  BY <1>2, <1>3, <1>4, <1>5 DEF DocsOf
<1>7. Joined(DocsOf(all), DocsOf(first), DocsOf(second))
  BY <1>2, <1>6 DEF Joined
<1> QED BY <1>7 DEF all

\* A result that can be merged with others is the overlay of the files of a line.
Overlaid(result, line) == Mergeable(result) /\ Overlays(result.doc, DocsOf(line))

(* The parents of a file come to the overlay of their lines, one after the *)
(* other.                                                                  *)
LEMMA ParentsOverlay ==
    ASSUME NotAList, NEW refs \in Seq(Files), refs # <<>>, NEW parents, \A ref \in Files : Fit(parents[ref]),
           NEW line, \A i \in DOMAIN refs : line[refs[i]] \in Seq(Files) /\ Overlaid(parents[refs[i]], line[refs[i]])
    PROVE  Overlaid(MergedParents(refs, parents), FlattenSeq([i \in DOMAIN refs |-> line[refs[i]]]))
<1> DEFINE seqs == [i \in DOMAIN refs |-> line[refs[i]]]
           flat == PartsLoop(seqs)
           merged == ParentsLoop(refs, parents)
           n == Len(refs)
           Done(i) == IF i = 0 THEN merged[i] = Beginning
                      ELSE Underway(merged[i]) /\ Overlaid(merged[i], flat[i])
           Bad == {i \in 0 .. n : ~Done(i)}
<1>1. n \in Nat /\ n # 0 /\ DOMAIN refs = 1 .. n /\ \A i \in 1 .. n : refs[i] \in Files
  OBVIOUS
<1>2. /\ \A i \in 0 .. n : merged[i] = OneParent(refs, parents, merged, i)
      /\ MergedParents(refs, parents) = merged[n]
  BY <1>1, MergedUnfolds
<1>3. Len(seqs) = n /\ \A i \in 1 .. n : seqs[i] = line[refs[i]] /\ seqs[i] \in Seq(Files)
  <2>1. \A i \in 1 .. n : seqs[i] = line[refs[i]] /\ seqs[i] \in Seq(Files)
    BY <1>1
  <2>2. seqs \in Seq(Seq(Files))
    BY <1>1, <2>1
  <2> QED BY <1>1, <2>1, <2>2
<1> HIDE DEF merged, n, seqs
<1>4. /\ \A i \in 1 .. n : flat[i] = OnePart(seqs, flat, i) /\ flat[i] \in Seq(Files)
      /\ FlattenSeq(seqs) = flat[n]
  <2>1. Len(seqs) \in Nat /\ Len(seqs) # 0 /\ \A i \in 1 .. Len(seqs) : seqs[i] \in Seq(Files)
    BY <1>1, <1>3
  <2>2. flat = [i \in 1 .. Len(seqs) |-> OnePart(seqs, flat, i)] /\ FlattenSeq(seqs) = flat[Len(seqs)]
    BY <2>1, FlattenUnfolds
  <2>3. \A i \in 1 .. Len(seqs) : flat[i] \in Seq(Files)
    BY <2>1, FlattenedIsSequence
  <2> HIDE DEF flat
  <2> QED BY <1>3, <2>2, <2>3
<1> HIDE DEF flat
<1>5. 0 \notin Bad
  BY <1>1, <1>2 DEF OneParent, Beginning
<1>6. ASSUME NEW i \in Bad PROVE i - 1 \in Bad
  <2>1. i \in 1 .. n /\ i - 1 \in 0 .. n
    BY <1>1, <1>5
  <2>2. SUFFICES ASSUME Done(i - 1) PROVE Done(i)
    BY <2>1
  <2> DEFINE soFar == merged[i - 1]
             ref == refs[i]
             parent == parents[ref]
             both == MergeDocuments(soFar.doc, parent.doc, soFar.from, ref, soFar.prov)
  <2>3. /\ ref \in Files /\ ref # Outside /\ Fit(parent) /\ IsMapping(parent.doc) /\ parent.ok
        /\ Overlaid(parent, seqs[i])
    BY <1>1, <1>3, <2>1, ProfileFiles DEF Overlaid, Mergeable, Fit
  <2>4. merged[i] = AddParent(soFar, ref, parent)
    BY <1>2, <2>1, <2>3 DEF OneParent
  <2>5. CASE i = 1
    <3>1. soFar = Beginning
      BY <2>2, <2>5
    <3>2. merged[i] = From(ref, parent)
      BY <2>3, <2>4, <3>1, BeginningIs DEF AddParent
    <3>3. Explained(parent) /\ flat[i] = seqs[i]
      BY <1>4, <2>1, <2>3, <2>5 DEF Fit, OnePart
    <3> HIDE DEF ref, parent
    <3>4. /\ Explained(merged[i]) /\ merged[i].ok = parent.ok /\ merged[i].doc = parent.doc
          /\ merged[i].from = ref
      BY <3>2, <3>3, FromKeeps
    <3>5. Underway(merged[i]) /\ Overlaid(merged[i], flat[i])
      BY <2>3, <3>3, <3>4 DEF Underway, Fit, Overlaid, Mergeable
    <3> QED BY <2>5, <3>5
  <2>6. CASE i # 1
    <3>1. /\ i - 1 \in 1 .. n /\ Underway(soFar) /\ Overlaid(soFar, flat[i - 1])
          /\ flat[i - 1] \in Seq(Files) /\ seqs[i] \in Seq(Files)
      BY <1>1, <1>3, <1>4, <2>1, <2>2, <2>6
    <3>2. flat[i] = flat[i - 1] \o seqs[i]
      BY <1>4, <2>1, <2>6 DEF OnePart
    <3>3. soFar.ok /\ soFar.from # Absent /\ IsMapping(soFar.doc)
      BY <3>1, ProfileFiles DEF Underway, Overlaid, Mergeable, Fit
    <3>4. merged[i] = From(ref, both)
      BY <2>3, <2>4, <3>3 DEF AddParent
    <3>5. Fit(both) /\ Mergeable(both)
      BY <2>3, <3>1, <3>3, MergeIsFit DEF Overlaid, Mergeable
    <3>6. Overlays(both.doc, DocsOf(flat[i]))
      <4>1. Joined(DocsOf(flat[i]), DocsOf(flat[i - 1]), DocsOf(seqs[i]))
        BY <3>1, <3>2, DocsJoin
      <4> HIDE DEF soFar, ref, parent
      <4>2. /\ WellShaped(soFar.doc.modules) /\ Overlays(soFar.doc, DocsOf(flat[i - 1]))
            /\ WellShaped(parent.doc.modules) /\ Overlays(parent.doc, DocsOf(seqs[i]))
        BY <2>3, <3>1 DEF Overlaid, Mergeable
      <4> QED BY <2>3, <3>3, <4>1, <4>2, MergeOverlays
    <3> HIDE DEF both, ref, parent
    <3>7. /\ Explained(merged[i]) /\ merged[i].ok = both.ok /\ merged[i].doc = both.doc
          /\ merged[i].from = ref
      BY <3>4, <3>5, FromKeeps DEF Fit
    <3>8. Underway(merged[i]) /\ Overlaid(merged[i], flat[i])
      BY <2>3, <3>5, <3>6, <3>7 DEF Underway, Fit, Overlaid, Mergeable
    <3> QED BY <2>1, <3>8
  <2> QED BY <2>5, <2>6
<1>7. Bad = {}
  <2> HIDE DEF Bad
  <2>1. Bad \in SUBSET (0 .. n)
    BY DEF Bad
  <2> QED BY <1>1, <1>5, <1>6, <2>1, NoFirstRound
<1>8. Overlaid(merged[n], flat[n])
  BY <1>1, <1>7
<1> QED BY <1>2, <1>4, <1>8 DEF seqs

(* Whatever way leads to it, a file of the profile's ancestry comes to the *)
(* overlay of its line, if it can be extended.                             *)
LEMMA ComposedOverlays ==
    ASSUME NotAList, TypeOK, NEW root \in Files, AllExtendable({}, root)
    PROVE  \A stack \in SUBSET Files : \A f \in Ancestry(root) :
               Mergeable(Composed(disk)[stack][f]) => Overlaid(Composed(disk)[stack][f], Lines(root)[f])
<1> DEFINE composed == Composed(disk)
           line == Lines(root)
           S == Ancestry(root)
           Good(stack, f) == Mergeable(composed[stack][f]) => Overlaid(composed[stack][f], line[f])
           Bad == {stack \in SUBSET Files : \E f \in S : ~Good(stack, f)}
<1>1. /\ \A stack \in SUBSET Files : \A f \in Files : composed[stack][f] = OneFile(disk, composed, stack, f)
      /\ \A stack \in SUBSET Files : \A f \in Files : Fit(composed[stack][f])
      /\ \A f \in Files : IsContent(disk[f])
  BY ComposedUnfolds, ComposedIsFit DEF TypeOK
<1>2. \A f \in S : f \in Files /\ line[f] = OneLine(disk, line, f) /\ line[f] \in Seq(Files)
  BY LineageUnfolds, AncestryUnfolds
<1> HIDE DEF composed, line
<1>3. ASSUME NEW stack \in Bad PROVE \E f \in Files : f \notin stack /\ stack \cup {f} \in Bad
  <2>1. PICK f \in S : ~Good(stack, f)
    OBVIOUS
  <2> DEFINE result == composed[stack][f]
             doc == disk[f]
             refs == doc.extends
             below(ref) == composed[stack \cup {f}][ref]
             parents == [ref \in Files |-> IF disk[ref] = Absent THEN Failed("E112") ELSE below(ref)]
             own == DocsOf(<<f>>)
  <2>2. SUFFICES ASSUME f \notin stack => \A g \in S : Good(stack \cup {f}, g), Mergeable(result)
                 PROVE  Overlaid(result, line[f])
    BY <1>2, <2>1
  <2>3. f \in Files /\ result = OneFile(disk, composed, stack, f)
    BY <1>1, <1>2
  <2>4. /\ f \notin stack /\ IsDocument(doc) /\ WellShaped(doc.modules)
        /\ refs # NoExtends => \A ref \in Range(refs) : disk[ref] # Absent /\ Mergeable(below(ref))
    <3>1. stack \in SUBSET Files /\ stack \cup {f} \in SUBSET Files /\ Mergeable(result)
      BY <2>2, <2>3
    <3> HIDE DEF Bad, result
    <3>2. /\ f \notin stack => \A ref \in Files : Fit(below(ref))
          /\ \A g \in Files : IsContent(disk[g])
      BY <1>1, <3>1
    <3>3. Mergeable(result) <=>
            /\ f \notin stack /\ IsDocument(disk[f]) /\ WellShaped(disk[f].modules)
            /\ disk[f].extends # NoExtends =>
                 /\ disk[f].extends \notin {BadExtends, <<>>}
                 /\ \A ref \in Range(disk[f].extends) :
                      ref # Outside /\ disk[ref] # Absent /\ Mergeable(below(ref))
      BY <2>3, <3>2, OneFileIsFit, ZenonT(60)
    <3> QED BY <3>1, <3>3
  <2>5. IsMapping(doc) /\ Overlays(doc, own)
    <3>1. IsMapping(doc)
      BY <1>1, <2>3, <2>4 DEF IsContent
    <3>2. DOMAIN own = 1 .. 1 /\ own[1] = doc
      BY DEF DocsOf
    <3> HIDE DEF own, doc
    <3> QED BY <2>4, <3>1, <3>2, OverlaysItself DEF doc
  <2>6. result = MergeParents(doc, f, parents)
    BY <2>3, <2>4 DEF OneFile
  <2> HIDE DEF result, doc, parents, own, below
  <2>7. CASE refs = NoExtends
    <3>1. result.doc = doc
      BY <2>6, <2>7 DEF MergeParents, Resolved
    <3>2. line[f] = <<f>>
      BY <1>2, <2>7 DEF OneLine, doc
    <3> QED BY <2>2, <2>5, <3>1, <3>2 DEF Overlaid, own
  <2>8. CASE refs # NoExtends
    <3> DEFINE m == MergedParents(refs, parents)
               before == FlattenSeq([i \in DOMAIN refs |-> line[refs[i]]])
    <3>1. /\ refs \in Seq(Files) /\ refs \notin {NoExtends, BadExtends, <<>>}
          /\ \A i \in DOMAIN refs : refs[i] \in S
      BY <2>8, ParentsHaveLess DEF doc
    <3>2. \A ref \in Files : Fit(parents[ref])
      BY <1>1, <2>3, ResultsAreFit DEF parents, below
    <3>3. ASSUME NEW i \in DOMAIN refs
          PROVE  line[refs[i]] \in Seq(Files) /\ Overlaid(parents[refs[i]], line[refs[i]])
      <4>1. refs[i] \in S /\ refs[i] \in Files /\ refs[i] \in Range(refs)
        BY <1>2, <3>1 DEF Range
      <4>2. disk[refs[i]] # Absent /\ Mergeable(below(refs[i]))
        BY <2>4, <2>8, <4>1
      <4>3. parents[refs[i]] = below(refs[i])
        BY <4>1, <4>2 DEF parents
      <4>4. Overlaid(below(refs[i]), line[refs[i]])
        BY <2>2, <2>4, <4>1, <4>2 DEF below
      <4> QED BY <1>2, <4>1, <4>3, <4>4
    <3> HIDE DEF refs, S
    <3>4. Overlaid(m, before)
      BY <3>1, <3>2, <3>3, ParentsOverlay
    <3>5. Underway(m)
      <4>1. refs \in Seq(Files \cup {Outside})
        BY <3>1
      <4> QED BY <3>1, <3>2, <4>1, MergedParentsIsFit
    <3>6. result = Extend(doc, f, m)
      BY <2>6, <3>1 DEF MergeParents, refs
    <3>7. line[f] = before \o <<f>> /\ line[f] \in Seq(Files)
      BY <1>2, <2>8 DEF OneLine, refs, doc
    <3>8. before \in Seq(Files)
      <4> DEFINE seqs == [i \in DOMAIN refs |-> line[refs[i]]]
      <4>1. \A i \in DOMAIN refs : seqs[i] \in Seq(Files)
        BY <3>3
      <4>2. DOMAIN refs = 1 .. Len(refs) /\ Len(refs) \in Nat /\ Len(refs) # 0
        BY <3>1
      <4>3. seqs \in Seq(Seq(Files)) /\ Len(seqs) = Len(refs)
        BY <4>1, <4>2
      <4> HIDE DEF seqs
      <4>4. FlattenSeq(seqs) \in Seq(Files)
        BY <4>1, <4>2, <4>3, FlattenedIsSequence
      <4> QED BY <4>4 DEF seqs
    <3> HIDE DEF m, before
    <3>9. Joined(DocsOf(line[f]), DocsOf(before), own)
      <4>1. <<f>> \in Seq(Files)
        BY <2>3
      <4> QED BY <3>7, <3>8, <4>1, DocsJoin DEF own
    <3>10. /\ m.ok /\ IsMapping(m.doc) /\ WellShaped(m.doc.modules) /\ Overlays(m.doc, DocsOf(before))
      BY <3>4, <3>5 DEF Overlaid, Mergeable, Underway, Fit
    <3>11. result = MergeDocuments(m.doc, doc, m.from, f, m.prov)
      BY <3>6, <3>10 DEF Extend
    <3>12. Overlays(result.doc, DocsOf(line[f]))
      BY <2>4, <2>5, <3>9, <3>10, <3>11, MergeOverlays
    <3> QED BY <2>2, <3>12 DEF Overlaid
  <2> QED BY <2>7, <2>8
<1>4. Bad = {}
  <2> HIDE DEF Bad
  <2>1. Bad \in SUBSET (SUBSET Files)
    BY DEF Bad
  <2> QED BY <1>3, <2>1, NoLastStack
<1> QED BY <1>4 DEF composed, line

(* A profile resolves exactly if none of its files is missing, malformed   *)
(* or its own ancestor, however many there are and however they refer to   *)
(* each other; and then it is its files laid over each other in order, and *)
(* the overlay of the environment over them.                               *)
THEOREM ProfilesResolveAsWritten ==
    ASSUME NotAList
    PROVE  Spec => []ResolvedAsWritten
<1>1. TypeOK => ResolvedAsWritten
  <2> DEFINE last(overlay) == IF overlay = Absent THEN <<>> ELSE <<overlay>>
  <2> SUFFICES ASSUME TypeOK, NEW overlay \in Environs, NEW resolved, resolved = Resolve(disk, Profile, overlay)
               PROVE  /\ resolved.ok <=> Composable(Profile, overlay)
                      /\ resolved.ok /\ WellShaped(resolved.doc.modules) =>
                            OverlayOf(resolved.doc, DocsOf(Lineage(Profile) \o last(overlay)))
    BY DEF ResolvedAsWritten
  <2>1. /\ overlay \in Files \cup {Absent} /\ overlay # Profile /\ Profile \in Files
        /\ overlay # Absent => overlay # Outside /\ overlay \in Files
        /\ \A f \in Files : IsContent(disk[f])
    BY Contents, ProfileFiles DEF Environs, TypeOK
  <2>2. resolved.ok <=> Composable(Profile, overlay)
    BY <2>1, ResolvedIfExtendable
  <2> DEFINE base == ComposeExtends(disk, Profile)
             line == Lineage(Profile)
             over == disk[overlay]
             whole == DocsOf(line \o last(overlay))
  <2>3. ASSUME resolved.ok, WellShaped(resolved.doc.modules) PROVE Overlays(resolved.doc, whole)
    <3>1. /\ resolved = ApplyEnvironment(disk, Profile, base, overlay)
          /\ Fit(base) /\ (Mergeable(base) <=> AllExtendable({}, Profile))
          /\ base = Composed(disk)[{}][Profile]
      BY <2>1, ComposeIsFit, ExtendedIfExtendable, ComposeUnfolds DEF Resolve
    <3> HIDE DEF base
    <3>2. base.ok /\ (overlay = Absent => resolved = base)
      BY <2>3, <3>1 DEF ApplyEnvironment
    <3>3. overlay # Absent =>
             /\ resolved = MergeDocuments(base.doc, over, Profile, overlay, base.prov)
             /\ IsMapping(base.doc) /\ IsMapping(over)
             /\ WellShaped(base.doc.modules) /\ WellShaped(over.modules)
      <4> SUFFICES ASSUME overlay # Absent
                   PROVE  /\ resolved = MergeDocuments(base.doc, over, Profile, overlay, base.prov)
                          /\ IsMapping(base.doc) /\ IsMapping(over)
                          /\ WellShaped(base.doc.modules) /\ WellShaped(over.modules)
        OBVIOUS
      <4>1. IsDocument(over)
        <5>1. CASE over = Absent
          BY <2>1, <2>3, <3>1, <3>2, <5>1, ResultsAreFit DEF ApplyEnvironment
        <5>2. CASE over = Unreadable
          <6>1. ~Load(over).ok
            BY <5>2, ResultsAreFit DEF IsDocument
          <6> QED BY <2>1, <2>3, <3>1, <3>2, <5>2, <6>1, ResultsAreFit DEF ApplyEnvironment
        <5> QED BY <5>1, <5>2 DEF IsDocument
      <4>2. resolved = MergeDocuments(base.doc, over, Profile, overlay, base.prov)
        BY <2>1, <3>1, <3>2, <4>1 DEF ApplyEnvironment, IsDocument
      <4>3. IsMapping(base.doc) /\ IsMapping(over)
        BY <2>1, <3>1, <3>2, <4>1 DEF Fit, IsContent
      <4> QED BY <2>3, <4>2, <4>3, MergeIsFit
    <3>4. Mergeable(base) /\ AllExtendable({}, Profile)
      BY <2>3, <3>1, <3>2, <3>3 DEF Mergeable
    <3>5. Overlays(base.doc, DocsOf(line)) /\ line \in Seq(Files)
      <4>1. Profile \in Ancestry(Profile) /\ {} \in SUBSET Files
        BY <2>1, AncestryUnfolds
      <4>2. line = Lines(Profile)[Profile] /\ line \in Seq(Files)
        BY <2>1, <3>4, <4>1, LineageUnfolds
      <4>3. Overlaid(base, line)
        BY <2>1, <3>1, <3>4, <4>1, <4>2, ComposedOverlays
      <4> QED BY <4>2, <4>3 DEF Overlaid
    <3> HIDE DEF line, over
    <3>6. CASE overlay = Absent
      <4>1. line \o last(overlay) = line
        <5>1. last(overlay) = <<>>
          BY <3>6
        <5> QED BY <3>5, <5>1, ConcatEmptySeq
      <4> QED BY <3>2, <3>5, <3>6, <4>1
    <3>7. CASE overlay # Absent
      <4> DEFINE own == DocsOf(<<overlay>>)
      <4>1. <<overlay>> \in Seq(Files) /\ last(overlay) = <<overlay>>
        BY <2>1, <3>7
      <4>2. Joined(whole, DocsOf(line), own)
        BY <3>5, <4>1, DocsJoin
      <4>3. DOMAIN own = 1 .. 1 /\ own[1] = over
        BY DEF DocsOf, over
      <4> HIDE DEF own, whole
      <4>4. Overlays(over, own)
        BY <3>3, <3>7, <4>3, OverlaysItself
      <4> QED BY <3>3, <3>5, <3>7, <4>2, <4>4, MergeOverlays
    <3> QED BY <3>6, <3>7
  <2> QED BY <2>2, <2>3, OverlaysIsOverlay
<1> QED BY <1>1, FilesStayDocuments, PTL

(***************************************************************************)
(* The dependency check: whatever depth-first search finds, compared with  *)
(* whether the modules can be started one after the other.                 *)
(***************************************************************************)

NodesJob(dfs, nodes, found) == [of |-> "nodes", dfs |-> dfs, nodes |-> nodes, found |-> found]
NodesLoop(dfs, nodes, found) == Solution(NodesJob(dfs, nodes, found), 0 .. Len(nodes))

SearchJob(ids, dependsOn) == [of |-> "search", ids |-> ids, dependsOn |-> dependsOn]

LEMMA VisitAllUnfolds ==
    ASSUME NEW dfs, NEW nodes, NEW found, Len(nodes) \in Nat
    PROVE  /\ VisitAll(dfs, nodes, found) = NodesLoop(dfs, nodes, found)[Len(nodes)]
           /\ NodesLoop(dfs, nodes, found) =
                  [i \in 0 .. Len(nodes) |-> OneNode(dfs, nodes, found, NodesLoop(dfs, nodes, found), i)]
<1> DEFINE job == NodesJob(dfs, nodes, found)
           n == Len(nodes)
<1>1. \A g, x : Level(job, g, x) = OneNode(dfs, nodes, found, g, x)
  BY DEF Level, NodesJob
<1>2. \A i \in 0 .. n : \A g, h : (i # 0 => g[i - 1] = h[i - 1]) => Level(job, g, i) = Level(job, h, i)
  BY <1>1 DEF OneNode
<1>3. Solution(job, 0 .. n) = [i \in 0 .. n |-> Level(job, Solution(job, 0 .. n), i)]
  <2> HIDE DEF job
  <2> QED BY <1>2, LoopUnfolds
<1>4. VisitAll(dfs, nodes, found) = NodesLoop(dfs, nodes, found)[Len(nodes)]
  BY DEF VisitAll, NodesLoop, Solution, Level, NodesJob, OneNode
<1> QED BY <1>1, <1>3, <1>4 DEF NodesLoop

LEMMA SearchUnfolds ==
    ASSUME NEW ids, IsFiniteSet(ids), NEW dependsOn
    PROVE  \A visiting \in SUBSET ids : \A n \in ids : \A found \in Findings(ids) :
               Search(ids, dependsOn)[visiting][n][found] =
                   Visit(ids, dependsOn, Search(ids, dependsOn), visiting, n, found)
<1> DEFINE job == SearchJob(ids, dependsOn)
           R == {p \in (SUBSET ids) \X (SUBSET ids) : p[2] \subseteq p[1] /\ p[1] # p[2]}
           sets == SUBSET ids
           visits(g, x) == [n \in ids |-> [found \in Findings(ids) |->
                               Visit(ids, dependsOn, g, x, n, found)]]
<1>1. \A g, x : Level(job, g, x) = visits(g, x)
  BY DEF Level, SearchJob
<1>2. ASSUME NEW x \in SUBSET ids, NEW g, NEW h, \A y \in SUBSET ids : <<y, x>> \in R => g[y] = h[y]
      PROVE  Level(job, g, x) = Level(job, h, x)
  <2>1. ASSUME NEW n \in ids, NEW found
        PROVE  Visit(ids, dependsOn, g, x, n, found) = Visit(ids, dependsOn, h, x, n, found)
    <3>1. CASE n \in x
      BY <3>1 DEF Visit
    <3>2. CASE n \notin x
      <4>1. g[x \cup {n}] = h[x \cup {n}]
        BY <3>2, <1>2
      <4> QED BY <4>1 DEF Visit
    <3> QED BY <3>1, <3>2
  <2>2. visits(g, x) = visits(h, x)
    BY <2>1
  <2> HIDE DEF job, visits
  <2> QED BY <2>2, <1>1
<1>3. Solution(job, sets) = [x \in sets |-> Level(job, Solution(job, sets), x)]
  <2> HIDE DEF job
  <2>1. IsWellFoundedOn(R, sets) /\ IsTransitivelyClosedOn(R, sets)
    BY SetsGrow
  <2>2. \A x \in sets : \A g, h : (\A y \in sets : <<y, x>> \in R => g[y] = h[y]) =>
                                     Level(job, g, x) = Level(job, h, x)
    BY <1>2
  <2> HIDE DEF R, sets
  <2> QED BY <2>1, <2>2, RecursionUnfolds
<1>4. \E g : g = [x \in sets |-> visits(g, x)]
  <2> HIDE DEF job, sets, visits
  <2> QED BY <1>1, <1>3
<1>5. Search(ids, dependsOn) = [x \in sets |-> visits(Search(ids, dependsOn), x)]
  BY <1>4 DEF Search
<1> QED BY <1>5

\* No set of nodes goes round in a circle.
NoCircle(nodes, dependsOn) ==
    \A S \in (SUBSET nodes) \ {{}} : \E m \in S : Range(dependsOn[m]) \cap S = {}

\* As long as there was nothing to complain of, what was visited needs nothing
\* that was not, and goes round in no circle.
Settled(ids, dependsOn, found) ==
    found.cycles = {} =>
        /\ NoCircle(found.visited, dependsOn)
        /\ \A m \in found.visited : Range(dependsOn[m]) \cap ids \subseteq found.visited

\* What has become of `found` when `nodes` have been visited.
Visited(ids, dependsOn, nodes, found, result) ==
    /\ result \in Findings(ids)
    /\ found.visited \subseteq result.visited /\ found.cycles \subseteq result.cycles
    /\ Settled(ids, dependsOn, found) => Settled(ids, dependsOn, result)
    /\ result.cycles = {} => nodes \subseteq result.visited

\* What dfs comes to for each node; it complains of none that is in `quiet`.
Visits(ids, dependsOn, dfs, quiet) ==
    \A n \in ids : \A found \in Findings(ids) :
        /\ Visited(ids, dependsOn, {n}, found, dfs[n][found])
        /\ n \in quiet => dfs[n][found].cycles = found.cycles

LEMMA VisitAllVisits ==
    ASSUME NEW ids, NEW dependsOn, NEW dfs, NEW Quiet, Visits(ids, dependsOn, dfs, Quiet),
           NEW nodes \in Seq(ids), NEW found \in Findings(ids)
    PROVE  /\ Visited(ids, dependsOn, Range(nodes), found, VisitAll(dfs, nodes, found))
           /\ Range(nodes) \subseteq Quiet => VisitAll(dfs, nodes, found).cycles = found.cycles
<1> DEFINE after == NodesLoop(dfs, nodes, found)
           First(i) == {nodes[k] : k \in 1 .. i}
           Done(i) == /\ Visited(ids, dependsOn, First(i), found, after[i])
                      /\ Range(nodes) \subseteq Quiet => after[i].cycles = found.cycles
           Bad == {i \in 0 .. Len(nodes) : ~Done(i)}
<1>1. /\ Len(nodes) \in Nat /\ DOMAIN nodes = 1 .. Len(nodes)
      /\ \A i \in 0 .. Len(nodes) : after[i] = OneNode(dfs, nodes, found, after, i)
      /\ VisitAll(dfs, nodes, found) = after[Len(nodes)]
  BY VisitAllUnfolds
<1> HIDE DEF after
<1>2. 0 \notin Bad
  <2>1. after[0] = found /\ First(0) = {}
    BY <1>1 DEF OneNode
  <2>2. Done(0)
    BY <2>1 DEF Visited
  <2> QED BY <2>2
<1>3. ASSUME NEW i \in Bad PROVE i - 1 \in Bad
  <2>1. i \in 1 .. Len(nodes) /\ i - 1 \in 0 .. Len(nodes) /\ nodes[i] \in ids /\ nodes[i] \in Range(nodes)
    <3>1. i \in 1 .. Len(nodes) /\ i - 1 \in 0 .. Len(nodes)
      <4> HIDE DEF Done
      <4> QED BY <1>1, <1>2
    <3> QED BY <1>1, <3>1 DEF Range
  <2>2. SUFFICES ASSUME Done(i - 1) PROVE Done(i)
    BY <2>1
  <2>3. after[i] = dfs[nodes[i]][after[i - 1]]
    <3>1. after[i] = OneNode(dfs, nodes, found, after, i) /\ i # 0
      BY <1>1, <2>1
    <3> QED BY <3>1 DEF OneNode
  <2>4. First(i) = First(i - 1) \cup {nodes[i]}
    <3>1. \A k : k \in 1 .. i <=> k \in 1 .. i - 1 \/ k = i
      BY <2>1
    <3> QED BY <3>1
  <2> HIDE DEF First
  <2>5. after[i - 1] \in Findings(ids)
    BY <2>2 DEF Visited
  <2>6. /\ Visited(ids, dependsOn, {nodes[i]}, after[i - 1], after[i])
        /\ nodes[i] \in Quiet => after[i].cycles = after[i - 1].cycles
    BY <2>1, <2>3, <2>5 DEF Visits
  <2>7. Visited(ids, dependsOn, First(i), found, after[i])
    <3> HIDE DEF Settled
    <3> QED BY <2>2, <2>4, <2>6 DEF Visited
  <2> QED BY <2>1, <2>2, <2>6, <2>7
<1>4. Bad = {}
  <2> HIDE DEF Bad
  <2>1. Bad \in SUBSET (0 .. Len(nodes))
    BY DEF Bad
  <2> QED BY <1>1, <1>2, <1>3, <2>1, NoFirstRound
<1>5. First(Len(nodes)) = Range(nodes)
  BY <1>1 DEF Range
<1> HIDE DEF First
<1>6. Done(Len(nodes))
  BY <1>1, <1>4
<1> QED BY <1>1, <1>5, <1>6

\* Each node that is being visited needs another of them, or the next one.
LeadsOn(dependsOn, visiting, n) ==
    \A v \in visiting : Range(dependsOn[v]) \cap (visiting \cup {n}) # {}

\* What dfs comes to for each node, given those that are being visited.
Explores(ids, dependsOn, dfs, visiting) ==
    Visits(ids, dependsOn, dfs[visiting],
           {n \in ids : NoCircle(ids, dependsOn) /\ LeadsOn(dependsOn, visiting, n)})

\* A node that needs only what was visited before it closes no circle.
LEMMA SettledGrows ==
    ASSUME NEW ids, NEW dependsOn, NEW nodes \in SUBSET ids, NEW n \in ids,
           NoCircle(nodes, dependsOn),
           \A m \in nodes : Range(dependsOn[m]) \cap ids \subseteq nodes,
           Range(dependsOn[n]) \cap ids \subseteq nodes
    PROVE  /\ NoCircle(nodes \cup {n}, dependsOn)
           /\ \A m \in nodes \cup {n} : Range(dependsOn[m]) \cap ids \subseteq nodes \cup {n}
<1>1. SUFFICES ASSUME n \notin nodes, NEW S \in SUBSET (nodes \cup {n}), S # {}
               PROVE  \E m \in S : Range(dependsOn[m]) \cap S = {}
  <2>1. CASE n \in nodes
    <3>1. nodes \cup {n} = nodes
      BY <2>1
    <3> QED BY <3>1
  <2>2. CASE n \notin nodes
    BY <2>2, <1>1 DEF NoCircle
  <2> QED BY <2>1, <2>2
<1>2. CASE S = {n}
  BY <1>1, <1>2
<1>3. CASE S # {n}
  <2>1. S \cap nodes \in (SUBSET nodes) \ {{}}
    BY <1>1, <1>3
  <2>2. PICK m \in S \cap nodes : Range(dependsOn[m]) \cap (S \cap nodes) = {}
    BY <2>1 DEF NoCircle
  <2>3. n \notin Range(dependsOn[m])
    BY <1>1, <2>2
  <2> QED BY <1>1, <2>2, <2>3
<1> QED BY <1>2, <1>3

\* n is about to be visited, and dfs explores what it needs.
IsNext(ids, dependsOn, dfs, visiting, n, found) ==
    /\ \A m \in ids : IsList(dependsOn[m])
    /\ visiting \in SUBSET ids
    /\ n \in ids
    /\ found \in Findings(ids)
    /\ n \notin visiting => Explores(ids, dependsOn, dfs, visiting \cup {n})

LEMMA VisitExplores ==
    ASSUME NEW ids, NEW dependsOn, NEW dfs, NEW visiting, NEW n, NEW found,
           IsNext(ids, dependsOn, dfs, visiting, n, found),
           NEW result, result = Visit(ids, dependsOn, dfs, visiting, n, found)
    PROVE  /\ Visited(ids, dependsOn, {n}, found, result)
           /\ NoCircle(ids, dependsOn) /\ LeadsOn(dependsOn, visiting, n) => result.cycles = found.cycles
<1>. /\ \A m \in ids : IsList(dependsOn[m])
     /\ visiting \in SUBSET ids
     /\ n \in ids
     /\ found \in Findings(ids)
     /\ n \notin visiting => Explores(ids, dependsOn, dfs, visiting \cup {n})
  BY DEF IsNext
<1>1. found \in [visited : SUBSET ids, cycles : SUBSET ids]
  BY DEF Findings
<1>2. CASE n \in visiting
  <2>1. result = [found EXCEPT !.cycles = @ \cup {n}]
    BY <1>2 DEF Visit
  <2>2. /\ result \in Findings(ids) /\ result.visited = found.visited
        /\ result.cycles = found.cycles \cup {n}
    BY <1>1, <2>1 DEF Findings
  <2>3. Visited(ids, dependsOn, {n}, found, result)
    BY <2>2 DEF Visited, Settled
  <2>4. LeadsOn(dependsOn, visiting, n) => ~NoCircle(ids, dependsOn)
    <3>1. visiting \in (SUBSET ids) \ {{}} /\ visiting \cup {n} = visiting
      BY <1>2
    <3> QED BY <3>1 DEF LeadsOn, NoCircle
  <2> QED BY <2>3, <2>4
<1>3. CASE n \notin visiting /\ n \in found.visited
  <2>1. result = found
    BY <1>3 DEF Visit
  <2> QED BY <1>3, <2>1 DEF Visited
<1>4. CASE n \notin visiting /\ n \notin found.visited
  <2> DEFINE known == Only(dependsOn[n], ids)
             others == dfs[visiting \cup {n}]
             below == VisitAll(others, known, found)
             Quiet == {d \in ids : NoCircle(ids, dependsOn) /\ LeadsOn(dependsOn, visiting \cup {n}, d)}
  <2>1. result = [below EXCEPT !.visited = @ \cup {n}]
    BY <1>4 DEF Visit
  <2>2. known \in Seq(ids) /\ Range(known) = Range(dependsOn[n]) \cap ids
    <3>1. dependsOn[n] \in Seq(Range(dependsOn[n]))
      BY DEF IsList
    <3>2. known \in Seq(Range(dependsOn[n])) /\ Range(known) = Range(dependsOn[n]) \cap ids
      BY <3>1, OnlyKeeps
    <3> HIDE DEF known
    <3>3. known \in Seq(Range(known))
      BY <3>2, SequenceOfRange
    <3>4. Range(known) \subseteq ids
      BY <3>2
    <3> QED BY <3>2, <3>3, <3>4
  <2>3. Visits(ids, dependsOn, others, Quiet)
    BY <1>4 DEF Explores
  <2> HIDE DEF known, others, Quiet
  <2>4. /\ Visited(ids, dependsOn, Range(known), found, below)
        /\ Range(known) \subseteq Quiet => below.cycles = found.cycles
    <3>1. known \in Seq(ids)
      BY <2>2
    <3>2. \A all : all = VisitAll(others, known, found) =>
              /\ Visited(ids, dependsOn, Range(known), found, all)
              /\ Range(known) \subseteq Quiet => all.cycles = found.cycles
      BY <2>3, <3>1, VisitAllVisits
    <3> QED BY <3>2
  <2> HIDE DEF below
  <2>5. below \in [visited : SUBSET ids, cycles : SUBSET ids]
    BY <2>4 DEF Visited, Findings
  <2>6. /\ result \in Findings(ids) /\ result.visited = below.visited \cup {n}
        /\ result.cycles = below.cycles
    BY <2>1, <2>5 DEF Findings
  <2>7. ASSUME Settled(ids, dependsOn, found) PROVE Settled(ids, dependsOn, result)
    <3> SUFFICES ASSUME result.cycles = {}
                 PROVE  /\ NoCircle(result.visited, dependsOn)
                        /\ \A m \in result.visited : Range(dependsOn[m]) \cap ids \subseteq result.visited
      BY DEF Settled
    <3>1. below.cycles = {} /\ below.visited \in SUBSET ids
      BY <2>5, <2>6
    <3>2. Settled(ids, dependsOn, below) /\ Range(known) \subseteq below.visited
      BY <2>4, <2>7, <3>1 DEF Visited
    <3>3. /\ NoCircle(below.visited, dependsOn)
          /\ \A m \in below.visited : Range(dependsOn[m]) \cap ids \subseteq below.visited
          /\ Range(dependsOn[n]) \cap ids \subseteq below.visited
      BY <2>2, <3>1, <3>2 DEF Settled
    <3> QED BY <2>6, <3>1, <3>3, SettledGrows
  <2>8. found.visited \subseteq below.visited /\ found.cycles \subseteq below.cycles
    BY <2>4 DEF Visited
  <2>9. Visited(ids, dependsOn, {n}, found, result)
    BY <2>6, <2>7, <2>8 DEF Visited
  <2>10. ASSUME NoCircle(ids, dependsOn), LeadsOn(dependsOn, visiting, n) PROVE Range(known) \subseteq Quiet
    <3> SUFFICES ASSUME NEW d \in Range(known) PROVE d \in Quiet
      OBVIOUS
    <3>1. d \in ids /\ d \in Range(dependsOn[n])
      BY <2>2
    <3>2. LeadsOn(dependsOn, visiting \cup {n}, d)
      BY <2>10, <3>1 DEF LeadsOn
    <3> QED BY <2>10, <3>1, <3>2 DEF Quiet
  <2> QED BY <2>4, <2>6, <2>9, <2>10
<1> QED BY <1>2, <1>3, <1>4

LEMMA SearchExplores ==
    ASSUME NEW ids, IsFiniteSet(ids), NEW dependsOn, \A m \in ids : IsList(dependsOn[m])
    PROVE  \A visiting \in SUBSET ids : Explores(ids, dependsOn, Search(ids, dependsOn), visiting)
<1> DEFINE dfs == Search(ids, dependsOn)
           Bad == {visiting \in SUBSET ids : ~Explores(ids, dependsOn, dfs, visiting)}
<1>1. \A visiting \in SUBSET ids : \A n \in ids : \A found \in Findings(ids) :
          dfs[visiting][n][found] = Visit(ids, dependsOn, dfs, visiting, n, found)
  BY SearchUnfolds
<1> HIDE DEF dfs
<1>2. ASSUME NEW visiting \in Bad PROVE \E n \in ids : n \notin visiting /\ visiting \cup {n} \in Bad
  <2>1. PICK n \in ids, found \in Findings(ids) :
            ~(/\ Visited(ids, dependsOn, {n}, found, dfs[visiting][n][found])
              /\ NoCircle(ids, dependsOn) /\ LeadsOn(dependsOn, visiting, n) =>
                     dfs[visiting][n][found].cycles = found.cycles)
    BY DEF Explores, Visits
  <2>2. dfs[visiting][n][found] = Visit(ids, dependsOn, dfs, visiting, n, found)
    BY <1>1
  <2>3. n \notin visiting /\ ~Explores(ids, dependsOn, dfs, visiting \cup {n})
    <3>1. ASSUME n \notin visiting => Explores(ids, dependsOn, dfs, visiting \cup {n}) PROVE FALSE
      <4> DEFINE result == dfs[visiting][n][found]
      <4>1. IsNext(ids, dependsOn, dfs, visiting, n, found)
        BY <3>1 DEF IsNext
      <4>2. result = Visit(ids, dependsOn, dfs, visiting, n, found)
        BY <2>2
      <4> HIDE DEF Bad, result
      <4>3. /\ Visited(ids, dependsOn, {n}, found, result)
            /\ NoCircle(ids, dependsOn) /\ LeadsOn(dependsOn, visiting, n) => result.cycles = found.cycles
        BY <4>1, <4>2, VisitExplores
      <4> QED BY <2>1, <4>3 DEF result
    <3> QED BY <3>1
  <2> QED BY <2>3
<1>3. Bad = {}
  <2> HIDE DEF Bad
  <2>1. Bad \in SUBSET (SUBSET ids)
    BY DEF Bad
  <2>2. Endless(ids, Bad)
    BY <1>2, <2>1 DEF Endless
  <2> QED BY <2>2, NoLastSet
<1> QED BY <1>3 DEF dfs

(* The dependency check complains of nothing exactly if every module needs *)
(* only modules that are there, and none waits for itself.                 *)
LEMMA DependencyCheck ==
    ASSUME NEW order, IsList(order), NEW dependsOn, \A m \in Range(order) : IsList(dependsOn[m])
    PROVE  ValidateDependencyGraph(order, dependsOn) = {} <=>
               /\ \A m \in Range(order) : Range(dependsOn[m]) \subseteq Range(order)
               /\ NoCircle(Range(order), dependsOn)
<1> DEFINE ids == Range(order)
           dfs == Search(ids, dependsOn)[{}]
           start == [visited |-> {}, cycles |-> {}]
           all == VisitAll(dfs, order, start)
           Quiet == {n \in ids : NoCircle(ids, dependsOn)}
<1>1. IsFiniteSet(ids) /\ order \in Seq(ids)
  BY ListIsFinite DEF IsList
<1>2. ValidateDependencyGraph(order, dependsOn) = {} <=>
          /\ all.cycles = {}
          /\ \A m \in ids : \A d \in Range(dependsOn[m]) : d \in ids /\ d # m
  <2> HIDE DEF all, ids
  <2>1. CycleErrors(order, dependsOn) = {<<"E040", n>> : n \in all.cycles}
    BY DEF CycleErrors, all, ids
  <2>2. ValidateDependencyGraph(order, dependsOn) = DependencyErrors(ids, dependsOn) \cup CycleErrors(order, dependsOn)
    BY DEF ValidateDependencyGraph, ids
  <2>3. DependencyErrors(ids, dependsOn) = {} <=>
            \A m \in ids : \A d \in Range(dependsOn[m]) : d \in ids /\ d # m
    BY DEF DependencyErrors
  <2>4. CycleErrors(order, dependsOn) = {} <=> all.cycles = {}
    BY <2>1
  <2> QED BY <2>2, <2>3, <2>4
<1>3. start \in Findings(ids) /\ start.cycles = {} /\ Settled(ids, dependsOn, start)
  BY DEF Findings, Settled, NoCircle
<1>4. Visits(ids, dependsOn, dfs, Quiet)
  <2>1. Explores(ids, dependsOn, Search(ids, dependsOn), {})
    <3> HIDE DEF ids
    <3> QED BY <1>1, SearchExplores DEF ids
  <2>2. \A n : LeadsOn(dependsOn, {}, n)
    BY DEF LeadsOn
  <2>3. Quiet = {n \in ids : NoCircle(ids, dependsOn) /\ LeadsOn(dependsOn, {}, n)}
    BY <2>2
  <2> HIDE DEF ids, Quiet
  <2> QED BY <2>1, <2>3 DEF Explores
<1> HIDE DEF dfs, start, Quiet, ids
<1>5. /\ Visited(ids, dependsOn, Range(order), start, all)
      /\ Range(order) \subseteq Quiet => all.cycles = start.cycles
  BY <1>1, <1>3, <1>4, VisitAllVisits
<1> HIDE DEF all
<1>6. NoCircle(ids, dependsOn) => all.cycles = {}
  BY <1>3, <1>5 DEF Quiet, ids
<1>7. all.cycles = {} => NoCircle(ids, dependsOn)
  <2> SUFFICES ASSUME all.cycles = {} PROVE NoCircle(ids, dependsOn)
    OBVIOUS
  <2>1. Settled(ids, dependsOn, all) /\ ids \subseteq all.visited /\ all \in Findings(ids)
    BY <1>3, <1>5 DEF Visited, ids
  <2>2. all.visited = ids
    BY <2>1 DEF Findings
  <2> QED BY <2>1, <2>2 DEF Settled
<1>8. NoCircle(ids, dependsOn) => \A m \in ids : m \notin Range(dependsOn[m])
  <2> SUFFICES ASSUME NoCircle(ids, dependsOn), NEW m \in ids PROVE m \notin Range(dependsOn[m])
    OBVIOUS
  <2>1. {m} \in (SUBSET ids) \ {{}}
    OBVIOUS
  <2>2. \E k \in {m} : Range(dependsOn[k]) \cap {m} = {}
    BY <2>1 DEF NoCircle
  <2> QED BY <2>2
<1>9. (\A m \in ids : Range(dependsOn[m]) \subseteq ids) <=> \A m \in ids : \A d \in Range(dependsOn[m]) : d \in ids
  OBVIOUS
<1>10. ValidateDependencyGraph(order, dependsOn) = {} <=>
           /\ \A m \in ids : Range(dependsOn[m]) \subseteq ids
           /\ NoCircle(ids, dependsOn)
  BY <1>2, <1>6, <1>7, <1>8, <1>9
<1> QED BY <1>10 DEF ids

IdsDiffer(modules) ==
    \A i, j \in DOMAIN modules : modules[i].id = modules[j].id => i = j

(* Of a sequence all of whose members are wanted, nothing is lost.         *)
LEMMA OnlyAll ==
    ASSUME NEW T, NEW seq \in Seq(T), NEW S, Range(seq) \subseteq S
    PROVE  Only(seq, S) = seq
<1> DEFINE kept == MembersLoop(seq, S)
           Done(i) == /\ kept[i] \in Seq(T) /\ Len(kept[i]) = i
                      /\ \A j \in 1 .. i : kept[i][j] = seq[j]
           Bad == {i \in 0 .. Len(seq) : ~Done(i)}
<1>1. Len(seq) \in Nat /\ \A i \in 0 .. Len(seq) : kept[i] = OneMember(seq, S, kept, i)
  BY OnlyUnfolds
<1>2. Only(seq, S) = kept[Len(seq)]
  BY OnlyUnfolds
<1> HIDE DEF kept
<1>3. kept[0] = <<>>
  BY <1>1 DEF OneMember
<1>4. 0 \notin Bad
  <2>1. <<>> \in Seq(T) /\ Len(<<>>) = 0
    OBVIOUS
  <2>2. Done(0)
    BY <1>3, <2>1
  <2> QED BY <2>2
<1>5. ASSUME NEW i \in Bad PROVE i - 1 \in Bad
  <2>1. i \in 1 .. Len(seq) /\ i - 1 \in 0 .. Len(seq) /\ seq[i] \in T /\ seq[i] \in S
    BY <1>1, <1>4 DEF Range
  <2>2. kept[i] = Append(kept[i - 1], seq[i])
    <3>1. kept[i] = OneMember(seq, S, kept, i) /\ i # 0
      BY <1>1, <2>1
    <3> QED BY <2>1, <3>1 DEF OneMember
  <2>3. Done(i - 1) => Done(i)
    BY <2>1, <2>2
  <2> QED BY <2>1, <2>3
<1>6. Bad = {}
  <2> HIDE DEF Bad
  <2>1. Bad \in SUBSET (0 .. Len(seq))
    BY DEF Bad
  <2> QED BY <1>1, <1>4, <1>5, <2>1, NoFirstRound
<1>7. Done(Len(seq))
  BY <1>1, <1>6
<1> QED BY <1>2, <1>7

(* Names that differ in a sequence differ in what is kept of it.           *)
LEMMA OnlyNames ==
    ASSUME NEW T, NEW seq \in Seq(T), NEW S, NamesDiffer(seq)
    PROVE  NamesDiffer(Only(seq, S))
<1> DEFINE part == Only(seq, S)
<1>1. part \in Seq(T)
  BY OnlyPicks
<1>2. PICK pos : Picks(part, pos, seq, S, Len(seq))
  BY OnlyPicks
<1> HIDE DEF part
<1>3. DOMAIN part = 1 .. Len(part) /\ Len(part) \in Nat /\ DOMAIN seq = 1 .. Len(seq) /\ Len(seq) \in Nat
  BY <1>1
<1>4. ASSUME NEW i \in DOMAIN part, NEW j \in DOMAIN part, part[i].name = part[j].name
      PROVE  i = j
  <2>1. /\ pos[i] \in DOMAIN seq /\ part[i] = seq[pos[i]]
        /\ pos[j] \in DOMAIN seq /\ part[j] = seq[pos[j]]
    BY <1>2, <1>3 DEF Picks
  <2>2. pos[i] = pos[j]
    BY <1>4, <2>1 DEF NamesDiffer
  <2>3. (i < j => pos[i] < pos[j]) /\ (j < i => pos[j] < pos[i])
    BY <1>2, <1>3 DEF Picks
  <2> QED BY <1>3, <2>1, <2>2, <2>3
<1> QED BY <1>4 DEF NamesDiffer, part

(* An entry whose name no other has is the first and the last of its name. *)
LEMMA NamedEntry ==
    ASSUME NEW entries, IsList(entries), NamesDiffer(entries), NEW i \in DOMAIN entries
    PROVE  Earliest(entries, entries[i].name) = entries[i] /\ Latest(entries, entries[i].name) = entries[i]
<1>1. DOMAIN entries \subseteq Nat
  BY DEF IsList
<1>2. i \in Nat /\ \A j \in DOMAIN entries : entries[j].name = entries[i].name <=> j = i
  BY <1>1 DEF NamesDiffer
<1> HIDE DEF IsList
<1>3. i <= i
  BY <1>2
<1>4. i = CHOOSE k \in DOMAIN entries : /\ entries[k].name = entries[i].name
                                        /\ \A j \in DOMAIN entries : entries[j].name = entries[i].name => k <= j
  BY <1>2, <1>3
<1>5. i = CHOOSE k \in DOMAIN entries : /\ entries[k].name = entries[i].name
                                        /\ \A j \in DOMAIN entries : entries[j].name = entries[i].name => j <= k
  BY <1>2, <1>3
<1> QED BY <1>4, <1>5 DEF Earliest, Latest

LEMMA InstanceIs ==
    ASSUME NEW modules, IdsDiffer(modules), NEW i \in DOMAIN modules
    PROVE  Instance(modules, modules[i].id) = modules[i]
<1>1. i = IndexOf(modules, modules[i].id)
  BY DEF IndexOf, IdsDiffer
<1> QED BY <1>1 DEF Instance

(***************************************************************************)
(* What the planner makes of a configuration                               *)
(***************************************************************************)

\* A planned configuration: what the profile says, what the schema presets
\* where it says nothing, and what the options write about the image.
IsPlanned(config, raw, schema, env) ==
    /\ DOMAIN raw \subseteq DOMAIN config
    /\ \A p \in DOMAIN raw \ ImagePaths : config[p] = raw[p]
    /\ \A p \in DOMAIN schema \ (DOMAIN raw \cup ImagePaths) :
          HasDefault(schema[p], env) => p \in DOMAIN config /\ config[p] = DefaultOf(schema[p], env)
    /\ \A p \in DOMAIN config :
          \/ p \in DOMAIN raw /\ config[p] = raw[p]
          \/ p \in DOMAIN schema \ DOMAIN raw /\ config[p] \in Presets(schema[p])
          \/ p \in ImagePaths /\ config[p].is \in {"text", "tag"}

LEMMA PresetIs ==
    ASSUME NEW entry, NEW env, HasDefault(entry, env)
    PROVE  DefaultOf(entry, env) \in Presets(entry)
BY DEF HasDefault, DefaultOf, Presets, Range

\* A configuration with one value written into it, or with the schema's presets.
IsPut(new, config, path, value) ==
    /\ DOMAIN new = DOMAIN config \cup {path}
    /\ new[path] = value
    /\ \A p \in DOMAIN config : p # path => new[p] = config[p]

IsPreset(config, raw, schema, env) ==
    /\ \A p : p \in DOMAIN config <=> p \in DOMAIN raw \/ (p \in DOMAIN schema /\ HasDefault(schema[p], env))
    /\ \A p \in DOMAIN raw : config[p] = raw[p]
    /\ \A p \in DOMAIN config \ DOMAIN raw : config[p] = DefaultOf(schema[p], env)

LEMMA PutIs ==
    ASSUME NEW config, NEW path, NEW value
    PROVE  IsPut(Put(config, path, value), config, path, value)
BY DEF Put, Override, IsPut

LEMMA DefaultsAreApplied ==
    ASSUME NEW raw, NEW schema, NEW env
    PROVE  IsPreset(ApplyDefaults(raw, schema, env), raw, schema, env)
<1> DEFINE base == [p \in {q \in DOMAIN schema : HasDefault(schema[q], env)} |-> DefaultOf(schema[p], env)]
<1>1. \A p : p \in DOMAIN base <=> p \in DOMAIN schema /\ HasDefault(schema[p], env)
  OBVIOUS
<1>2. \A p \in DOMAIN base : base[p] = DefaultOf(schema[p], env)
  OBVIOUS
<1>3. ApplyDefaults(raw, schema, env) = Override(base, raw)
  BY DEF ApplyDefaults
<1> HIDE DEF base
<1> QED BY <1>1, <1>2, <1>3 DEF Override, IsPreset

LEMMA DefaultsPlanned ==
    ASSUME NEW raw, NEW schema, NEW env, NEW config, IsPreset(config, raw, schema, env)
    PROVE  IsPlanned(config, raw, schema, env)
<1>1. \A p : HasDefault(schema[p], env) => DefaultOf(schema[p], env) \in Presets(schema[p])
  BY PresetIs
<1> QED BY <1>1 DEF IsPlanned, IsPreset

LEMMA ImagePlanned ==
    ASSUME NEW config, NEW raw, NEW schema, NEW env, IsPlanned(config, raw, schema, env),
           NEW path \in ImagePaths, NEW value, value.is \in {"text", "tag"}
    PROVE  IsPlanned(Put(config, path, value), raw, schema, env)
<1> DEFINE new == Put(config, path, value)
<1>1. IsPut(new, config, path, value)
  BY PutIs
<1> HIDE DEF new
<1>2. IsPlanned(new, raw, schema, env)
  BY <1>1 DEF IsPlanned, IsPut
<1> QED BY <1>2 DEF new

LEMMA ConfigPlanned ==
    ASSUME NEW m, NEW env, NEW options
    PROVE  IsPlanned(PlannedConfig(m, env, options), ConfigOf(m), DefinitionOf(m).schema, env)
<1> DEFINE raw == ConfigOf(m)
           schema == DefinitionOf(m).schema
           preset == ApplyDefaults(raw, schema, env)
           hardened == ApplyHardened(preset, schema, options.hardened)
<1>1. PlannedConfig(m, env, options) = ApplyImageSource(hardened, schema, options.imageSource)
  BY DEF PlannedConfig
<1>2. IsPlanned(preset, raw, schema, env)
  BY DefaultsAreApplied, DefaultsPlanned
<1> HIDE DEF raw, schema, preset
<1>3. /\ \A t : Text(t).is = "text"
      /\ \A v, t : Tag(v, t).is = "tag"
      /\ {"image.variant", "image.source", "image.tag"} \subseteq ImagePaths
  BY DEF Text, Tag, ImagePaths
<1>4. \A config, source, tag :
          IsPlanned(config, raw, schema, env) =>
              /\ IsPlanned(Put(config, "image.variant", Text("hardened")), raw, schema, env)
              /\ IsPlanned(Put(config, "image.source", Text(source)), raw, schema, env)
              /\ \A v : IsPlanned(Put(config, "image.tag", Tag(v, tag)), raw, schema, env)
  BY <1>3, ImagePlanned
<1>5. IsPlanned(hardened, raw, schema, env)
  BY <1>2, <1>4 DEF ApplyHardened
<1> HIDE DEF hardened
<1>6. IsPlanned(ApplyImageSource(hardened, schema, options.imageSource), raw, schema, env)
  BY <1>4, <1>5 DEF ApplyImageSource
<1> QED BY <1>1, <1>6 DEF raw, schema

(***************************************************************************)
(* What a document without errors is                                       *)
(***************************************************************************)

\* Its modules are a list, each with an id of its own, a source and a word on
\* whether it is enabled, and the enabled ones can be loaded.
IsLoadable(doc) ==
    /\ doc.modules \in Seq(Range(doc.modules)) /\ IdsDiffer(doc.modules)
    /\ \A m \in Range(doc.modules) : m.id # NoId /\ RequiredFields \subseteq DOMAIN m.fields
    /\ Enabled(doc) \in Seq(Range(doc.modules)) /\ IdsDiffer(Enabled(doc))
    /\ Range(Enabled(doc)) = {m \in Range(doc.modules) : IsEnabled(m)}
    /\ \A m \in Range(Enabled(doc)) : LoadError(m) = "none"

IsFaultless(doc) ==
    LET instances == Instances(doc)
    IN /\ IsLoadable(doc)
       /\ \A i \in DOMAIN instances :
             /\ ConfigErrors(instances[i]) = {}
             /\ ReferenceErrors(doc, instances[i]) = {}
             /\ ContractErrors(instances[i], instances) = {}
             /\ ImageSourceErrors(instances[i]) = {}
       /\ ValidateDependencies(instances) = {}
       /\ OutputErrors(doc, instances) = {}

LEMMA ShapeIsSound ==
    ASSUME NEW doc, IsModules(doc.modules), ShapeErrors(doc) = {}
    PROVE  /\ doc.modules \in Seq(Range(doc.modules)) /\ IdsDiffer(doc.modules)
           /\ \A m \in Range(doc.modules) : m.id # NoId /\ RequiredFields \subseteq DOMAIN m.fields
           /\ \A m \in Range(doc.modules) : IsList(DependsOn(m))
<1>1. doc.modules # BadModules
  BY DEF ShapeErrors
<1>2. /\ doc.modules \in Seq(Range(doc.modules))
      /\ \A m \in Range(doc.modules) : IsList(DependsOn(m))
  BY <1>1 DEF IsModules
<1>3. /\ When(NoId \in IdsOf(doc.modules) \/ doc.extends = BadExtends, "E010", "profile") = {}
      /\ {<<"E010", m.id>> : m \in {n \in Range(doc.modules) : ~(RequiredFields \subseteq DOMAIN n.fields)}} = {}
      /\ {<<"E011", doc.modules[i].id>> : i \in {j \in DOMAIN doc.modules :
             \E k \in 1 .. j - 1 : doc.modules[k].id = doc.modules[j].id}} = {}
  BY DEF ShapeErrors
<1>4. NoId \notin IdsOf(doc.modules)
  BY <1>3 DEF When
<1>5. \A m \in Range(doc.modules) : m.id # NoId /\ RequiredFields \subseteq DOMAIN m.fields
  BY <1>3, <1>4 DEF IdsOf, Range
<1>6. IdsDiffer(doc.modules)
  <2>1. DOMAIN doc.modules = 1 .. Len(doc.modules) /\ Len(doc.modules) \in Nat
    BY <1>2
  <2>2. \A j \in DOMAIN doc.modules : \A k \in 1 .. j - 1 : doc.modules[k].id # doc.modules[j].id
    BY <1>3
  <2>3. ASSUME NEW i \in DOMAIN doc.modules, NEW j \in DOMAIN doc.modules, i < j
        PROVE  doc.modules[i].id # doc.modules[j].id
    <3>1. i \in 1 .. j - 1
      BY <2>1, <2>3
    <3> QED BY <2>2, <3>1
  <2>4. \A i, j \in DOMAIN doc.modules : i < j \/ j < i \/ i = j
    BY <2>1
  <2> QED BY <2>3, <2>4 DEF IdsDiffer
<1> QED BY <1>2, <1>5, <1>6

LEMMA EnabledAre ==
    ASSUME NEW doc, doc.modules \in Seq(Range(doc.modules))
    PROVE  /\ Enabled(doc) \in Seq(Range(doc.modules))
           /\ Range(Enabled(doc)) = {m \in Range(doc.modules) : IsEnabled(m)}
           /\ IdsDiffer(doc.modules) => IdsDiffer(Enabled(doc))
<1> DEFINE modules == doc.modules
           on == {m \in Range(modules) : IsEnabled(m)}
<1>1. Enabled(doc) = Only(modules, on)
  BY DEF Enabled
<1>2. Range(modules) \cap on = on /\ modules \in Seq(Range(modules))
  OBVIOUS
<1> HIDE DEF modules, on
<1>3. /\ Only(modules, on) \in Seq(Range(modules))
      /\ Range(Only(modules, on)) = Range(modules) \cap on
      /\ IdsDiffer(modules) => IdsDiffer(Only(modules, on))
  BY <1>2, OnlyKeeps DEF IdsDiffer
<1> QED BY <1>1, <1>2, <1>3 DEF modules, on

LEMMA ValidIsFaultless ==
    ASSUME NEW doc, IsModules(doc.modules), Validate(doc) = {}
    PROVE  IsFaultless(doc)
<1> DEFINE instances == Instances(doc)
<1>1. ShapeErrors(doc) = {} /\ LoadErrors(doc) = {}
  BY DEF Validate
<1>2. /\ \A i \in DOMAIN instances : InstanceErrors(doc, instances[i], instances) = {}
      /\ ValidateDependencies(instances) = {}
      /\ OutputErrors(doc, instances) = {}
  BY <1>1 DEF Validate
<1>3. \A m \in Range(Enabled(doc)) : LoadError(m) = "none"
  BY <1>1 DEF LoadErrors
<1>4. IsLoadable(doc)
  BY <1>1, <1>3, ShapeIsSound, EnabledAre DEF IsLoadable
<1>5. \A i \in DOMAIN instances :
          /\ ConfigErrors(instances[i]) = {}
          /\ ReferenceErrors(doc, instances[i]) = {}
          /\ ContractErrors(instances[i], instances) = {}
          /\ ImageSourceErrors(instances[i]) = {}
  BY <1>2 DEF InstanceErrors
<1> QED BY <1>2, <1>4, <1>5 DEF IsFaultless

(* What is known of the definition of a module that loads.                 *)
LEMMA LoadsSoundly ==
    ASSUME NEW m, LoadError(m) = "none"
    PROVE  /\ SourceOf(m) \in DOMAIN Catalog /\ SourceOf(m) \notin {Absent, Outside}
           /\ DefinitionOf(m) = Catalog[SourceOf(m)] /\ DefinitionOf(m) \notin {Absent, Unreadable}
           /\ IsSound(DefinitionOf(m)) /\ IsList(DefinitionOf(m).consumes)
           /\ m.id # NoId => PlanLoadError(m) = "none"
<1> DEFINE def == DefinitionOf(m)
<1>1. def # Absent /\ def # Unreadable /\ SourceOf(m) # Outside /\ def.kindOk /\ def.schemaOk
  BY DEF LoadError
<1>2. SourceOf(m) \in DOMAIN Catalog /\ def = Catalog[SourceOf(m)]
  BY <1>1 DEF DefinitionOf, At
<1>3. SourceOf(m) # Absent
  BY <1>2, Definitions
<1> HIDE DEF def
<1>4. def \in Range(Catalog) \ {Absent, Unreadable}
  BY <1>1, <1>2 DEF Range
<1>5. IsSound(def) /\ IsList(def.consumes)
  BY <1>1, <1>4, Definitions, Contents
<1>6. m.id # NoId => PlanLoadError(m) = "none"
  BY <1>1, <1>3 DEF PlanLoadError, def
<1> QED BY <1>1, <1>2, <1>3, <1>5, <1>6 DEF def

(* The validator and the planner look at the same modules.                 *)
SameModules(doc, enabled, instances, planned, options) ==
    /\ DOMAIN instances = DOMAIN enabled /\ DOMAIN planned = DOMAIN enabled
    /\ IdsDiffer(instances) /\ IdsDiffer(planned) /\ IdsOf(planned) = IdsOf(instances)
    /\ \A i \in DOMAIN enabled :
          /\ instances[i] = Loaded(enabled[i])
          /\ planned[i] = PlanInstance(doc, enabled[i], options)
          /\ enabled[i] \in Range(doc.modules) /\ LoadError(enabled[i]) = "none"

LEMMA PlansTheSame ==
    ASSUME NEW doc, IsLoadable(doc), NEW options
    PROVE  SameModules(doc, Enabled(doc), Instances(doc), PlanInstances(doc, options), options)
<1> DEFINE enabled == Enabled(doc)
           instances == Instances(doc)
           planned == PlanInstances(doc, options)
           fine == {m \in Range(enabled) : PlanLoadError(m) = "none"}
<1>1. /\ enabled \in Seq(Range(doc.modules)) /\ IdsDiffer(enabled)
      /\ Range(enabled) \subseteq Range(doc.modules)
      /\ \A m \in Range(enabled) : m.id # NoId /\ LoadError(m) = "none"
  BY DEF IsLoadable
<1>2. planned = [i \in DOMAIN Only(enabled, fine) |-> PlanInstance(doc, Only(enabled, fine)[i], options)]
  BY DEF PlanInstances
<1>3. instances = [i \in DOMAIN enabled |-> Loaded(enabled[i])]
  BY DEF Instances
<1> HIDE DEF enabled, instances, planned
<1>4. Only(enabled, fine) = enabled
  <2>1. Range(enabled) \subseteq fine
    BY <1>1, LoadsSoundly
  <2> HIDE DEF fine
  <2> QED BY <1>1, <2>1, OnlyAll
<1> HIDE DEF fine
<1>5. /\ DOMAIN instances = DOMAIN enabled /\ DOMAIN planned = DOMAIN enabled
      /\ \A i \in DOMAIN enabled : instances[i] = Loaded(enabled[i]) /\ planned[i] = PlanInstance(doc, enabled[i], options)
  BY <1>2, <1>3, <1>4
<1>6. \A m : Loaded(m).id = m.id /\ PlanInstance(doc, m, options).id = m.id
  BY DEF Loaded, PlanInstance
<1>7. \A i \in DOMAIN enabled : instances[i].id = enabled[i].id /\ planned[i].id = enabled[i].id
  BY <1>5, <1>6
<1>8. IdsDiffer(instances) /\ IdsDiffer(planned) /\ IdsOf(planned) = IdsOf(instances)
  BY <1>1, <1>5, <1>7 DEF IdsDiffer, IdsOf
<1>9. \A i \in DOMAIN enabled : enabled[i] \in Range(doc.modules) /\ LoadError(enabled[i]) = "none"
  BY <1>1 DEF Range
<1> QED BY <1>5, <1>8, <1>9 DEF SameModules, enabled, instances, planned

(***************************************************************************)
(* The contracts of a plan                                                 *)
(***************************************************************************)

PlanContracts(planned, secrets) ==
    [id \in IdsOf(planned) |-> ProvidedContracts(Instance(planned, id), secrets)]

\* The contracts are those of the modules that the validator resolves
\* references among.
IsContracts(contracts, enabled, instances, planned, secrets) ==
    /\ \A id : id \in DOMAIN contracts <=> \E i \in DOMAIN enabled : id = enabled[i].id
    /\ \A i \in DOMAIN enabled :
          /\ contracts[enabled[i].id] = ProvidedContracts(planned[i], secrets)
          /\ Instance(instances, enabled[i].id) = Loaded(enabled[i])
    /\ \A ref : Leads(ref, contracts) <=> Resolves(ref, instances)

LEMMA ContractsAre ==
    ASSUME NEW doc, NEW enabled, NEW instances, NEW planned, NEW options, NEW secrets,
           SameModules(doc, enabled, instances, planned, options),
           NEW contracts, contracts = PlanContracts(planned, secrets)
    PROVE  IsContracts(contracts, enabled, instances, planned, secrets)
<1>1. /\ DOMAIN instances = DOMAIN enabled /\ DOMAIN planned = DOMAIN enabled
      /\ IdsDiffer(instances) /\ IdsDiffer(planned) /\ IdsOf(planned) = IdsOf(instances)
      /\ \A i \in DOMAIN enabled :
            instances[i] = Loaded(enabled[i]) /\ planned[i] = PlanInstance(doc, enabled[i], options)
  BY DEF SameModules
<1>2. \A m : /\ Loaded(m).id = m.id /\ PlanInstance(doc, m, options).id = m.id
             /\ Loaded(m).def = DefinitionOf(m) /\ PlanInstance(doc, m, options).def = DefinitionOf(m)
  BY DEF Loaded, PlanInstance
<1>3. \A i \in DOMAIN enabled : instances[i].id = enabled[i].id /\ planned[i].id = enabled[i].id
  BY <1>1, <1>2
<1>4. \A i \in DOMAIN enabled : /\ Instance(instances, enabled[i].id) = instances[i]
                                /\ Instance(planned, enabled[i].id) = planned[i]
  <2> SUFFICES ASSUME NEW i \in DOMAIN enabled
               PROVE  Instance(instances, enabled[i].id) = instances[i] /\ Instance(planned, enabled[i].id) = planned[i]
    OBVIOUS
  <2>1. Instance(instances, instances[i].id) = instances[i] /\ Instance(planned, planned[i].id) = planned[i]
    BY <1>1, InstanceIs
  <2> QED BY <1>3, <2>1
<1>5. DOMAIN contracts = IdsOf(planned)
  BY DEF PlanContracts
<1>6. \A id : id \in IdsOf(planned) <=> \E i \in DOMAIN enabled : id = enabled[i].id
  BY <1>1, <1>3 DEF IdsOf
<1>7. \A i \in DOMAIN enabled : contracts[enabled[i].id] = ProvidedContracts(planned[i], secrets)
  BY <1>4, <1>6 DEF PlanContracts
<1>8. \A i \in DOMAIN enabled : DOMAIN ProvidedContracts(planned[i], secrets) = ProvideNames(DefinitionOf(enabled[i]))
  BY <1>1, <1>2 DEF ProvidedContracts
<1>9. ASSUME NEW ref PROVE Leads(ref, contracts) <=> Resolves(ref, instances)
  <2>1. CASE \E i \in DOMAIN enabled : ref[1] = enabled[i].id
    <3>1. PICK i \in DOMAIN enabled : ref[1] = enabled[i].id
      BY <2>1
    <3>2. DOMAIN contracts[ref[1]] = ProvideNames(Instance(instances, ref[1]).def)
      <4>1. contracts[ref[1]] = ProvidedContracts(planned[i], secrets)
        BY <1>7, <3>1
      <4>2. Instance(instances, ref[1]).def = DefinitionOf(enabled[i])
        BY <1>1, <1>2, <1>4, <3>1
      <4> QED BY <1>8, <4>1, <4>2
    <3>3. ref[1] \in DOMAIN contracts /\ ref[1] \in IdsOf(instances)
      BY <1>1, <1>5, <1>6, <3>1
    <3> QED BY <3>2, <3>3 DEF Leads, Resolves
  <2>2. CASE ~\E i \in DOMAIN enabled : ref[1] = enabled[i].id
    <3>1. ref[1] \notin DOMAIN contracts /\ ref[1] \notin IdsOf(instances)
      BY <1>1, <1>5, <1>6, <2>2
    <3> QED BY <3>1 DEF Leads, Resolves
  <2> QED BY <2>1, <2>2
<1>10. \A i \in DOMAIN enabled : Instance(instances, enabled[i].id) = Loaded(enabled[i])
  BY <1>1, <1>4
<1> QED BY <1>5, <1>6, <1>7, <1>9, <1>10 DEF IsContracts

(***************************************************************************)
(* One module, as the validator and as the planner see it                  *)
(***************************************************************************)

\* `inst` is what the validator looks at of a module that loads, and `plan`
\* what the planner makes of it in the environment `env`.
IsPlanOf(plan, inst, env) ==
    /\ plan.id = inst.id /\ plan.def = inst.def
    /\ IsSound(inst.def) /\ IsList(inst.def.consumes)
    /\ IsPlanned(plan.config, inst.config, inst.def.schema, env)

LEMMA PlansEach ==
    ASSUME NEW doc, NEW enabled, NEW instances, NEW planned, NEW options,
           SameModules(doc, enabled, instances, planned, options), NEW i \in DOMAIN enabled
    PROVE  /\ IsPlanOf(planned[i], instances[i], Environment(doc))
           /\ instances[i].id = enabled[i].id /\ instances[i].config = ConfigOf(enabled[i])
           /\ instances[i].def = DefinitionOf(enabled[i])
<1> DEFINE m == enabled[i]
           env == Environment(doc)
<1>1. instances[i] = Loaded(m) /\ planned[i] = PlanInstance(doc, m, options) /\ LoadError(m) = "none"
  BY DEF SameModules
<1> HIDE DEF m, env
<1>2. /\ instances[i].id = m.id /\ instances[i].config = ConfigOf(m) /\ instances[i].def = DefinitionOf(m)
      /\ planned[i].id = m.id /\ planned[i].def = DefinitionOf(m)
      /\ planned[i].config = PlannedConfig(m, env, options)
  BY <1>1 DEF Loaded, PlanInstance, env
<1>3. IsSound(DefinitionOf(m)) /\ IsList(DefinitionOf(m).consumes)
  BY <1>1, LoadsSoundly
<1>4. IsPlanned(PlannedConfig(m, env, options), ConfigOf(m), DefinitionOf(m).schema, env)
  BY ConfigPlanned
<1>5. IsPlanOf(planned[i], instances[i], env)
  BY <1>2, <1>3, <1>4 DEF IsPlanOf
<1> QED BY <1>2, <1>5 DEF m, env

\* Values that are not references.
LEMMA KindsOfValues ==
    /\ Blank.is = "blank" /\ ~IsSecret(Blank) /\ ~IsCertificate(Blank)
    /\ \A refs : Bindings(refs).is = "bindings" /\ Bindings(refs).refs = refs
    /\ \A v : v.is \in {"text", "tag"} => ~IsSecret(v) /\ ~IsCertificate(v)
    /\ \A t : Text(t).is = "text" /\ Text(t).text = t
    /\ \A b : Flag(b).is = "flag"
    /\ \A v, t : Tag(v, t).is = "tag" /\ Tag(v, t).variant = v /\ Tag(v, t).tag = t
BY DEF Blank, Bindings, IsSecret, IsCertificate, Text, Tag, Flag

(* Where a binding comes from: what the profile sets, or nothing.          *)
LEMMA BindingIsRaw ==
    ASSUME NEW plan, NEW inst, NEW env, IsPlanOf(plan, inst, env), NEW c \in Range(inst.def.consumes)
    PROVE  /\ Holds(inst.config, c.from) => At(plan.config, c.from, Blank) = inst.config[c.from]
           /\ ~Holds(inst.config, c.from) => At(plan.config, c.from, Blank) \in {Blank, Bindings(<<>>)}
<1>1. /\ c.from \in DOMAIN inst.def.schema \ ImagePaths
      /\ Presets(inst.def.schema[c.from]) \subseteq {Blank, Bindings(<<>>)}
  BY DEF IsPlanOf, IsSound, IsBindable
<1>2. IsPlanned(plan.config, inst.config, inst.def.schema, env)
  BY DEF IsPlanOf
<1>3. Holds(inst.config, c.from) => At(plan.config, c.from, Blank) = inst.config[c.from]
  BY <1>1, <1>2 DEF IsPlanned, Holds, At
<1>4. ~Holds(inst.config, c.from) => At(plan.config, c.from, Blank) \in {Blank, Bindings(<<>>)}
  <2> SUFFICES ASSUME c.from \notin DOMAIN inst.config, c.from \in DOMAIN plan.config
               PROVE  plan.config[c.from] \in {Blank, Bindings(<<>>)}
    BY DEF Holds, At
  <2>1. plan.config[c.from] \in Presets(inst.def.schema[c.from])
    BY <1>1, <1>2 DEF IsPlanned
  <2> QED BY <1>1, <2>1
<1> QED BY <1>3, <1>4

(* A consume entry that validates is planned, if its condition is set.     *)
LEMMA ConsumeIsPlanned ==
    ASSUME NEW plan, NEW inst, NEW env, IsPlanOf(plan, inst, env), NEW c \in Range(inst.def.consumes),
           c.requiredIf # NoGate => Holds(inst.config, c.requiredIf.path),
           NEW instances, NEW contracts, \A ref : Leads(ref, contracts) <=> Resolves(ref, instances),
           ConfigErrors(inst) = {}, ConsumeErrors(inst, c, instances) = {}
    PROVE  ~Consumed(plan, c, contracts).error
<1> DEFINE value == At(plan.config, c.from, Blank)
           required == c.required \/ RequiredBy(c.requiredIf, plan.config)
           wanted == c.required \/ RequiredBy(c.requiredIf, inst.config)
           good == Only(value.refs, {r \in Range(value.refs) : Leads(r, contracts)})
<1>1. IsBindable(c, inst.def) /\ IsPlanned(plan.config, inst.config, inst.def.schema, env)
  BY DEF IsPlanOf, IsSound
<1>2. required <=> wanted
  <2>1. CASE c.requiredIf = NoGate
    BY <2>1 DEF RequiredBy
  <2>2. CASE c.requiredIf # NoGate
    <3>1. c.requiredIf.path \in DOMAIN inst.config \ ImagePaths
      BY <1>1, <2>2 DEF Holds, IsBindable
    <3>2. c.requiredIf.path \in DOMAIN plan.config /\ plan.config[c.requiredIf.path] = inst.config[c.requiredIf.path]
      BY <1>1, <3>1 DEF IsPlanned
    <3> QED BY <3>1, <3>2 DEF RequiredBy, Holds
  <2> QED BY <2>1, <2>2
<1>3. Consumed(plan, c, contracts).error =
          (CASE value.is = "bindings" -> \/ good = <<>> /\ required
                                         \/ \E r \in Range(value.refs) : ~Leads(r, contracts)
             [] value.is = "binding" -> ~Leads(value.ref, contracts)
             [] OTHER -> required \/ value # Blank)
  BY DEF Consumed
<1> HIDE DEF value, required, good
<1>4. CASE ~Holds(inst.config, c.from)
  <2>1. ~wanted
    BY <1>4 DEF ConsumeErrors
  <2>2. value \in {Blank, Bindings(<<>>)}
    BY <1>4, BindingIsRaw DEF value
  <2>3. CASE value = Blank
    BY <1>2, <1>3, <2>1, <2>3, KindsOfValues
  <2>4. CASE value = Bindings(<<>>)
    <3>1. value.is = "bindings" /\ value.refs = <<>>
      BY <2>4, KindsOfValues
    <3>2. Range(value.refs) = {}
      BY <3>1 DEF Range
    <3> QED BY <1>2, <1>3, <2>1, <3>1, <3>2
  <2> QED BY <2>2, <2>3, <2>4
<1>5. CASE Holds(inst.config, c.from)
  <2>1. value = inst.config[c.from]
    BY <1>5, BindingIsRaw DEF value
  <2>2. (CASE value.is = "bindings" ->
                  {code \in {"E041"} : value.refs = <<>> /\ wanted}
                  \cup UNION {BindingErrors(inst, c, r, instances) : r \in Range(value.refs)}
           [] value.is = "binding" -> BindingErrors(inst, c, value.ref, instances)
           [] OTHER -> {code \in {"E041"} : wanted \/ value # Blank}) = {}
    BY <1>5, <2>1 DEF ConsumeErrors
  <2>3. \A r : BindingErrors(inst, c, r, instances) = {} => Leads(r, contracts)
    BY DEF BindingErrors, Resolves
  <2>4. CASE value.is = "bindings"
    <3>1. /\ ~(value.refs = <<>> /\ wanted)
          /\ \A r \in Range(value.refs) : Leads(r, contracts)
      BY <2>2, <2>3, <2>4
    <3>2. IsList(value.refs)
      <4>1. c.from \in DOMAIN inst.def.schema /\ c.from \in DOMAIN inst.config
        BY <1>1, <1>5 DEF IsBindable, Holds
      <4>2. value \in inst.def.schema[c.from].allowed
        BY <2>1, <4>1 DEF ConfigErrors, When
      <4> QED BY <1>1, <2>4, <4>2 DEF IsBindable
    <3>3. good = value.refs
      <4> DEFINE S == {r \in Range(value.refs) : Leads(r, contracts)}
      <4>1. Range(value.refs) \subseteq S
        BY <3>1
      <4> HIDE DEF S
      <4>2. Only(value.refs, S) = value.refs
        BY <3>2, <4>1, OnlyAll DEF IsList
      <4> QED BY <4>2 DEF good, S
    <3> QED BY <1>2, <1>3, <2>4, <3>1, <3>3
  <2>5. CASE value.is = "binding"
    BY <1>3, <2>2, <2>3, <2>5
  <2>6. CASE value.is \notin {"bindings", "binding"}
    BY <1>2, <1>3, <2>2, <2>6
  <2> QED BY <2>4, <2>5, <2>6
<1> QED BY <1>4, <1>5

(***************************************************************************)
(* The plan of a document without errors                                   *)
(***************************************************************************)

\* Every reference to a secret in what is planned has its variable, and every
\* one to a certificate its entry.
LEMMA ReferencesArePlanned ==
    ASSUME NEW plan, NEW inst, NEW env, IsPlanOf(plan, inst, env), NEW doc, ReferenceErrors(doc, inst) = {},
           NEW secrets, DOMAIN SecretValues(doc) \subseteq DOMAIN secrets
    PROVE  PlannedReferenceErrors(doc, plan.id, plan.config, secrets) = {}
<1> DEFINE Known(v) == /\ IsSecret(v) => v.alias \in DOMAIN SecretValues(doc)
                       /\ IsCertificate(v) => v # BadCertificate /\ v.of \in DOMAIN Section(doc, "certificates")
<1>1. \A p \in DOMAIN inst.config : Known(inst.config[p])
  BY DEF ReferenceErrors, When
<1>2. ASSUME NEW p \in DOMAIN plan.config PROVE Known(plan.config[p])
  <2>1. \/ p \in DOMAIN inst.config /\ plan.config[p] = inst.config[p]
        \/ p \in DOMAIN inst.def.schema /\ plan.config[p] \in Presets(inst.def.schema[p])
        \/ plan.config[p].is \in {"text", "tag"}
    BY DEF IsPlanOf, IsPlanned
  <2>2. \A v : ~IsSecret(v) /\ ~IsCertificate(v) => Known(v)
    OBVIOUS
  <2> HIDE DEF Known
  <2>3. p \in DOMAIN inst.def.schema /\ plan.config[p] \in Presets(inst.def.schema[p]) => Known(plan.config[p])
    BY <2>2 DEF IsPlanOf, IsSound
  <2> QED BY <1>1, <2>1, <2>2, <2>3, KindsOfValues
<1>3. \A p \in DOMAIN plan.config : IsSecret(plan.config[p]) => plan.config[p].alias \in DOMAIN secrets
  BY <1>2
<1>4. \A p \in DOMAIN plan.config : IsCertificate(plan.config[p]) =>
          plan.config[p] # BadCertificate /\ plan.config[p].of \in DOMAIN Section(doc, "certificates")
  BY <1>2
<1> QED BY <1>3, <1>4 DEF PlannedReferenceErrors, When

LEMMA SuppliedSecrets ==
    ASSUME NEW doc, NEW options, Supplied(doc, options)
    PROVE  SecretErrors(doc, options) = {} /\ DOMAIN SecretNames(doc, options) = DOMAIN SecretValues(doc)
<1>1. \A a \in DOMAIN SecretValues(doc) : options.allowMissing \/ SecretValues(doc)[a].env \in options.env
  BY DEF Supplied
<1> QED BY <1>1 DEF SecretErrors, SecretNames

\* The plan of a document that can be loaded.
WholePlan(doc, options) ==
    Assemble(doc, options, SecretNames(doc, options), PlanInstances(doc, options),
             PlanContracts(PlanInstances(doc, options), SecretNames(doc, options)))

\* A valid profile resolves to a document without errors.
LEMMA ValidDocument ==
    ASSUME TypeOK, NEW overlay \in Environs, Valid(overlay)
    PROVE  /\ Resolve(disk, Profile, overlay).ok
           /\ IsMapping(Document(overlay)) /\ Validate(Document(overlay)) = {}
<1> DEFINE resolved == Resolve(disk, Profile, overlay)
<1>1. Fit(resolved)
  BY ResolvedIsFit, Contents DEF TypeOK, Environs
<1>2. ValidateResolved(resolved) = {}
  BY DEF Valid, ValidateProfile
<1>3. Document(overlay) = resolved.doc
  BY DEF Document
<1> HIDE DEF resolved
<1>4. resolved.ok /\ Validate(resolved.doc) = {}
  BY <1>1, <1>2 DEF ValidateResolved, Fit, Explained, At1
<1> QED BY <1>1, <1>3, <1>4 DEF Fit, resolved

\* A plan without errors of a valid profile is made from a document without them.
LEMMA ValidPlan ==
    ASSUME TypeOK, NEW overlay \in Environs, Valid(overlay), NEW options
    PROVE  /\ IsMapping(Document(overlay)) /\ IsFaultless(Document(overlay))
           /\ PlanOf(overlay, options) = WholePlan(Document(overlay), options)
<1> DEFINE resolved == Resolve(disk, Profile, overlay)
<1>1. /\ PlanOf(overlay, options) = PlanResolved(resolved, overlay, options)
      /\ Document(overlay) = resolved.doc
  BY DEF PlanOf, BuildPlan, Document
<1>2. resolved.ok /\ IsMapping(resolved.doc) /\ Validate(resolved.doc) = {}
  BY <1>1, ValidDocument
<1> HIDE DEF resolved
<1>3. IsFaultless(resolved.doc)
  BY <1>2, ValidIsFaultless DEF IsMapping
<1>4. resolved.doc.modules # BadModules
  BY <1>2 DEF Validate, ShapeErrors
<1>5. PlanResolved(resolved, overlay, options) = BuildPlanFromProfile(resolved.doc, options)
  BY <1>2 DEF PlanResolved
<1>6. BuildPlanFromProfile(resolved.doc, options) = WholePlan(resolved.doc, options)
  BY <1>4 DEF BuildPlanFromProfile, PlanInstanceList, WholePlan, PlanContracts
<1> QED BY <1>1, <1>2, <1>3, <1>5, <1>6

\* What the modules of a plan are, and its errors.
LEMMA PlanIs ==
    ASSUME NEW doc, NEW options, NEW secrets, NEW planned, NEW contracts,
           NEW plan, plan = Assemble(doc, options, secrets, planned, contracts)
    PROVE  /\ DOMAIN plan.modules = DOMAIN planned /\ plan.secrets = secrets
           /\ \A i \in DOMAIN planned :
                 /\ plan.modules[i] = PlannedModule(planned[i], contracts)
                 /\ PlannedReferenceErrors(doc, planned[i].id, planned[i].config, secrets) \subseteq plan.errors
           /\ \A e \in plan.errors :
                 \/ e \in SecretErrors(doc, options)
                 \/ \E m \in Range(Enabled(doc)) : PlanLoadError(m) # "none"
                 \/ \E i \in DOMAIN planned :
                       \/ e \in PlannedReferenceErrors(doc, planned[i].id, planned[i].config, secrets)
                       \/ e \in PlannedContractErrors(planned[i], contracts)
                       \/ e[1] \in PlanOnly
                 \/ DOMAIN Section(doc, "outputs") \ DOMAIN PlannedOutputs(doc, contracts) # {}
<1> DEFINE modules == [i \in DOMAIN planned |-> PlannedModule(planned[i], contracts)]
           outputs == PlannedOutputs(doc, contracts)
           Own(i) == UNION {
               PlannedReferenceErrors(doc, planned[i].id, planned[i].config, secrets),
               PlannedContractErrors(planned[i], contracts),
               BackupSourceErrors(modules[i], modules),
               DestinationErrors(modules[i]),
               EnrollmentErrors(modules[i], IdsOf(planned))}
<1>1. /\ plan.modules = modules /\ plan.secrets = secrets
      /\ plan.errors = SecretErrors(doc, options)
                       \cup {<<PlanLoadError(m), m.id>> : m \in {n \in Range(Enabled(doc)) : PlanLoadError(n) # "none"}}
                       \cup (UNION {Own(i) : i \in DOMAIN modules})
                       \cup {<<"E060", o>> : o \in DOMAIN Section(doc, "outputs") \ DOMAIN outputs}
  BY DEF Assemble
<1>2. DOMAIN modules = DOMAIN planned /\ \A i \in DOMAIN planned : modules[i] = PlannedModule(planned[i], contracts)
  OBVIOUS
<1>3. \A i : /\ PlannedReferenceErrors(doc, planned[i].id, planned[i].config, secrets) \subseteq Own(i)
             /\ \A e \in Own(i) :
                   \/ e \in PlannedReferenceErrors(doc, planned[i].id, planned[i].config, secrets)
                   \/ e \in PlannedContractErrors(planned[i], contracts)
                   \/ e[1] \in PlanOnly
  <2> TAKE i
  <2> HIDE DEF modules
  <2>1. \A e \in UNION {BackupSourceErrors(modules[i], modules), DestinationErrors(modules[i]),
                        EnrollmentErrors(modules[i], IdsOf(planned))} : e[1] \in PlanOnly
    <3>1. \A condition, code, where : \A e \in When(condition, code, where) : e[1] = code
      BY DEF When
    <3>2. \A e \in BackupSourceErrors(modules[i], modules) : e[1] = "E146"
      BY <3>1 DEF BackupSourceErrors
    <3>3. \A e \in DestinationErrors(modules[i]) : e[1] = "E147"
      BY <3>1 DEF DestinationErrors
    <3>4. \A e \in EnrollmentErrors(modules[i], IdsOf(planned)) : e[1] = "E159"
      BY <3>1 DEF EnrollmentErrors
    <3> QED BY <3>2, <3>3, <3>4 DEF PlanOnly
  <2> QED BY <2>1
<1> HIDE DEF modules, outputs, Own
<1>4. \A i \in DOMAIN planned : Own(i) \subseteq plan.errors
  BY <1>1, <1>2
<1>5. \A e \in plan.errors :
          \/ e \in SecretErrors(doc, options)
          \/ \E m \in Range(Enabled(doc)) : PlanLoadError(m) # "none"
          \/ \E i \in DOMAIN planned : e \in Own(i)
          \/ DOMAIN Section(doc, "outputs") \ DOMAIN outputs # {}
  BY <1>1, <1>2
<1> QED BY <1>1, <1>2, <1>3, <1>4, <1>5 DEF outputs

(* A profile that validates is planned without errors, but for the checks  *)
(* that only the planner makes, if the conditions on its consume entries   *)
(* are about what it sets (validate_profile, build_plan).                  *)
THEOREM ValidProfilesArePlanned == Spec => []ValidIsPlannable
<1>1. TypeOK => ValidIsPlannable
  <2> SUFFICES ASSUME TypeOK, NEW overlay \in Environs, Valid(overlay), ConditionsAreSet(Document(overlay)),
                      NEW options \in OptionSets, Supplied(Document(overlay), options),
                      NEW e \in PlanOf(overlay, options).errors
               PROVE  e[1] \in PlanOnly
    BY DEF ValidIsPlannable
  <2> DEFINE doc == Document(overlay)
             enabled == Enabled(doc)
             instances == Instances(doc)
             planned == PlanInstances(doc, options)
             secrets == SecretNames(doc, options)
             contracts == PlanContracts(planned, secrets)
             plan == PlanOf(overlay, options)
  <2>1. IsFaultless(doc) /\ plan = Assemble(doc, options, secrets, planned, contracts)
    BY ValidPlan DEF WholePlan
  <2>2. SameModules(doc, enabled, instances, planned, options)
    BY <2>1, PlansTheSame DEF IsFaultless
  <2>3. SecretErrors(doc, options) = {} /\ DOMAIN secrets = DOMAIN SecretValues(doc)
    BY SuppliedSecrets
  <2> HIDE DEF doc, enabled, planned, secrets, instances
  <2>4. IsContracts(contracts, enabled, instances, planned, secrets)
    BY <2>2, ContractsAre
  <2> HIDE DEF contracts, plan
  <2>5. \A m \in Range(enabled) : PlanLoadError(m) = "none"
    BY <2>1, LoadsSoundly DEF IsFaultless, IsLoadable, enabled
  <2>6. DOMAIN Section(doc, "outputs") \ DOMAIN PlannedOutputs(doc, contracts) = {}
    <3>1. \A ref : Leads(ref, contracts) <=> Resolves(ref, instances)
      BY <2>4 DEF IsContracts
    <3>2. \A o \in DOMAIN Section(doc, "outputs") : Resolves(Section(doc, "outputs")[o], instances)
      BY <2>1 DEF IsFaultless, OutputErrors, instances
    <3> QED BY <3>1, <3>2 DEF PlannedOutputs
  <2>7. ASSUME NEW i \in DOMAIN planned
        PROVE  /\ PlannedReferenceErrors(doc, planned[i].id, planned[i].config, secrets) = {}
               /\ PlannedContractErrors(planned[i], contracts) = {}
    <3>1. i \in DOMAIN enabled /\ i \in DOMAIN instances
      BY <2>2 DEF SameModules
    <3>2. /\ IsPlanOf(planned[i], instances[i], Environment(doc))
          /\ instances[i].config = ConfigOf(enabled[i]) /\ instances[i].def = DefinitionOf(enabled[i])
      BY <2>2, <3>1, PlansEach
    <3>3. /\ ConfigErrors(instances[i]) = {} /\ ReferenceErrors(doc, instances[i]) = {}
          /\ ContractErrors(instances[i], instances) = {}
      BY <2>1, <3>1 DEF IsFaultless, instances
    <3>4. PlannedReferenceErrors(doc, planned[i].id, planned[i].config, secrets) = {}
      BY <2>3, <3>2, <3>3, ReferencesArePlanned
    <3>5. ASSUME NEW c \in Range(instances[i].def.consumes) PROVE ~Consumed(planned[i], c, contracts).error
      <4>1. ConsumeErrors(instances[i], c, instances) = {}
        BY <3>3 DEF ContractErrors, At1
      <4>2. enabled[i] \in Range(enabled)
        BY <3>1 DEF Range
      <4>3. c.requiredIf # NoGate => Holds(instances[i].config, c.requiredIf.path)
        BY <3>2, <4>2 DEF ConditionsAreSet, enabled, doc
      <4>4. \A ref : Leads(ref, contracts) <=> Resolves(ref, instances)
        BY <2>4 DEF IsContracts
      <4> QED BY <3>2, <3>3, <4>1, <4>3, <4>4, ConsumeIsPlanned
    <3>6. PlannedContractErrors(planned[i], contracts) = {}
      <4>1. planned[i].def = instances[i].def
        BY <3>2 DEF IsPlanOf
      <4> QED BY <3>5, <4>1 DEF PlannedContractErrors, When
    <3> QED BY <3>4, <3>6
  <2>8. /\ e \in plan.errors
        /\ \/ e \in SecretErrors(doc, options)
           \/ \E m \in Range(Enabled(doc)) : PlanLoadError(m) # "none"
           \/ \E i \in DOMAIN planned :
                 \/ e \in PlannedReferenceErrors(doc, planned[i].id, planned[i].config, secrets)
                 \/ e \in PlannedContractErrors(planned[i], contracts)
                 \/ e[1] \in PlanOnly
           \/ DOMAIN Section(doc, "outputs") \ DOMAIN PlannedOutputs(doc, contracts) # {}
    <3>1. e \in plan.errors
      BY DEF plan
    <3> QED BY <2>1, <3>1, PlanIs
  <2> QED BY <2>3, <2>5, <2>6, <2>7, <2>8 DEF enabled
<1> QED BY <1>1, FilesStayDocuments, PTL

(***************************************************************************)
(* The bindings of a plan                                                  *)
(***************************************************************************)

\* What a module's consume entry comes to is what is planned under its name.
LEMMA ConsumedByName ==
    ASSUME NEW plan, NEW inst, NEW env, IsPlanOf(plan, inst, env), NEW c \in Range(inst.def.consumes),
           NEW contracts, c.name \in DOMAIN ConsumedContracts(plan, contracts)
    PROVE  ConsumedContracts(plan, contracts)[c.name] = Consumed(plan, c, contracts)
<1> DEFINE consumes == inst.def.consumes
           S == {d \in Range(consumes) : Consumed(plan, d, contracts).bound # <<>>}
           bound == Only(consumes, S)
<1>1. consumes \in Seq(Range(consumes)) /\ NamesDiffer(consumes) /\ plan.def = inst.def
  BY DEF IsPlanOf, IsSound, IsList
<1>2. ConsumedContracts(plan, contracts) =
          [n \in {bound[i].name : i \in DOMAIN bound} |-> Consumed(plan, Latest(bound, n), contracts)]
  BY <1>1 DEF ConsumedContracts
<1> HIDE DEF consumes, S
<1>3. bound \in Seq(Range(consumes)) /\ NamesDiffer(bound)
  BY <1>1, OnlyKeeps, OnlyNames
<1> HIDE DEF bound
<1>4. PICK i \in DOMAIN bound : bound[i].name = c.name
  BY <1>2
<1>5. bound[i] = c
  <2>1. bound[i] \in Range(consumes) /\ c \in Range(consumes)
    BY <1>3 DEF consumes
  <2> QED BY <1>1, <1>4, <2>1 DEF NamesDiffer, Range
<1>6. Latest(bound, c.name) = bound[i]
  <2>1. IsList(bound)
    BY <1>3, SequenceOfRange DEF IsList
  <2> QED BY <1>3, <1>4, <2>1, NamedEntry
<1>7. ConsumedContracts(plan, contracts)[c.name] = Consumed(plan, Latest(bound, c.name), contracts)
  BY <1>2, <1>4
<1> QED BY <1>5, <1>6, <1>7

\* Every binding that is planned was looked at by the validator.
LEMMA BoundIsChecked ==
    ASSUME NEW plan, NEW inst, NEW env, IsPlanOf(plan, inst, env), NEW c \in Range(inst.def.consumes),
           NEW instances, NEW contracts, ConfigErrors(inst) = {}, ConsumeErrors(inst, c, instances) = {},
           NEW b \in Range(Consumed(plan, c, contracts).bound)
    PROVE  \E r : /\ b = Bound(r, contracts)
                  /\ BindingErrors(inst, c, r, instances) = {}
<1> DEFINE value == At(plan.config, c.from, Blank)
           good == Only(value.refs, {r \in Range(value.refs) : Leads(r, contracts)})
           bound == Consumed(plan, c, contracts).bound
<1>1. bound = (CASE value.is = "bindings" -> [i \in DOMAIN good |-> Bound(good[i], contracts)]
                 [] value.is = "binding" ->
                        IF Leads(value.ref, contracts) THEN <<Bound(value.ref, contracts)>> ELSE <<>>
                 [] OTHER -> <<>>)
  BY DEF Consumed
<1>2. b \in Range(bound)
  OBVIOUS
<1>3. IsBindable(c, inst.def)
  BY DEF IsPlanOf, IsSound
<1> HIDE DEF value, good, bound
<1>4. value.is \in {"bindings", "binding"}
  <2>1. value.is \notin {"bindings", "binding"} => bound = <<>>
    BY <1>1
  <2>2. bound # <<>>
    BY <1>2 DEF Range
  <2> QED BY <2>1, <2>2
<1>5. CASE ~Holds(inst.config, c.from)
  <2>1. value = Bindings(<<>>)
    BY <1>4, <1>5, BindingIsRaw, KindsOfValues DEF value
  <2>2. value.is = "bindings" /\ value.refs = <<>>
    BY <2>1, KindsOfValues
  <2>3. good = <<>>
    <3> DEFINE S == {r \in Range(value.refs) : Leads(r, contracts)}
    <3>1. <<>> \in Seq({}) /\ Range(<<>>) \subseteq S
      BY DEF Range
    <3> HIDE DEF S
    <3>2. Only(<<>>, S) = <<>>
      BY <3>1, OnlyAll
    <3> QED BY <2>2, <3>2 DEF good, S
  <2>4. bound = [i \in {} |-> Bound(good[i], contracts)]
    BY <1>1, <2>2, <2>3
  <2> QED BY <1>2, <2>4 DEF Range
<1>6. CASE Holds(inst.config, c.from)
  <2>1. value = inst.config[c.from]
    BY <1>6, BindingIsRaw DEF value
  <2>2. CASE value.is = "bindings"
    <3>1. \A r \in Range(value.refs) : BindingErrors(inst, c, r, instances) = {}
      BY <1>6, <2>1, <2>2 DEF ConsumeErrors
    <3>2. IsList(value.refs)
      <4>1. c.from \in DOMAIN inst.def.schema /\ c.from \in DOMAIN inst.config
        BY <1>3, <1>6 DEF IsBindable, Holds
      <4>2. value \in inst.def.schema[c.from].allowed
        BY <2>1, <4>1 DEF ConfigErrors, When
      <4> QED BY <1>3, <2>2, <4>2 DEF IsBindable
    <3>3. Range(good) \subseteq Range(value.refs)
      <4> DEFINE S == {r \in Range(value.refs) : Leads(r, contracts)}
                 refs == value.refs
      <4>1. refs \in Seq(Range(refs))
        BY <3>2 DEF IsList
      <4> HIDE DEF S, refs
      <4>2. Range(Only(refs, S)) = Range(refs) \cap S
        BY <4>1, OnlyKeeps
      <4> QED BY <4>2 DEF good, S, refs
    <3>4. bound = [i \in DOMAIN good |-> Bound(good[i], contracts)]
      BY <1>1, <2>2
    <3>5. PICK i \in DOMAIN good : b = Bound(good[i], contracts)
      BY <1>2, <3>4 DEF Range
    <3>6. good[i] \in Range(value.refs)
      BY <3>3, <3>5 DEF Range
    <3> QED BY <3>1, <3>5, <3>6
  <2>3. CASE value.is = "binding"
    <3>1. BindingErrors(inst, c, value.ref, instances) = {}
      BY <1>6, <2>1, <2>3 DEF ConsumeErrors
    <3>2. b = Bound(value.ref, contracts)
      <4>1. bound \in {<<>>, <<Bound(value.ref, contracts)>>}
        BY <1>1, <2>3
      <4> QED BY <1>2, <4>1 DEF Range
    <3> QED BY <3>1, <3>2
  <2> QED BY <1>4, <2>2, <2>3
<1> QED BY <1>5, <1>6

(* What a provider advertises without errors is what is planned.           *)
LEMMA ContractIs ==
    ASSUME NEW plan, NEW inst, NEW env, IsPlanOf(plan, inst, env), NEW n \in ProvideNames(inst.def),
           NEW secrets, NEW contract, contract = ProvidedContracts(plan, secrets)[n],
           NEW p, p = Provided(inst.def, n)
    PROVE  /\ contract.kind = p.kind /\ IsAdvertised(p.spec)
           /\ contract.spec = [f \in DOMAIN p.spec |-> Substitute(p.spec[f], plan, secrets)]
<1>1. plan.def = inst.def /\ NamesDiffer(inst.def.provides) /\ IsList(inst.def.provides)
  BY DEF IsPlanOf, IsSound
<1>2. PICK i \in DOMAIN inst.def.provides : n = inst.def.provides[i].name
  BY DEF ProvideNames
<1>3. p = inst.def.provides[i] /\ Latest(inst.def.provides, n) = p
  BY <1>1, <1>2, NamedEntry DEF Provided
<1>4. contract = [kind |-> p.kind, spec |-> [f \in DOMAIN p.spec |-> Substitute(p.spec[f], plan, secrets)]]
  BY <1>1, <1>3 DEF ProvidedContracts
<1>5. p \in Range(inst.def.provides)
  BY <1>3 DEF Range
<1>6. IsAdvertised(p.spec)
  BY <1>5 DEF IsPlanOf, IsSound
<1> QED BY <1>4, <1>6

\* What a path outside the image holds in a plan.
LEMMA ConfiguredAsWritten ==
    ASSUME NEW plan, NEW inst, NEW env, IsPlanOf(plan, inst, env), NEW path, path \notin ImagePaths,
           Holds(inst.config, path)
    PROVE  Holds(plan.config, path) /\ plan.config[path] = inst.config[path]
BY DEF IsPlanOf, IsPlanned, Holds

LEMMA EngineIsPlanned ==
    ASSUME NEW plan, NEW inst, NEW env, IsPlanOf(plan, inst, env), NEW secrets,
           NEW spec, IsAdvertised(spec), NEW engine, engine.is = "text",
           AdvertisedEngine(spec, inst.config) = engine
    PROVE  "engine" \in DOMAIN spec /\ Substitute(spec["engine"], plan, secrets) = engine
<1> DEFINE adv == At(spec, "engine", Literal(Blank))
           value == IF adv.as = "literal" THEN adv.value
                    ELSE IF adv.as = "config" /\ Holds(inst.config, adv.path) THEN inst.config[adv.path]
                    ELSE Blank
<1>1. value = engine
  <2>1. AdvertisedEngine(spec, inst.config) = IF value.is = "text" THEN value ELSE Blank
    BY DEF AdvertisedEngine
  <2> HIDE DEF value
  <2> QED BY <2>1, KindsOfValues
<1>2. "engine" \in DOMAIN spec /\ adv = spec["engine"]
  <2>1. "engine" \notin DOMAIN spec => value = Blank
    BY DEF At, Literal
  <2> HIDE DEF value
  <2>2. "engine" \in DOMAIN spec
    BY <1>1, <2>1, KindsOfValues
  <2> QED BY <2>2 DEF At
<1> HIDE DEF adv
<1>3. CASE adv.as = "literal"
  BY <1>1, <1>2, <1>3 DEF Substitute
<1>4. CASE adv.as # "literal"
  <2>1. adv.as = "config" /\ Holds(inst.config, adv.path) /\ inst.config[adv.path] = engine
    BY <1>1, <1>4, KindsOfValues
  <2>2. adv.path \notin ImagePaths
    BY <1>2, <2>1 DEF IsAdvertised
  <2>3. Holds(plan.config, adv.path) /\ plan.config[adv.path] = engine
    BY <2>1, <2>2, ConfiguredAsWritten
  <2>4. Substitute(adv, plan, secrets) = Runtime(engine, secrets)
    BY <2>1, <2>3 DEF Substitute
  <2>5. Runtime(engine, secrets) = engine
    BY DEF Runtime, IsSecret
  <2> QED BY <1>2, <2>4, <2>5
<1> QED BY <1>3, <1>4

LEMMA EncryptionIsPlanned ==
    ASSUME NEW plan, NEW inst, NEW env, IsPlanOf(plan, inst, env), NEW secrets,
           NEW spec, IsAdvertised(spec), AdvertisesTrue(spec, "tls", inst.config)
    PROVE  "tls" \in DOMAIN spec /\ True(Substitute(spec["tls"], plan, secrets))
<1> DEFINE adv == spec["tls"]
<1>1. /\ "tls" \in DOMAIN spec
      /\ \/ adv.as = "literal" /\ adv.value = Flag(TRUE)
         \/ adv.as = "config" /\ Holds(inst.config, adv.path) /\ True(inst.config[adv.path])
  BY DEF AdvertisesTrue
<1>2. adv.as = "config" => adv.path \notin ImagePaths
  BY <1>1 DEF IsAdvertised
<1> HIDE DEF adv
<1>3. CASE adv.as = "literal" /\ adv.value = Flag(TRUE)
  <2>1. Substitute(adv, plan, secrets) = Flag(TRUE)
    BY <1>3 DEF Substitute
  <2> QED BY <1>1, <2>1 DEF True, adv
<1>4. CASE adv.as = "config" /\ Holds(inst.config, adv.path) /\ True(inst.config[adv.path])
  <2> DEFINE value == inst.config[adv.path]
  <2>1. Holds(plan.config, adv.path) /\ plan.config[adv.path] = value
    BY <1>2, <1>4, ConfiguredAsWritten
  <2>2. value \in {Flag(TRUE), Text("true")}
    BY <1>4 DEF True
  <2> HIDE DEF value
  <2>3. Substitute(adv, plan, secrets) = Runtime(value, secrets)
    BY <1>4, <2>1 DEF Substitute
  <2>4. Runtime(value, secrets) = value
    BY <2>2, KindsOfValues DEF Runtime, IsSecret
  <2> QED BY <1>1, <2>2, <2>3, <2>4 DEF True, adv
<1> QED BY <1>1, <1>3, <1>4

\* The engine that a consumer expects is the one that is planned for it.
LEMMA ExpectedIsPlanned ==
    ASSUME NEW plan, NEW inst, NEW env, IsPlanOf(plan, inst, env), NEW c \in Range(inst.def.consumes),
           c.engineFrom # NoPath, ExpectedEngine(inst, c.engineFrom).is = "text"
    PROVE  plan.config[c.engineFrom] = ExpectedEngine(inst, c.engineFrom)
<1> DEFINE path == c.engineFrom
           schema == inst.def.schema
<1>1. /\ path \notin ImagePaths
      /\ path \in DOMAIN schema => schema[path].byEnvironment = Nothing
  BY DEF IsPlanOf, IsSound, IsBindable
<1>2. IsPlanned(plan.config, inst.config, schema, env)
  BY DEF IsPlanOf
<1>3. ExpectedEngine(inst, path) =
          IF Holds(inst.config, path) THEN inst.config[path]
          ELSE IF path \in DOMAIN schema /\ "default" \in DOMAIN schema[path] THEN schema[path].default
          ELSE Blank
  BY DEF ExpectedEngine
<1> HIDE DEF path, schema
<1>4. CASE Holds(inst.config, path)
  BY <1>1, <1>3, <1>4, ConfiguredAsWritten DEF path
<1>5. CASE ~Holds(inst.config, path)
  <2>1. path \in DOMAIN schema /\ "default" \in DOMAIN schema[path]
    BY <1>3, <1>5, KindsOfValues DEF path
  <2>2. HasDefault(schema[path], env) /\ DefaultOf(schema[path], env) = schema[path].default
    <3>1. DOMAIN schema[path].byEnvironment = {}
      BY <1>1, <2>1 DEF Nothing
    <3> QED BY <2>1, <3>1 DEF HasDefault, DefaultOf
  <2>3. plan.config[path] = DefaultOf(schema[path], env)
    BY <1>1, <1>2, <1>5, <2>1, <2>2 DEF IsPlanned, Holds
  <2> QED BY <1>3, <1>5, <2>1, <2>2, <2>3 DEF path
<1> QED BY <1>4, <1>5

(* A binding that the validator finds nothing wrong with is planned to a   *)
(* contract of the kind, the engine and the encryption that are asked for. *)
LEMMA BindingHolds ==
    ASSUME NEW doc, NEW enabled, NEW instances, NEW planned, NEW options, NEW secrets, NEW contracts,
           SameModules(doc, enabled, instances, planned, options),
           IsContracts(contracts, enabled, instances, planned, secrets),
           NEW i \in DOMAIN enabled, NEW c \in Range(instances[i].def.consumes), NEW r,
           BindingErrors(instances[i], c, r, instances) = {},
           NEW contract, contract = contracts[r[1]][r[2]]
    PROVE  /\ \E k \in DOMAIN enabled : r[1] = enabled[k].id
           /\ contract.kind = c.kind
           /\ "host" \in DOMAIN contract.spec => contract.spec["host"].is = "host"
           /\ c.engineFrom # NoPath => contract.spec["engine"] = planned[i].config[c.engineFrom]
           /\ c.tls => True(contract.spec["tls"])
<1> DEFINE inst == instances[i]
           producer == Instance(instances, r[1])
           matched == Provided(producer.def, r[2])
           env == Environment(doc)
<1>1. /\ r[1] \in IdsOf(instances) /\ r[2] \in ProvideNames(producer.def)
      /\ matched.kind = c.kind
      /\ c.tls => AdvertisesTrue(matched.spec, "tls", producer.config)
      /\ EngineErrors(inst, c, matched.spec, producer.config) = {}
  <2> HIDE DEF inst, matched, producer
  <2>1. BindingErrors(inst, c, r, instances) =
            IF ~IsRef(r) \/ r[1] \notin IdsOf(instances) THEN {"E041"}
            ELSE IF r[2] \notin ProvideNames(producer.def) THEN {"E041"}
            ELSE IF matched.kind # c.kind THEN {"E042"}
            ELSE {code \in {"E128"} : c.tls /\ ~AdvertisesTrue(matched.spec, "tls", producer.config)}
                 \cup EngineErrors(inst, c, matched.spec, producer.config)
                 \cup {code \in {"E043"} : IsUnsupported(c.kind, producer.def, inst.def)}
    BY DEF BindingErrors, matched, producer
  <2>2. BindingErrors(inst, c, r, instances) = {}
    BY DEF inst
  <2> QED BY <2>1, <2>2
<1>2. PICK k \in DOMAIN enabled : r[1] = enabled[k].id
  <2>1. \A j \in DOMAIN enabled : instances[j].id = enabled[j].id
    BY PlansEach
  <2>2. DOMAIN instances = DOMAIN enabled
    BY DEF SameModules
  <2> QED BY <1>1, <2>1, <2>2 DEF IdsOf
<1>3. /\ producer = instances[k] /\ contract = ProvidedContracts(planned[k], secrets)[r[2]]
      /\ IsPlanOf(planned[k], instances[k], env) /\ IsPlanOf(planned[i], inst, env)
  <2>1. producer = Loaded(enabled[k]) /\ contracts[r[1]] = ProvidedContracts(planned[k], secrets)
    BY <1>2 DEF IsContracts
  <2>2. instances[k] = Loaded(enabled[k])
    BY DEF SameModules
  <2>3. IsPlanOf(planned[k], instances[k], env) /\ IsPlanOf(planned[i], inst, env)
    BY PlansEach
  <2> QED BY <2>1, <2>2, <2>3
<1> HIDE DEF producer, matched, env, inst
<1>4. /\ contract.kind = matched.kind /\ IsAdvertised(matched.spec)
      /\ contract.spec = [f \in DOMAIN matched.spec |-> Substitute(matched.spec[f], planned[k], secrets)]
  <2>1. r[2] \in ProvideNames(instances[k].def) /\ matched = Provided(instances[k].def, r[2])
    BY <1>1, <1>3 DEF matched
  <2> QED BY <1>3, <2>1, ContractIs
<1>5. "host" \in DOMAIN contract.spec => contract.spec["host"].is = "host"
  <2> SUFFICES ASSUME "host" \in DOMAIN matched.spec
               PROVE  Substitute(matched.spec["host"], planned[k], secrets).is = "host"
    BY <1>4
  <2>1. matched.spec["host"].as \in {"dns", "id"}
    BY <1>4 DEF IsAdvertised
  <2> QED BY <2>1 DEF Substitute, Host
<1>6. c.engineFrom # NoPath => contract.spec["engine"] = planned[i].config[c.engineFrom]
  <2> SUFFICES ASSUME c.engineFrom # NoPath PROVE contract.spec["engine"] = planned[i].config[c.engineFrom]
    OBVIOUS
  <2> DEFINE expected == ExpectedEngine(inst, c.engineFrom)
  <2>1. expected.is = "text" /\ AdvertisedEngine(matched.spec, producer.config) = expected
    BY <1>1 DEF EngineErrors
  <2>2. planned[i].config[c.engineFrom] = expected
    <3>1. c \in Range(inst.def.consumes)
      BY DEF inst
    <3> QED BY <1>3, <2>1, <3>1, ExpectedIsPlanned
  <2> HIDE DEF expected
  <2>3. "engine" \in DOMAIN matched.spec /\ Substitute(matched.spec["engine"], planned[k], secrets) = expected
    BY <1>3, <1>4, <2>1, EngineIsPlanned
  <2> QED BY <1>4, <2>2, <2>3
<1>7. c.tls => True(contract.spec["tls"])
  <2> SUFFICES ASSUME c.tls PROVE True(contract.spec["tls"])
    OBVIOUS
  <2>1. "tls" \in DOMAIN matched.spec /\ True(Substitute(matched.spec["tls"], planned[k], secrets))
    BY <1>1, <1>3, <1>4, EncryptionIsPlanned
  <2> QED BY <1>4, <2>1
<1> QED BY <1>1, <1>2, <1>4, <1>5, <1>6, <1>7

(* In a plan without errors of a valid profile, every binding is to an     *)
(* enabled module and of the kind, the engine and the encryption that are  *)
(* asked for, and every alias of a secret has its variable (the validator, *)
(* and resolve_consumed_contracts on the configuration of the planner).    *)
THEOREM BindingsOfPlansHold == Spec => []PlannedBindingsHold
<1>1. TypeOK => PlannedBindingsHold
  <2> SUFFICES ASSUME TypeOK, NEW overlay \in Environs, NEW options \in OptionSets,
                      NEW plan, plan = PlanOf(overlay, options), Valid(overlay), plan.errors = {},
                      NEW m \in Range(plan.modules)
               PROVE  /\ \A c \in Range(m.def.consumes) : c.name \in DOMAIN m.consumes =>
                            \A b \in Range(m.consumes[c.name].bound) :
                                /\ b.ref[1] \in IdsOf(plan.modules)
                                /\ b.contract.kind = c.kind
                                /\ b.contract = Instance(plan.modules, b.ref[1]).provides[b.ref[2]]
                                /\ "host" \in DOMAIN b.contract.spec => b.contract.spec["host"].is = "host"
                                /\ c.engineFrom # NoPath => b.contract.spec["engine"] = m.config[c.engineFrom]
                                /\ c.tls => True(b.contract.spec["tls"])
                      /\ \A p \in DOMAIN m.config : IsSecret(m.config[p]) => m.config[p].alias \in DOMAIN plan.secrets
    BY DEF PlannedBindingsHold, ErrorFree
  <2> DEFINE doc == Document(overlay)
             enabled == Enabled(doc)
             instances == Instances(doc)
             planned == PlanInstances(doc, options)
             secrets == SecretNames(doc, options)
             contracts == PlanContracts(planned, secrets)
  <2>1. IsFaultless(doc) /\ plan = Assemble(doc, options, secrets, planned, contracts)
    BY ValidPlan DEF WholePlan
  <2>2. SameModules(doc, enabled, instances, planned, options)
    BY <2>1, PlansTheSame DEF IsFaultless
  <2> HIDE DEF doc, enabled, planned, secrets, instances
  <2>3. IsContracts(contracts, enabled, instances, planned, secrets)
    BY <2>2, ContractsAre
  <2> HIDE DEF contracts
  <2>4. /\ DOMAIN plan.modules = DOMAIN planned /\ plan.secrets = secrets
        /\ \A j \in DOMAIN planned :
              /\ plan.modules[j] = PlannedModule(planned[j], contracts)
              /\ PlannedReferenceErrors(doc, planned[j].id, planned[j].config, secrets) \subseteq plan.errors
    BY <2>1, PlanIs
  <2>5. DOMAIN planned = DOMAIN enabled /\ DOMAIN instances = DOMAIN enabled
    BY <2>2 DEF SameModules
  <2>6. \A j \in DOMAIN enabled :
            /\ IsPlanOf(planned[j], instances[j], Environment(doc))
            /\ instances[j].id = enabled[j].id /\ planned[j].id = enabled[j].id
    <3>1. \A j \in DOMAIN enabled : IsPlanOf(planned[j], instances[j], Environment(doc))
                                    /\ instances[j].id = enabled[j].id
      BY <2>2, PlansEach
    <3> QED BY <3>1 DEF IsPlanOf
  <2>7. \A j \in DOMAIN enabled :
            /\ plan.modules[j].id = enabled[j].id /\ plan.modules[j].provides = contracts[enabled[j].id]
            /\ Instance(plan.modules, enabled[j].id) = plan.modules[j]
    <3>1. \A j \in DOMAIN enabled :
              plan.modules[j].id = enabled[j].id /\ plan.modules[j].provides = contracts[enabled[j].id]
      <4>1. \A inst : /\ PlannedModule(inst, contracts).id = inst.id
                      /\ PlannedModule(inst, contracts).provides = contracts[inst.id]
        BY DEF PlannedModule
      <4>2. \A j \in DOMAIN enabled : plan.modules[j] = PlannedModule(planned[j], contracts)
        BY <2>4, <2>5
      <4>3. \A j \in DOMAIN enabled : planned[j].id = enabled[j].id
        BY <2>6
      <4> QED BY <4>1, <4>2, <4>3
    <3>2. IdsDiffer(plan.modules)
      <4>1. IdsDiffer(instances)
        BY <2>2 DEF SameModules
      <4> QED BY <2>4, <2>5, <2>6, <3>1, <4>1 DEF IdsDiffer
    <3>3. \A j \in DOMAIN plan.modules : Instance(plan.modules, plan.modules[j].id) = plan.modules[j]
      BY <3>2, InstanceIs
    <3> QED BY <2>4, <2>5, <3>1, <3>3
  <2>8. PICK i \in DOMAIN enabled : m = plan.modules[i]
    BY <2>4, <2>5 DEF Range
  <2>9. /\ m.def = instances[i].def /\ m.config = planned[i].config
        /\ m.consumes = ConsumedContracts(planned[i], contracts)
    <3>1. m = PlannedModule(planned[i], contracts) /\ planned[i].def = instances[i].def
      BY <2>4, <2>5, <2>6, <2>8 DEF IsPlanOf
    <3> QED BY <3>1 DEF PlannedModule
  <2>10. ASSUME NEW p \in DOMAIN m.config, IsSecret(m.config[p]) PROVE m.config[p].alias \in DOMAIN plan.secrets
    <3>1. PlannedReferenceErrors(doc, planned[i].id, planned[i].config, secrets) = {}
      BY <2>4, <2>5, <2>8
    <3>2. \A v \in {planned[i].config[q] : q \in DOMAIN planned[i].config} : IsSecret(v) => v.alias \in DOMAIN secrets
      BY <3>1 DEF PlannedReferenceErrors, When
    <3> QED BY <2>4, <2>9, <2>10, <3>2
  <2>11. ASSUME NEW c \in Range(m.def.consumes), c.name \in DOMAIN m.consumes,
                NEW b \in Range(m.consumes[c.name].bound)
         PROVE  /\ b.ref[1] \in IdsOf(plan.modules)
                /\ b.contract.kind = c.kind
                /\ b.contract = Instance(plan.modules, b.ref[1]).provides[b.ref[2]]
                /\ "host" \in DOMAIN b.contract.spec => b.contract.spec["host"].is = "host"
                /\ c.engineFrom # NoPath => b.contract.spec["engine"] = m.config[c.engineFrom]
                /\ c.tls => True(b.contract.spec["tls"])
    <3>1. c \in Range(instances[i].def.consumes) /\ b \in Range(Consumed(planned[i], c, contracts).bound)
      <4>1. c \in Range(instances[i].def.consumes)
        BY <2>9, <2>11
      <4>2. m.consumes[c.name] = Consumed(planned[i], c, contracts)
        BY <2>6, <2>8, <2>9, <2>11, <4>1, ConsumedByName
      <4> QED BY <2>11, <4>1, <4>2
    <3>2. ConfigErrors(instances[i]) = {} /\ ConsumeErrors(instances[i], c, instances) = {}
      <4>1. ConfigErrors(instances[i]) = {} /\ ContractErrors(instances[i], instances) = {}
        BY <2>1, <2>5, <2>8 DEF IsFaultless, instances
      <4> QED BY <3>1, <4>1 DEF ContractErrors, At1
    <3>3. PICK r : b = Bound(r, contracts) /\ BindingErrors(instances[i], c, r, instances) = {}
      <4> DEFINE inst == instances[i]
                 own == planned[i]
                 env == Environment(doc)
      <4>1. IsPlanOf(own, inst, env)
        BY <2>6, <2>8
      <4>2. /\ c \in Range(inst.def.consumes) /\ b \in Range(Consumed(own, c, contracts).bound)
            /\ ConfigErrors(inst) = {} /\ ConsumeErrors(inst, c, instances) = {}
        BY <3>1, <3>2
      <4> HIDE DEF inst, own, env
      <4>3. \E r : b = Bound(r, contracts) /\ BindingErrors(inst, c, r, instances) = {}
        BY <4>1, <4>2, BoundIsChecked
      <4> QED BY <4>3 DEF inst
    <3>4. b.ref = r /\ b.contract = contracts[r[1]][r[2]]
      BY <3>3 DEF Bound
    <3>5. /\ \E k \in DOMAIN enabled : r[1] = enabled[k].id
          /\ b.contract.kind = c.kind
          /\ "host" \in DOMAIN b.contract.spec => b.contract.spec["host"].is = "host"
          /\ c.engineFrom # NoPath => b.contract.spec["engine"] = planned[i].config[c.engineFrom]
          /\ c.tls => True(b.contract.spec["tls"])
      BY <2>2, <2>3, <2>8, <3>1, <3>3, <3>4, BindingHolds
    <3>6. PICK k \in DOMAIN enabled : r[1] = enabled[k].id
      BY <3>5
    <3>7. r[1] \in IdsOf(plan.modules)
      BY <2>4, <2>5, <2>7, <3>6 DEF IdsOf
    <3>8. b.contract = Instance(plan.modules, b.ref[1]).provides[b.ref[2]]
      BY <2>7, <3>4, <3>6
    <3> QED BY <2>9, <3>4, <3>5, <3>7, <3>8
  <2> QED BY <2>10, <2>11
<1> QED BY <1>1, FilesStayDocuments, PTL

(***************************************************************************)
(* Image tags                                                              *)
(***************************************************************************)

(* --hardened writes the variant and nothing else.                         *)
LEMMA HardenedIs ==
    ASSUME NEW preset, NEW schema, NEW hardened, NEW config, config = ApplyHardened(preset, schema, hardened),
           NEW path, path # "image.variant"
    PROVE  /\ path \in DOMAIN config <=> path \in DOMAIN preset
           /\ path \in DOMAIN config => config[path] = preset[path]
<1> DEFINE new == Put(preset, "image.variant", Text("hardened"))
<1>1. IsPut(new, preset, "image.variant", Text("hardened"))
  BY PutIs
<1>2. config \in {preset, new}
  BY DEF ApplyHardened
<1> HIDE DEF new
<1> QED BY <1>1, <1>2 DEF IsPut

LEMMA PresetTag ==
    ASSUME NEW schema, NEW env, HasBaseTag(schema), "image.tag" \in DOMAIN schema,
           Presets(schema["image.tag"]) # {}
    PROVE  /\ "default" \in DOMAIN schema["image.tag"]
           /\ HasDefault(schema["image.tag"], env)
           /\ DefaultOf(schema["image.tag"], env) = schema["image.tag"].default
           /\ schema["image.tag"].default.variant = "base" /\ schema["image.tag"].default # Blank
           /\ "image.source" \in DOMAIN schema
           /\ HasDefault(schema["image.source"], env) =>
                 DefaultOf(schema["image.source"], env) # Text("registry")
<1> DEFINE entry == schema["image.tag"]
<1>1. /\ entry.byEnvironment = Nothing /\ entry.default = Tag("base", entry.default.tag)
      /\ "image.source" \in DOMAIN schema /\ Text("registry") \notin Presets(schema["image.source"])
  BY DEF HasBaseTag
<1> HIDE DEF entry
<1>2. DOMAIN entry.byEnvironment = {}
  BY <1>1 DEF Nothing
<1>3. "default" \in DOMAIN entry
  BY <1>2 DEF Presets, Range, entry
<1>4. entry.default.variant = "base" /\ entry.default.is = "tag"
  BY <1>1, KindsOfValues
<1>5. HasDefault(entry, env) /\ DefaultOf(entry, env) = entry.default
  BY <1>2, <1>3 DEF HasDefault, DefaultOf
<1>6. HasDefault(schema["image.source"], env) => DefaultOf(schema["image.source"], env) # Text("registry")
  BY <1>1, PresetIs
<1> QED BY <1>1, <1>3, <1>4, <1>5, <1>6, KindsOfValues DEF entry

(* The tag of an image from the registry, where the profile neither sets   *)
(* one nor says that it comes from there.                                  *)
LEMMA TagFits ==
    ASSUME NEW raw, NEW schema, NEW env, HasBaseTag(schema), NEW source,
           "image.tag" \notin DOMAIN raw, At(raw, "image.source", Blank) # Text("registry"),
           NEW hardened,
           NEW config, config = ApplyImageSource(
               ApplyHardened(ApplyDefaults(raw, schema, env), schema, hardened), schema, source),
           "image.tag" \in DOMAIN config, At(config, "image.source", Blank) = Text("registry")
    PROVE  config["image.tag"].variant = VariantOf(config)
<1> DEFINE preset == ApplyDefaults(raw, schema, env)
           before == ApplyHardened(preset, schema, hardened)
           chosen == Put(before, "image.source", Text(source))
           default == At(At(schema, "image.tag", Nothing), "default", Blank)
           variant == At(before, "image.variant", Blank)
           moved == Put(chosen, "image.tag", Tag(variant.text, default.tag))
<1>1. IsPreset(preset, raw, schema, env)
  BY DefaultsAreApplied
<1>2. config = IF source = Absent \/ "image.source" \notin DOMAIN schema THEN before
               ELSE IF /\ source = "registry" /\ default # Blank /\ At(before, "image.tag", Blank) = default
                       /\ variant \notin {Blank, Text("base")} /\ default.variant # variant.text
               THEN moved ELSE chosen
  BY DEF ApplyImageSource
<1> HIDE DEF preset
<1>3. \A p \in {"image.tag", "image.source"} :
          /\ p \in DOMAIN before <=> p \in DOMAIN preset
          /\ p \in DOMAIN before => before[p] = preset[p]
  BY HardenedIs
<1> HIDE DEF moved, before
<1>4. IsPut(chosen, before, "image.source", Text(source))
  BY PutIs
<1>5. IsPut(moved, chosen, "image.tag", Tag(variant.text, default.tag))
  BY PutIs DEF moved
<1> HIDE DEF chosen
<1>6. "image.tag" \in DOMAIN schema /\ Presets(schema["image.tag"]) # {}
  <2> SUFFICES ASSUME ~("image.tag" \in DOMAIN schema /\ Presets(schema["image.tag"]) # {}) PROVE FALSE
    OBVIOUS
  <2>1. "image.tag" \notin DOMAIN preset
    BY <1>1, PresetIs DEF IsPreset
  <2>2. default = Blank
    BY DEF At, Nothing, Presets
  <2>3. "image.tag" \notin DOMAIN chosen /\ "image.tag" \notin DOMAIN before
    BY <1>3, <1>4, <2>1 DEF IsPut
  <2> QED BY <1>2, <2>2, <2>3
<1>7. /\ "default" \in DOMAIN schema["image.tag"] /\ HasDefault(schema["image.tag"], env)
      /\ DefaultOf(schema["image.tag"], env) = schema["image.tag"].default
      /\ schema["image.tag"].default.variant = "base" /\ schema["image.tag"].default # Blank
      /\ "image.source" \in DOMAIN schema
      /\ HasDefault(schema["image.source"], env) =>
            DefaultOf(schema["image.source"], env) # Text("registry")
  BY <1>6, PresetTag
<1>8. default = schema["image.tag"].default
  BY <1>6, <1>7 DEF At
<1> HIDE DEF default
<1>9. "image.tag" \in DOMAIN before /\ before["image.tag"] = default
  <2>1. "image.tag" \in DOMAIN preset /\ preset["image.tag"] = default
    BY <1>1, <1>6, <1>7, <1>8 DEF IsPreset
  <2> QED BY <1>3, <2>1
<1>10. At(before, "image.source", Blank) # Text("registry")
  <2>1. Blank # Text("registry")
    BY KindsOfValues
  <2>2. "image.source" \in DOMAIN preset => preset["image.source"] # Text("registry")
    BY <1>1, <1>7 DEF IsPreset, At
  <2> QED BY <1>3, <2>1, <2>2 DEF At
<1>11. source = "registry" /\ config \in {moved, chosen} /\ source # Absent
  <2>1. config # before
    BY <1>10
  <2>2. source # Absent /\ config \in {moved, chosen}
    BY <1>2, <2>1
  <2>3. config # chosen => source = "registry"
    BY <1>2, <2>1
  <2>4. chosen = config => source = "registry"
    <3>1. chosen = config => Text(source) = Text("registry")
      BY <1>4 DEF IsPut, At
    <3> QED BY <3>1, KindsOfValues
  <2> QED BY <2>1, <2>2, <2>3, <2>4
<1>12. At(chosen, "image.variant", Blank) = variant /\ At(moved, "image.variant", Blank) = variant
  BY <1>4, <1>5 DEF IsPut, At
<1>13. chosen["image.tag"] = default /\ At(before, "image.tag", Blank) = default
  BY <1>4, <1>9 DEF IsPut, At
<1>14. VariantOf(config) = IF variant = Blank THEN "base" ELSE variant.text
  BY <1>11, <1>12 DEF VariantOf
<1> HIDE DEF variant
<1>15. CASE variant \in {Blank, Text("base")} \/ default.variant = variant.text
  <2>1. config = chosen
    BY <1>2, <1>7, <1>11, <1>15
  <2>2. config["image.tag"].variant = "base"
    BY <1>7, <1>8, <1>13, <2>1
  <2> QED BY <1>7, <1>8, <1>14, <1>15, <2>2, KindsOfValues
<1>16. CASE ~(variant \in {Blank, Text("base")} \/ default.variant = variant.text)
  <2>1. config = moved
    BY <1>2, <1>7, <1>8, <1>11, <1>13, <1>16
  <2>2. config["image.tag"] = Tag(variant.text, default.tag)
    BY <1>5, <2>1 DEF IsPut
  <2> QED BY <1>14, <1>16, <2>2, KindsOfValues
<1> QED BY <1>15, <1>16

(* An image that is to be pulled from the registry carries the tag of the  *)
(* variant that is planned, whether --image-source or the profile asks for *)
(* the registry, unless the profile sets the tag: the order of             *)
(* apply_defaults, --hardened and _apply_image_source_override, and E103   *)
(* (validate_image_source_config), which lets no profile say registry      *)
(* without a tag.                                                          *)
THEOREM TagsOfPlansFit == Spec => []TagsFitVariants
<1>1. TypeOK => TagsFitVariants
  <2> SUFFICES ASSUME TypeOK, NEW overlay \in Environs, NEW options \in OptionSets,
                      NEW plan, plan = PlanOf(overlay, options), Valid(overlay),
                      NEW m \in Range(plan.modules),
                      NEW raw, raw = ConfigOf(Instance(Document(overlay).modules, m.id)),
                      At(m.config, "image.source", Blank) = Text("registry"),
                      "image.tag" \in DOMAIN m.config, ~Holds(raw, "image.tag")
               PROVE  m.config["image.tag"].variant = VariantOf(m.config)
    BY DEF TagsFitVariants, ErrorFree
  <2> DEFINE doc == Document(overlay)
             enabled == Enabled(doc)
             instances == Instances(doc)
             planned == PlanInstances(doc, options)
             secrets == SecretNames(doc, options)
             contracts == PlanContracts(planned, secrets)
             env == Environment(doc)
  <2>1. IsFaultless(doc) /\ plan = Assemble(doc, options, secrets, planned, contracts)
    BY ValidPlan DEF WholePlan
  <2>2. SameModules(doc, enabled, instances, planned, options)
    BY <2>1, PlansTheSame DEF IsFaultless
  <2> HIDE DEF enabled, planned, secrets, instances, contracts, env
  <2>3. /\ DOMAIN plan.modules = DOMAIN planned
        /\ \A j \in DOMAIN planned : plan.modules[j] = PlannedModule(planned[j], contracts)
    BY <2>1, PlanIs
  <2>4. PICK i \in DOMAIN planned : m = plan.modules[i]
    BY <2>3 DEF Range
  <2>5. /\ i \in DOMAIN enabled /\ i \in DOMAIN instances /\ planned[i] = PlanInstance(doc, enabled[i], options)
        /\ enabled[i] \in Range(doc.modules) /\ LoadError(enabled[i]) = "none"
    BY <2>2 DEF SameModules
  <2>6. m.id = enabled[i].id /\ m.config = PlannedConfig(enabled[i], env, options)
    <3>1. m = PlannedModule(planned[i], contracts)
      BY <2>3, <2>4
    <3> QED BY <2>5, <3>1 DEF PlannedModule, PlanInstance, env
  <2>7. Instance(doc.modules, m.id) = enabled[i]
    <3>1. IdsDiffer(doc.modules)
      BY <2>1 DEF IsFaultless, IsLoadable
    <3>2. PICK k \in DOMAIN doc.modules : doc.modules[k] = enabled[i]
      BY <2>5 DEF Range
    <3> QED BY <2>6, <3>1, <3>2, InstanceIs
  <2> DEFINE schema == DefinitionOf(enabled[i]).schema
  <2>8. raw = ConfigOf(enabled[i]) /\ HasBaseTag(schema)
    BY <2>5, <2>7, LoadsSoundly DEF IsSound
  <2>9. At(raw, "image.source", Blank) # Text("registry")
    <3>1. ImageSourceErrors(instances[i]) = {}
      BY <2>1, <2>5 DEF IsFaultless, instances
    <3>2. instances[i].config = raw
      BY <2>2, <2>5, <2>8, PlansEach
    <3>3. At(raw, "image.tag", Blank).is \notin {"text", "tag"}
      BY KindsOfValues DEF Holds, At
    <3> QED BY <3>1, <3>2, <3>3 DEF ImageSourceErrors, When
  <2>10. m.config = ApplyImageSource(
             ApplyHardened(ApplyDefaults(raw, schema, env), schema, options.hardened), schema,
             options.imageSource)
    BY <2>6, <2>8 DEF PlannedConfig
  <2> HIDE DEF schema
  <2> QED BY <2>8, <2>9, <2>10, TagFits DEF Holds
<1> QED BY <1>1, FilesStayDocuments, PTL

(***************************************************************************)
(* What adding a module leaves as it was                                   *)
(***************************************************************************)

(* The instances of a document are its enabled modules, found by their ids. *)
LEMMA InstancesAre ==
    ASSUME NEW doc, IsLoadable(doc)
    PROVE  /\ Range(Instances(doc)) = {Loaded(m) : m \in Range(Enabled(doc))}
           /\ IdsOf(Instances(doc)) = {m.id : m \in Range(Enabled(doc))}
           /\ \A m \in Range(Enabled(doc)) : Instance(Instances(doc), m.id) = Loaded(m)
<1> DEFINE enabled == Enabled(doc)
           instances == Instances(doc)
<1>1. IdsDiffer(enabled)
  BY DEF IsLoadable
<1>2. instances = [i \in DOMAIN enabled |-> Loaded(enabled[i])]
  BY DEF Instances
<1> HIDE DEF enabled, instances
<1>3. DOMAIN instances = DOMAIN enabled /\ \A i \in DOMAIN enabled : instances[i] = Loaded(enabled[i])
  BY <1>2
<1>4. \A i \in DOMAIN enabled : instances[i].id = enabled[i].id
  BY <1>3 DEF Loaded
<1>5. IdsDiffer(instances)
  BY <1>1, <1>3, <1>4 DEF IdsDiffer
<1>6. ASSUME NEW m \in Range(enabled) PROVE Instance(instances, m.id) = Loaded(m)
  <2>1. PICK i \in DOMAIN enabled : m = enabled[i]
    BY DEF Range
  <2> QED BY <1>3, <1>4, <1>5, <2>1, InstanceIs
<1>7. Range(instances) = {Loaded(m) : m \in Range(enabled)}
  BY <1>3 DEF Range
<1>8. IdsOf(instances) = {m.id : m \in Range(enabled)}
  BY <1>3, <1>4 DEF Range, IdsOf
<1> QED BY <1>6, <1>7, <1>8 DEF enabled, instances

(* The dependency check of a document whose modules load.                  *)
LEMMA StartableIfFine ==
    ASSUME NEW doc, IsLoadable(doc), \A m \in Range(doc.modules) : IsList(DependsOn(m))
    PROVE  Startable(Instances(doc)) <=> ValidateDependencies(Instances(doc)) = {}
<1> DEFINE enabled == Enabled(doc)
           instances == Instances(doc)
           order == [i \in DOMAIN instances |-> instances[i].id]
           ids == IdsOf(instances)
           on == [m \in Range(order) |-> Instance(instances, m).dependsOn]
<1>1. /\ enabled \in Seq(Range(doc.modules)) /\ DOMAIN instances = DOMAIN enabled
      /\ \A i \in DOMAIN instances : instances[i] = Loaded(enabled[i])
  BY DEF IsLoadable, Instances
<1> HIDE DEF enabled
<1>2. \A i \in DOMAIN instances : IsList(instances[i].dependsOn)
  <2> SUFFICES ASSUME NEW i \in DOMAIN instances PROVE IsList(instances[i].dependsOn)
    OBVIOUS
  <2>1. enabled[i] \in Range(doc.modules)
    BY <1>1
  <2>2. instances[i].dependsOn = DependsOn(enabled[i])
    <3>1. instances[i] = Loaded(enabled[i])
      BY <1>1
    <3> QED BY <3>1 DEF Loaded
  <2> QED BY <2>1, <2>2
<1>3. IsList(order) /\ Range(order) = ids
  <2>1. DOMAIN instances = 1 .. Len(enabled) /\ Len(enabled) \in Nat
    BY <1>1
  <2>2. \A i \in 1 .. Len(enabled) : order[i] \in Range(order)
    BY <2>1 DEF Range
  <2>3. order \in Seq(Range(order))
    BY <2>1, <2>2
  <2> QED BY <2>3 DEF IsList, Range, IdsOf
<1>4. \A m \in Range(order) : on[m] = Instance(instances, m).dependsOn /\ IsList(on[m])
  <2> SUFFICES ASSUME NEW m \in Range(order) PROVE IsList(Instance(instances, m).dependsOn)
    OBVIOUS
  <2>1. \E i \in DOMAIN instances : instances[i].id = m
    BY DEF Range
  <2>2. IndexOf(instances, m) \in DOMAIN instances
    BY <2>1 DEF IndexOf
  <2> QED BY <1>2, <2>2 DEF Instance
<1>5. ValidateDependencies(instances) = ValidateDependencyGraph(order, on)
  BY DEF ValidateDependencies
<1> HIDE DEF order, on, ids
<1>6. ValidateDependencyGraph(order, on) = {} <=>
          /\ \A m \in ids : Range(on[m]) \subseteq ids
          /\ NoCircle(ids, on)
  BY <1>3, <1>4, DependencyCheck
<1>7. Startable(instances) <=>
          /\ \A m \in ids : Range(on[m]) \subseteq ids
          /\ NoCircle(ids, on)
  <2>1. \A m \in ids : Range(on[m]) = Range(Instance(instances, m).dependsOn)
    BY <1>3, <1>4
  <2> QED BY <2>1 DEF Startable, NoCircle, ids
<1> QED BY <1>5, <1>6, <1>7

(* The dependency check reports nothing exactly if the enabled modules can *)
(* be started one after the other (validate_dependency_graph).             *)
THEOREM DependencyCheckIsRight == Spec => []DependencyVerdict
<1>1. TypeOK => DependencyVerdict
  <2> SUFFICES ASSUME TypeOK, NEW overlay \in Environs,
                      NEW resolved, resolved = Resolve(disk, Profile, overlay),
                      resolved.ok, ShapeErrors(resolved.doc) = {}, LoadErrors(resolved.doc) = {}
               PROVE  Startable(Instances(resolved.doc)) <=> ValidateDependencies(Instances(resolved.doc)) = {}
    BY DEF DependencyVerdict
  <2> DEFINE doc == resolved.doc
  <2>1. IsModules(doc.modules)
    <3>1. Fit(resolved)
      BY ResolvedIsFit, Contents DEF TypeOK, Environs
    <3> QED BY <3>1 DEF Fit, IsMapping
  <2> HIDE DEF doc
  <2>2. \A m \in Range(Enabled(doc)) : LoadError(m) = "none"
    BY DEF LoadErrors, doc
  <2>3. IsLoadable(doc) /\ \A m \in Range(doc.modules) : IsList(DependsOn(m))
    BY <2>1, <2>2, ShapeIsSound, EnabledAre DEF IsLoadable, doc
  <2> QED BY <2>3, StartableIfFine DEF doc
<1> QED BY <1>1, FilesStayDocuments, PTL

\* The instances of a document with those of another and perhaps one more, that
\* depends on others.
GrowsBy(more, instances, added) ==
    /\ IdsOf(instances) \subseteq IdsOf(more) /\ IdsOf(more) \subseteq IdsOf(instances) \cup {added.id}
    /\ added.id \notin IdsOf(instances)
    /\ \A m \in IdsOf(instances) : Instance(more, m) = Instance(instances, m)
    /\ added.id \in IdsOf(more) => Instance(more, added.id) = added

(* A module that depends only on modules that were there can be started    *)
(* after them.                                                             *)
LEMMA StaysStartable ==
    ASSUME NEW instances, NEW more, NEW added, GrowsBy(more, instances, added),
           Startable(instances), Range(added.dependsOn) \subseteq IdsOf(instances)
    PROVE  Startable(more)
<1> DEFINE old == IdsOf(instances)
           ids == IdsOf(more)
           on(m) == Range(Instance(more, m).dependsOn)
<1>1. \A m \in ids : on(m) \subseteq old
  BY DEF GrowsBy, Startable
<1>2. \A S \in (SUBSET old) \ {{}} : \E m \in S : on(m) \cap S = {}
  BY DEF GrowsBy, Startable
<1>3. old \subseteq ids /\ ids \subseteq old \cup {added.id}
  BY DEF GrowsBy
<1> HIDE DEF old, ids, on
<1>4. ASSUME NEW S \in (SUBSET ids) \ {{}} PROVE \E m \in S : on(m) \cap S = {}
  <2>1. CASE S \cap old = {}
    BY <1>1, <2>1
  <2>2. CASE S \cap old # {}
    <3>1. PICK m \in S \cap old : on(m) \cap (S \cap old) = {}
      BY <1>2, <2>2
    <3>2. on(m) \subseteq old
      BY <1>1, <1>3
    <3> QED BY <3>1, <3>2
  <2> QED BY <2>1, <2>2
<1>5. \A m \in ids : on(m) \subseteq ids
  BY <1>1, <1>3
<1> QED BY <1>4, <1>5 DEF Startable, ids, on

(* A binding that is right stays right.                                    *)
LEMMA StaysBound ==
    ASSUME NEW instances, NEW more, NEW added, GrowsBy(more, instances, added),
           NEW inst, NEW consume, ConsumeErrors(inst, consume, instances) = {}
    PROVE  ConsumeErrors(inst, consume, more) = {}
<1>1. ASSUME NEW ref, BindingErrors(inst, consume, ref, instances) = {}
      PROVE  BindingErrors(inst, consume, ref, more) = {}
  <2>1. IsRef(ref) /\ ref[1] \in IdsOf(instances)
    BY <1>1 DEF BindingErrors
  <2>2. ref[1] \in IdsOf(more) /\ Instance(more, ref[1]) = Instance(instances, ref[1])
    BY <2>1 DEF GrowsBy
  <2> QED BY <1>1, <2>1, <2>2 DEF BindingErrors
<1> DEFINE required == consume.required \/ RequiredBy(consume.requiredIf, inst.config)
           value == inst.config[consume.from]
<1>2. CASE ~Holds(inst.config, consume.from)
  BY <1>2 DEF ConsumeErrors
<1>3. CASE Holds(inst.config, consume.from) /\ value.is = "bindings"
  <2>1. {code \in {"E041"} : value.refs = <<>> /\ required} = {}
    BY <1>3 DEF ConsumeErrors
  <2>2. \A r \in Range(value.refs) : BindingErrors(inst, consume, r, instances) = {}
    BY <1>3 DEF ConsumeErrors
  <2>3. UNION {BindingErrors(inst, consume, r, more) : r \in Range(value.refs)} = {}
    BY <1>1, <2>2
  <2>4. ConsumeErrors(inst, consume, more) =
            {code \in {"E041"} : value.refs = <<>> /\ required}
            \cup UNION {BindingErrors(inst, consume, r, more) : r \in Range(value.refs)}
    BY <1>3 DEF ConsumeErrors
  <2> QED BY <2>1, <2>3, <2>4
<1>4. CASE Holds(inst.config, consume.from) /\ value.is = "binding"
  <2>1. BindingErrors(inst, consume, value.ref, instances) = {}
    BY <1>4 DEF ConsumeErrors
  <2>2. ConsumeErrors(inst, consume, more) = BindingErrors(inst, consume, value.ref, more)
    BY <1>4 DEF ConsumeErrors
  <2> QED BY <1>1, <2>1, <2>2
<1>5. CASE Holds(inst.config, consume.from) /\ value.is \notin {"bindings", "binding"}
  BY <1>5 DEF ConsumeErrors
<1> QED BY <1>2, <1>3, <1>4, <1>5

(***************************************************************************)
(* What compose-profile binds, and the module that it adds                 *)
(***************************************************************************)

\* A reference to a contract of this kind of an enabled module.
IsContractOf(doc, ref, kind) ==
    \E m \in Range(Enabled(doc)) :
        /\ ref = <<m.id, ref[2]>>
        /\ ref[2] \in ProvideNames(DefinitionOf(m))
        /\ Provided(DefinitionOf(m), ref[2]).kind = kind

LEMMA ProvidersAre ==
    ASSUME NEW doc, IsLoadable(doc), NEW ref \in DOMAIN Providers(doc)
    PROVE  IsContractOf(doc, ref, Providers(doc)[ref])
<1> DEFINE enabled == Enabled(doc)
<1>1. /\ enabled \in Seq(Range(doc.modules)) /\ IdsDiffer(enabled)
      /\ \A m \in Range(enabled) : m.id # NoId /\ LoadError(m) = "none"
  BY DEF IsLoadable
<1>2. Sourced(doc) = enabled
  <2> DEFINE sourced == {m \in Range(enabled) : SourceOf(m) # Absent}
  <2>1. Range(enabled) \subseteq sourced
    BY <1>1, LoadsSoundly
  <2>2. Sourced(doc) = Only(enabled, sourced)
    BY DEF Sourced
  <2> HIDE DEF enabled, sourced
  <2> QED BY <1>1, <2>1, <2>2, OnlyAll
<1> HIDE DEF enabled
<1> DEFINE refs(m) == {<<m.id, n>> : n \in ProvideNames(DefinitionOf(m))}
           known == {m \in Range(enabled) : m.id # NoId}
           kind(r) == Latest(DefinitionOf(Instance(enabled, r[1])).provides, r[2]).kind
<1>3. Providers(doc) = [r \in UNION {refs(m) : m \in known} |-> kind(r)]
  BY <1>2 DEF Providers
<1>4. PICK m \in Range(enabled) : \E n \in ProvideNames(DefinitionOf(m)) : ref = <<m.id, n>>
  BY <1>3
<1>5. Providers(doc)[ref] = Latest(DefinitionOf(Instance(enabled, ref[1])).provides, ref[2]).kind
  BY <1>3
<1> DEFINE n == ref[2]
<1>6. ref = <<m.id, n>> /\ n \in ProvideNames(DefinitionOf(m)) /\ ref[1] = m.id
  BY <1>4
<1> HIDE DEF n
<1>7. Instance(enabled, m.id) = m
  BY <1>1, InstanceIs DEF Range
<1> DEFINE provides == DefinitionOf(m).provides
<1>8. IsList(provides) /\ NamesDiffer(provides)
  BY <1>1, LoadsSoundly DEF IsSound
<1>9. PICK i \in DOMAIN provides : provides[i].name = n
  BY <1>6 DEF ProvideNames
<1>10. Latest(provides, n) = provides[i] /\ Earliest(provides, n) = provides[i]
  <2> HIDE DEF provides
  <2> QED BY <1>8, <1>9, NamedEntry
<1>11. Provided(DefinitionOf(m), n).kind = Providers(doc)[ref]
  BY <1>5, <1>6, <1>7, <1>10 DEF Provided
<1> QED BY <1>6, <1>11 DEF IsContractOf, enabled, n

(* What is chosen for a consume entry without an error: a contract of its  *)
(* kind, or nothing where nothing is needed.                               *)
LEMMA ChoiceIs ==
    ASSUME NEW doc, IsLoadable(doc), NEW consume, NEW request,
           Choose(consume, request, Providers(doc)).errors = {},
           NEW ref, ref = Choose(consume, request, Providers(doc)).ref
    PROVE  /\ ref # NoRef => IsContractOf(doc, ref, consume.kind)
           /\ ref = NoRef => ~consume.required
<1> DEFINE providers == Providers(doc)
           candidates == {r \in DOMAIN providers : providers[r] = consume.kind}
           asked == At(request.bindings, consume.name, Absent)
<1>1. \A r \in candidates : IsContractOf(doc, r, consume.kind)
  BY ProvidersAre
<1>2. \A r \in candidates : r # NoRef
  <2> SUFFICES ASSUME NEW r \in candidates, r = NoRef PROVE FALSE
    OBVIOUS
  <2>1. PICK id, n : r = <<id, n>>
    BY <1>1 DEF IsContractOf
  <2>2. Len(r) = 2 /\ Len(NoRef) = 1
    BY <2>1 DEF NoRef
  <2> QED BY <2>2
<1>3. Choose(consume, request, providers) =
          IF asked # Absent
          THEN IF asked \in candidates THEN [ref |-> asked, errors |-> {}]
               ELSE [ref |-> NoRef, errors |-> {"E124"}]
          ELSE IF Cardinality(candidates) = 1
          THEN [ref |-> CHOOSE r \in candidates : TRUE, errors |-> {}]
          ELSE [ref |-> NoRef,
                errors |-> {code \in {"E125"} : candidates # {} \/ consume.required}]
  BY DEF Choose
<1> HIDE DEF candidates, asked, providers
<1>4. CASE asked # Absent
  BY <1>1, <1>2, <1>3, <1>4 DEF providers
<1>5. CASE asked = Absent /\ Cardinality(candidates) = 1
  <2>1. candidates # {}
    BY <1>5, FS_EmptySet
  <2>2. ref = CHOOSE r \in candidates : TRUE
    BY <1>3, <1>5 DEF providers
  <2>3. ref \in candidates
    BY <2>1, <2>2
  <2> QED BY <1>1, <1>2, <2>3
<1>6. CASE asked = Absent /\ Cardinality(candidates) # 1
  BY <1>3, <1>6 DEF providers
<1> QED BY <1>4, <1>5, <1>6

(***************************************************************************)
(* What the validator says of the profile with the added module            *)
(***************************************************************************)

\* What compose-profile answers for, and errors of which it causes none.
Answered == {"E010", "E011", "E040", "E042", "E050"}
Unasked(errors) == \A e \in errors : e[1] \notin Answered

(* The shape of a valid profile is still right with one more module.       *)
LEMMA ShapeIsKept ==
    ASSUME NotAList, NEW doc, IsMapping(doc), ShapeErrors(doc) = {},
           NEW request, NEW composed, NEW module, NEW ref, Composes(doc, request, composed, module, ref)
    PROVE  ShapeErrors(composed) = {}
<1> DEFINE old == doc.modules
           modules == composed.modules
<1>1. /\ old \in Seq(Range(old)) /\ IdsDiffer(old)
      /\ \A m \in Range(old) : m.id # NoId /\ RequiredFields \subseteq DOMAIN m.fields
  BY ShapeIsSound DEF IsMapping
<1>2. modules = Append(old, module)
  BY DEF Composes
<1>3. /\ module.id \notin IdsOf(old) \cup {NoId} /\ RequiredFields \subseteq DOMAIN module.fields
      /\ composed.extends = doc.extends
      /\ Environment(composed) = Environment(doc) /\ Section(composed, "waiver") = Section(doc, "waiver")
  BY DEF Composes, Environment
<1>4. /\ Environment(doc) \in Environments /\ old \notin {BadModules, <<>>}
      /\ When(NoId \in IdsOf(old) \/ doc.extends = BadExtends, "E010", "profile") = {}
      /\ When(~(At(Section(doc, "waiver"), "modules", {}) \subseteq IdsOf(old)), "E012", "waiver") = {}
  BY DEF ShapeErrors
<1>5. doc.extends # BadExtends /\ At(Section(doc, "waiver"), "modules", {}) \subseteq IdsOf(old)
  BY <1>4 DEF When
<1> HIDE DEF old, modules
<1>6. /\ modules \in Seq(Range(old) \cup {module}) /\ Len(modules) = Len(old) + 1 /\ Len(old) \in Nat
      /\ modules[Len(old) + 1] = module
      /\ \A i \in 1 .. Len(old) : modules[i] = old[i] /\ old[i] \in Range(old)
  BY <1>1, <1>2 DEF Range
<1>7. modules \notin {BadModules, <<>>}
  BY <1>6 DEF NotAList
<1>8. DOMAIN modules = 1 .. Len(old) + 1 /\ DOMAIN old = 1 .. Len(old)
  BY <1>1, <1>6
<1>9. IdsOf(modules) = IdsOf(old) \cup {module.id}
  BY <1>6, <1>8 DEF IdsOf
<1>10. NoId \notin IdsOf(modules)
  BY <1>1, <1>3, <1>9 DEF IdsOf, Range
<1>11. \A m \in Range(modules) : RequiredFields \subseteq DOMAIN m.fields
  <2> SUFFICES ASSUME NEW i \in DOMAIN modules PROVE RequiredFields \subseteq DOMAIN modules[i].fields
    BY DEF Range
  <2>1. CASE i \in 1 .. Len(old)
    BY <1>1, <1>6, <2>1
  <2>2. CASE i = Len(old) + 1
    BY <1>3, <1>6, <2>2
  <2> QED BY <1>6, <1>8, <2>1, <2>2
<1>12. IdsDiffer(modules)
  <2> SUFFICES ASSUME NEW i \in DOMAIN modules, NEW j \in DOMAIN modules, modules[i].id = modules[j].id
               PROVE  i = j
    BY DEF IdsDiffer
  <2>1. \A k \in 1 .. Len(old) : modules[k].id = old[k].id /\ modules[k].id # module.id
    BY <1>3, <1>6, <1>8 DEF IdsOf
  <2>2. CASE i \in 1 .. Len(old) /\ j \in 1 .. Len(old)
    BY <1>1, <1>8, <2>1, <2>2 DEF IdsDiffer
  <2>3. CASE i = Len(old) + 1 \/ j = Len(old) + 1
    BY <1>6, <1>8, <2>1, <2>3
  <2> QED BY <1>6, <1>8, <2>2, <2>3
<1>13. {i \in DOMAIN modules : \E k \in 1 .. i - 1 : modules[k].id = modules[i].id} = {}
  <2> SUFFICES ASSUME NEW i \in DOMAIN modules, NEW k \in 1 .. i - 1, modules[k].id = modules[i].id
               PROVE  FALSE
    OBVIOUS
  <2>1. k \in DOMAIN modules /\ k # i
    BY <1>6, <1>8
  <2> QED BY <1>12, <2>1 DEF IdsDiffer
<1>14. /\ When(NoId \in IdsOf(modules) \/ composed.extends = BadExtends, "E010", "profile") = {}
       /\ {<<"E010", m.id>> : m \in {n \in Range(modules) : ~(RequiredFields \subseteq DOMAIN n.fields)}} = {}
       /\ {<<"E011", modules[i].id>> : i \in {j \in DOMAIN modules :
              \E k \in 1 .. j - 1 : modules[k].id = modules[j].id}} = {}
       /\ When(~(At(Section(composed, "waiver"), "modules", {}) \subseteq IdsOf(modules)), "E012", "waiver") = {}
  BY <1>3, <1>5, <1>9, <1>10, <1>11, <1>13 DEF When
<1>15. Environment(composed) \in Environments
  BY <1>3, <1>4
<1> QED BY <1>7, <1>14, <1>15 DEF ShapeErrors, modules

(* The enabled modules are those that were, and the added one if it is.    *)
LEMMA InstancesGrow ==
    ASSUME NEW doc, IsLoadable(doc), NEW request, NEW composed, IsLoadable(composed),
           NEW module, NEW ref, Composes(doc, request, composed, module, ref)
    PROVE  /\ Range(Enabled(composed)) =
                  Range(Enabled(doc)) \cup (IF request.enabled THEN {module} ELSE {})
           /\ GrowsBy(Instances(composed), Instances(doc), Loaded(module))
<1> DEFINE old == doc.modules
<1>1. old \in Seq(Range(old)) /\ composed.modules = Append(old, module)
      /\ IsEnabled(module) = request.enabled /\ module.id \notin IdsOf(old)
  BY DEF Composes, IsLoadable
<1>2. Range(composed.modules) = Range(old) \cup {module}
  <2> HIDE DEF old
  <2>1. /\ DOMAIN old = 1 .. Len(old) /\ Len(old) \in Nat
        /\ DOMAIN Append(old, module) = 1 .. Len(old) + 1
        /\ \A i \in 1 .. Len(old) : Append(old, module)[i] = old[i]
        /\ Append(old, module)[Len(old) + 1] = module
    BY <1>1
  <2>2. Range(Append(old, module)) = Range(old) \cup {module}
    BY <2>1 DEF Range
  <2> QED BY <1>1, <2>2
<1>3. /\ Range(Enabled(doc)) = {m \in Range(old) : IsEnabled(m)}
      /\ Range(Enabled(composed)) = {m \in Range(composed.modules) : IsEnabled(m)}
  BY DEF IsLoadable
<1>4. Range(Enabled(composed)) = Range(Enabled(doc)) \cup (IF request.enabled THEN {module} ELSE {})
  BY <1>1, <1>2, <1>3
<1>5. \A m \in Range(Enabled(doc)) : m.id # module.id
  BY <1>1, <1>3 DEF IdsOf, Range
<1>6. Loaded(module).id = module.id
  BY DEF Loaded
<1>7. /\ IdsOf(Instances(doc)) = {m.id : m \in Range(Enabled(doc))}
      /\ \A m \in Range(Enabled(doc)) : Instance(Instances(doc), m.id) = Loaded(m)
      /\ IdsOf(Instances(composed)) = {m.id : m \in Range(Enabled(composed))}
      /\ \A m \in Range(Enabled(composed)) : Instance(Instances(composed), m.id) = Loaded(m)
  BY InstancesAre
<1>8. GrowsBy(Instances(composed), Instances(doc), Loaded(module))
  BY <1>4, <1>5, <1>6, <1>7 DEF GrowsBy
<1> QED BY <1>4, <1>8

(* What is chosen for a consume entry of the added module is bound to it,  *)
(* of the kind that is asked for; only a condition, or an engine that      *)
(* nothing names, can leave it unbound.                                    *)
LEMMA AddedIsBound ==
    ASSUME NEW doc, IsLoadable(doc), NEW request, NEW composed, NEW module, NEW ref,
           Composes(doc, request, composed, module, ref), LoadError(module) = "none",
           NEW more, GrowsBy(more, Instances(doc), Loaded(module)),
           NEW c \in Range(DefinitionOf(module).consumes), At(request.config, c.from, Blank) = Blank
    PROVE  /\ "E042" \notin ConsumeErrors(Loaded(module), c, more)
           /\ /\ c.requiredIf = NoGate
              /\ c.engineFrom = NoPath \/ ExpectedEngine(Loaded(module), c.engineFrom).is = "text"
              => "E041" \notin ConsumeErrors(Loaded(module), c, more)
<1> DEFINE added == Loaded(module)
           def == DefinitionOf(module)
           config == ConfigOf(module)
<1>1. /\ def = Catalog[request.source] /\ IsSound(def)
  BY LoadsSoundly DEF Composes
<1>2. \A d \in Range(def.consumes) : d.from = c.from => d = c
  BY <1>1 DEF IsSound, IsBindable
<1>3. /\ Choose(c, request, Providers(doc)).errors = {} /\ ref[c] = Choose(c, request, Providers(doc)).ref
      /\ At(config, c.from, Blank) = (IF ref[c] = NoRef THEN Blank ELSE Binding(ref[c]))
  BY <1>1, <1>2 DEF Composes
<1>4. added.config = config /\ added.def = def
  BY DEF Loaded
<1> HIDE DEF added, def, config
<1>5. Blank.is = "blank" /\ \A r : Binding(r).is = "binding" /\ Binding(r).ref = r
  BY DEF Blank, Binding
<1>6. c.requiredIf = NoGate => ~RequiredBy(c.requiredIf, config)
  BY DEF RequiredBy
<1>7. CASE ref[c] = NoRef
  <2>1. ~c.required
    BY <1>3, <1>7, ChoiceIs
  <2>2. Holds(config, c.from) => config[c.from] = Blank
    BY <1>3, <1>7 DEF Holds, At
  <2>3. ConsumeErrors(added, c, more) = {code \in {"E041"} : RequiredBy(c.requiredIf, config)}
    BY <1>4, <1>5, <2>1, <2>2 DEF ConsumeErrors
  <2> QED BY <1>6, <2>3 DEF added
<1>8. CASE ref[c] # NoRef
  <2> DEFINE r == ref[c]
  <2>1. IsContractOf(doc, r, c.kind)
    BY <1>3, <1>8, ChoiceIs
  <2>2. Binding(r) # Blank
    BY <1>5
  <2>3. Holds(config, c.from) /\ config[c.from] = Binding(r)
    BY <1>3, <1>8, <2>2 DEF Holds, At
  <2> HIDE DEF r
  <2>4. ConsumeErrors(added, c, more) = BindingErrors(added, c, r, more)
    BY <1>4, <1>5, <2>3 DEF ConsumeErrors
  <2>5. PICK m \in Range(Enabled(doc)) :
            /\ r = <<m.id, r[2]>>
            /\ r[2] \in ProvideNames(DefinitionOf(m))
            /\ Provided(DefinitionOf(m), r[2]).kind = c.kind
    BY <2>1 DEF IsContractOf
  <2>6. IsRef(r) /\ r[1] = m.id
    BY <2>5 DEF IsRef
  <2>7. r[1] \in IdsOf(more) /\ Instance(more, r[1]).def = DefinitionOf(m)
    <3>1. m.id \in IdsOf(Instances(doc)) /\ Instance(Instances(doc), m.id) = Loaded(m)
      BY InstancesAre
    <3> QED BY <2>6, <3>1 DEF GrowsBy, Loaded
  <2> DEFINE producer == Instance(more, r[1])
             matched == Provided(producer.def, r[2])
  <2>8. BindingErrors(added, c, r, more) =
            {code \in {"E128"} : c.tls /\ ~AdvertisesTrue(matched.spec, "tls", producer.config)}
            \cup EngineErrors(added, c, matched.spec, producer.config)
            \cup {code \in {"E043"} : IsUnsupported(c.kind, producer.def, added.def)}
    BY <2>5, <2>6, <2>7 DEF BindingErrors
  <2> HIDE DEF producer, matched
  <2>9. EngineErrors(added, c, matched.spec, producer.config) \subseteq {"E041", "E154"}
    BY DEF EngineErrors
  <2>10. c.engineFrom = NoPath \/ ExpectedEngine(added, c.engineFrom).is = "text" =>
            "E041" \notin EngineErrors(added, c, matched.spec, producer.config)
    BY DEF EngineErrors
  <2> QED BY <2>4, <2>8, <2>9, <2>10 DEF added
<1> QED BY <1>7, <1>8

(* Sets of errors that none of these is among, taken together.             *)
LEMMA UnaskedTogether ==
    ASSUME NEW sets, \A errors \in sets : Unasked(errors)
    PROVE  Unasked(UNION sets)
BY DEF Unasked

(* The other checks of the validator have codes of their own.              *)
LEMMA OtherErrors ==
    ASSUME NEW doc, NEW inst, NEW instances
    PROVE  /\ Unasked(LoadErrors(doc)) /\ Unasked(ConfigErrors(inst))
           /\ Unasked(ImageSourceErrors(inst)) /\ Unasked(ModuleBackupErrors(doc, inst))
           /\ Unasked(MarkerErrors(inst.def.markers, inst.id))
           /\ Unasked(AuthenticationErrors(doc, inst)) /\ Unasked(WebServingErrors(doc, inst))
           /\ Unasked(OutputErrors(doc, instances)) /\ Unasked(ObservabilityErrors(doc, instances))
           /\ Unasked(DataSharingErrors(doc, instances)) /\ Unasked(BackupErrors(doc, instances))
<1>1. \A condition, code, where : \A e \in When(condition, code, where) : e[1] = code
  BY DEF When
<1>2. \A errors, where : \A e \in At1(errors, where) : e[1] \in errors
  BY DEF At1
<1>3. Unasked(LoadErrors(doc))
  <2>1. \A m : LoadError(m) \in {"E020", "E001", "E022", "E021", "none"}
    BY DEF LoadError
  <2>2. \A e \in LoadErrors(doc) : \E m : e[1] = LoadError(m) /\ LoadError(m) # "none"
    BY DEF LoadErrors
  <2> HIDE DEF LoadError
  <2> QED BY <2>1, <2>2 DEF Unasked, Answered
<1>4. /\ Unasked(ConfigErrors(inst)) /\ Unasked(ImageSourceErrors(inst)) /\ Unasked(WebServingErrors(doc, inst))
  BY <1>1 DEF Unasked, Answered, ConfigErrors, ImageSourceErrors, WebServingErrors
<1>5. Unasked(ModuleBackupErrors(doc, inst))
  BY <1>1 DEF Unasked, Answered, ModuleBackupErrors
<1>6. Unasked(MarkerErrors(inst.def.markers, inst.id))
  BY DEF Unasked, Answered, MarkerErrors
<1>7. Unasked(AuthenticationErrors(doc, inst))
  <2>1. Unasked(CredentialErrors(doc, inst))
    BY <1>1 DEF Unasked, Answered, CredentialErrors
  <2> QED BY <2>1 DEF Unasked, Answered, AuthenticationErrors
<1>8. Unasked(OutputErrors(doc, instances))
  BY DEF Unasked, Answered, OutputErrors
<1>9. Unasked(ObservabilityErrors(doc, instances))
  BY <1>1 DEF Unasked, Answered, ObservabilityErrors, RetentionErrors, LogSinkErrors
<1>10. Unasked(DataSharingErrors(doc, instances))
  BY <1>1 DEF Unasked, Answered, DataSharingErrors
<1>11. Unasked(BackupErrors(doc, instances))
  <2>1. \A backup, policies :
            ProductionBackupErrors(doc, backup, policies, instances) \subseteq {"E132", "E133", "E134", "E135"}
    BY DEF ProductionBackupErrors
  <2>2. CASE "backup" \notin DOMAIN doc.sections
    BY <1>1, <2>2 DEF Unasked, Answered, BackupErrors
  <2>3. CASE "backup" \in DOMAIN doc.sections
    <3> DEFINE backup == doc.sections.backup
               policies == At(backup, "policies", <<>>)
               found == {code \in {"E130"} : \E i, j \in DOMAIN policies :
                                                i # j /\ policies[i].class = policies[j].class}
                        \cup {code \in {"E131"} : "encryption" \in DOMAIN backup
                                                  /\ backup.encryption \notin DOMAIN SecretValues(doc)}
                        \cup {code \in {"E132"} : "target" \in DOMAIN backup
                                                  /\ ~TargetResolves(backup.target, instances)}
                        \cup (IF Production(doc)
                              THEN ProductionBackupErrors(doc, backup, policies, instances) ELSE {})
    <3>1. BackupErrors(doc, instances) = At1(found, "backup")
      BY <2>3 DEF BackupErrors
    <3>2. found \subseteq {"E130", "E131", "E132", "E133", "E134", "E135"}
      BY <2>1
    <3> HIDE DEF found
    <3> QED BY <1>2, <3>1, <3>2 DEF Unasked, Answered
  <2> QED BY <2>2, <2>3
<1> QED BY <1>3, <1>4, <1>5, <1>6, <1>7, <1>8, <1>9, <1>10, <1>11

\* The last module of a list is the one that was put there.
LEMMA LastIs ==
    ASSUME NEW T, NEW seq \in Seq(T), NEW x
    PROVE  Last(Append(seq, x)) = x
BY DEF Last

(* A valid profile to which a module is added.                             *)
LEMMA ComposedIsSound ==
    ASSUME NotAList, NEW doc, IsMapping(doc), Validate(doc) = {},
           NEW request \in Requests, request.dependsOn = <<>>, ComposeProfile(doc, request).ok,
           NEW composed, composed = ComposeProfile(doc, request).doc,
           \A c \in Range(Catalog[request.source].consumes) : At(request.config, c.from, Blank) = Blank
    PROVE  /\ Unasked(Validate(composed))
           /\ request.enabled /\ LoadErrors(composed) = {} =>
                 IsBound(Loaded(Last(composed.modules)), Instances(composed))
<1>1. /\ ShapeErrors(doc) = {} /\ doc.modules # BadModules
  BY DEF Validate, ShapeErrors
<1>2. IsFaultless(doc) /\ IsLoadable(doc)
  BY ValidIsFaultless DEF IsMapping, IsFaultless
<1>3. PICK module, ref : Composes(doc, request, composed, module, ref)
  BY <1>1, ComposedIs
<1>4. ShapeErrors(composed) = {}
  BY <1>1, <1>3, ShapeIsKept
<1>5. /\ composed.modules = Append(doc.modules, module) /\ SourceOf(module) = request.source
      /\ IsEnabled(module) = request.enabled
  BY <1>3 DEF Composes
<1>6. Last(composed.modules) = module
  BY <1>2, <1>5, LastIs DEF IsLoadable
<1>7. IsMapping(composed)
  BY <1>1, ComposedIsMapping
<1>8. CASE LoadErrors(composed) # {}
  <2>1. Validate(composed) = LoadErrors(composed)
    BY <1>4, <1>8 DEF Validate
  <2> QED BY <1>8, <2>1, OtherErrors
<1>9. CASE LoadErrors(composed) = {}
  <2> DEFINE old == Instances(doc)
             instances == Instances(composed)
             added == Loaded(module)
  <2>1. IsLoadable(composed) /\ \A m \in Range(composed.modules) : IsList(DependsOn(m))
    <3>1. IsModules(composed.modules)
      BY <1>7 DEF IsMapping
    <3>2. \A m \in Range(Enabled(composed)) : LoadError(m) = "none"
      BY <1>9 DEF LoadErrors
    <3> QED BY <1>4, <3>1, <3>2, ShapeIsSound, EnabledAre DEF IsLoadable
  <2>2. /\ Range(Enabled(composed)) = Range(Enabled(doc)) \cup (IF request.enabled THEN {module} ELSE {})
        /\ GrowsBy(instances, old, added)
    BY <1>2, <1>3, <2>1, InstancesGrow
  <2>3. Range(instances) = {Loaded(m) : m \in Range(Enabled(composed))}
    BY <2>1, InstancesAre
  <2>4. Range(old) = {Loaded(m) : m \in Range(Enabled(doc))}
    BY <1>2, InstancesAre
  <2>5. \A inst \in Range(old) :
            /\ ReferenceErrors(doc, inst) = {} /\ ContractErrors(inst, old) = {}
    BY <1>2 DEF IsFaultless, Range
  <2> HIDE DEF instances, old, added
  <2>6. \A inst \in Range(instances) : inst \in Range(old) \/ (request.enabled /\ inst = added)
    BY <2>2, <2>3, <2>4 DEF added
  <2>7. request.enabled => LoadError(module) = "none"
    BY <2>1, <2>2 DEF IsLoadable
  <2>8. added.def = DefinitionOf(module) /\ added.config = ConfigOf(module) /\ added.dependsOn = DependsOn(module)
    BY DEF added, Loaded
  <2>9. request.enabled => DefinitionOf(module) = Catalog[request.source]
    BY <1>5, <2>7, LoadsSoundly
  <2>10. ASSUME request.enabled, NEW c \in Range(added.def.consumes)
         PROVE  /\ "E042" \notin ConsumeErrors(added, c, instances)
                /\ /\ c.requiredIf = NoGate
                   /\ c.engineFrom = NoPath \/ ExpectedEngine(added, c.engineFrom).is = "text"
                   => "E041" \notin ConsumeErrors(added, c, instances)
    BY <1>2, <1>3, <2>2, <2>7, <2>8, <2>9, <2>10, AddedIsBound DEF added, old
  <2>11. ASSUME NEW inst \in Range(instances) PROVE Unasked(ContractErrors(inst, instances))
    <3>1. CASE inst \in Range(old)
      <4>1. \A c \in Range(inst.def.consumes) : ConsumeErrors(inst, c, old) = {}
        BY <2>5, <3>1 DEF ContractErrors, At1
      <4>2. \A c \in Range(inst.def.consumes) : ConsumeErrors(inst, c, instances) = {}
        BY <2>2, <4>1, StaysBound
      <4> QED BY <4>2 DEF Unasked, ContractErrors, At1
    <3>2. CASE request.enabled /\ inst = added
      <4>1. \A e \in ContractErrors(inst, instances) :
                \E c \in Range(inst.def.consumes) : e[1] \in ConsumeErrors(inst, c, instances)
        BY DEF ContractErrors, At1
      <4>2. \A c \in Range(inst.def.consumes) :
                ConsumeErrors(inst, c, instances) \cap Answered = {}
        <5> SUFFICES ASSUME NEW c \in Range(inst.def.consumes)
                     PROVE  ConsumeErrors(inst, c, instances) \cap Answered \subseteq {"E042"}
          BY <2>10, <3>2
        <5>1. \A r : BindingErrors(inst, c, r, instances) \cap Answered \subseteq {"E042"}
          BY DEF BindingErrors, EngineErrors, Answered
        <5> HIDE DEF BindingErrors
        <5> QED BY <5>1 DEF ConsumeErrors, Answered
      <4> QED BY <4>1, <4>2 DEF Unasked
    <3> QED BY <2>6, <3>1, <3>2
  <2>12. ASSUME NEW inst \in Range(instances) PROVE Unasked(ReferenceErrors(composed, inst))
    <3>1. \A e \in ReferenceErrors(composed, inst) : e[1] \in {"E050", "E129"}
      BY DEF ReferenceErrors, When
    <3>2. \A p \in DOMAIN inst.config : IsSecret(inst.config[p]) =>
              inst.config[p].alias \in DOMAIN SecretValues(composed)
      <4>1. CASE inst \in Range(old)
        <5>1. \A p \in DOMAIN inst.config : IsSecret(inst.config[p]) =>
                  inst.config[p].alias \in DOMAIN SecretValues(doc)
          BY <2>5, <4>1 DEF ReferenceErrors, When
        <5> QED BY <1>3, <5>1 DEF Composes
      <4>2. CASE inst = added
        BY <1>3, <2>8, <4>2 DEF Composes, SecretAliases
      <4> QED BY <2>6, <4>1, <4>2
    <3>3. \A e \in ReferenceErrors(composed, inst) : e[1] = "E129"
      BY <3>2 DEF ReferenceErrors, When
    <3> QED BY <3>3 DEF Unasked, Answered
  <2>13. ValidateDependencies(instances) = {}
    <3>1. \A m \in Range(doc.modules) : IsList(DependsOn(m))
      BY <1>1, ShapeIsSound DEF IsMapping
    <3>2. Startable(old)
      BY <1>2, <3>1, StartableIfFine DEF IsFaultless, old
    <3>3. Startable(instances)
      <4>1. CASE request.enabled
        <5>1. Range(added.dependsOn) \subseteq IdsOf(old)
          <6> SUFFICES ASSUME NEW d \in Range(DependsOn(module)) PROVE d \in IdsOf(old)
            BY <2>8
          <6>0. Range(request.dependsOn) = {}
            BY DEF Range
          <6>1. PICK c \in Range(Catalog[request.source].consumes) :
                    /\ ref[c] # NoRef /\ d = ref[c][1]
                    /\ Choose(c, request, Providers(doc)).errors = {}
                    /\ ref[c] = Choose(c, request, Providers(doc)).ref
            BY <1>3, <6>0 DEF Composes
          <6>2. IsContractOf(doc, ref[c], c.kind)
            BY <1>2, <6>1, ChoiceIs
          <6>3. \E m \in Range(Enabled(doc)) : d = m.id
            BY <6>1, <6>2 DEF IsContractOf
          <6> QED BY <1>2, <6>3, InstancesAre DEF old
        <5> QED BY <2>2, <3>2, <5>1, StaysStartable
      <4>2. CASE ~request.enabled
        <5>1. IdsOf(instances) = IdsOf(old)
          BY <1>2, <2>1, <2>2, <4>2, InstancesAre DEF old, instances
        <5>2. \A m \in IdsOf(old) : Instance(instances, m) = Instance(old, m)
          BY <2>2 DEF GrowsBy
        <5> QED BY <3>2, <5>1, <5>2 DEF Startable
      <4> QED BY <4>1, <4>2
    <3> QED BY <2>1, <3>3, StartableIfFine DEF instances
  <2>14. ASSUME NEW i \in DOMAIN instances PROVE Unasked(InstanceErrors(composed, instances[i], instances))
    <3>1. instances[i] \in Range(instances)
      BY DEF Range
    <3> DEFINE inst == instances[i]
               sets == {ConfigErrors(inst), ReferenceErrors(composed, inst), ContractErrors(inst, instances),
                        ImageSourceErrors(inst), ModuleBackupErrors(composed, inst),
                        MarkerErrors(inst.def.markers, inst.id), AuthenticationErrors(composed, inst),
                        WebServingErrors(composed, inst)}
    <3>2. Unasked(ReferenceErrors(composed, inst)) /\ Unasked(ContractErrors(inst, instances))
      BY <2>11, <2>12, <3>1
    <3>3. InstanceErrors(composed, inst, instances) = UNION sets
      BY DEF InstanceErrors
    <3> HIDE DEF inst
    <3>4. \A errors \in sets : Unasked(errors)
      BY <3>2, OtherErrors
    <3> HIDE DEF sets
    <3>5. Unasked(UNION sets)
      BY <3>4, UnaskedTogether
    <3> QED BY <3>3, <3>5 DEF inst
  <2>15. Unasked(Validate(composed))
    <3>1. Validate(composed) =
              (UNION {InstanceErrors(composed, instances[i], instances) : i \in DOMAIN instances})
              \cup ValidateDependencies(instances)
              \cup (UNION {OutputErrors(composed, instances), ObservabilityErrors(composed, instances),
                           DataSharingErrors(composed, instances), BackupErrors(composed, instances)})
      BY <1>4, <1>9 DEF Validate, instances
    <3> DEFINE ofInstances == {InstanceErrors(composed, instances[i], instances) : i \in DOMAIN instances}
               ofProfile == {OutputErrors(composed, instances), ObservabilityErrors(composed, instances),
                             DataSharingErrors(composed, instances), BackupErrors(composed, instances)}
    <3>2. Unasked(UNION ofInstances)
      <4>1. \A errors \in ofInstances : Unasked(errors)
        BY <2>14
      <4> HIDE DEF ofInstances
      <4> QED BY <4>1, UnaskedTogether
    <3>3. Unasked(UNION ofProfile)
      <4>1. \A errors \in ofProfile : Unasked(errors)
        BY OtherErrors
      <4> HIDE DEF ofProfile
      <4> QED BY <4>1, UnaskedTogether
    <3>4. Validate(composed) = (UNION ofInstances) \cup {} \cup (UNION ofProfile)
      BY <2>13, <3>1
    <3> HIDE DEF ofInstances, ofProfile
    <3> QED BY <3>2, <3>3, <3>4 DEF Unasked
  <2>16. request.enabled => IsBound(added, instances)
    BY <2>10 DEF IsBound
  <2> QED BY <1>6, <2>15, <2>16 DEF added, instances
<1> QED BY <1>8, <1>9

(* What compose-profile adds to a valid profile, without --depends-on and  *)
(* without a binding by --set, leaves it with the shape, the dependencies, *)
(* the kinds and the secrets of a valid profile, and the module bound as   *)
(* it asks (compose_profile against the checks of validate_profile).       *)
THEOREM ComposedProfilesStaySound ==
    ASSUME NotAList
    PROVE  Spec => []ComposedStaysSound
<1>1. TypeOK => ComposedStaysSound
  <2> SUFFICES ASSUME TypeOK, Valid(Absent), NEW request \in Requests, request.dependsOn = <<>>,
                      ComposeProfile(Document(Absent), request).ok,
                      \A c \in Range(Catalog[request.source].consumes) : At(request.config, c.from, Blank) = Blank,
                      NEW composed, composed = ComposeProfile(Document(Absent), request).doc
               PROVE  /\ {e[1] : e \in Validate(composed)} \cap {"E010", "E011", "E040", "E042", "E050"} = {}
                      /\ request.enabled /\ LoadErrors(composed) = {} =>
                            IsBound(Loaded(Last(composed.modules)), Instances(composed))
    BY DEF ComposedStaysSound
  <2>1. IsMapping(Document(Absent)) /\ Validate(Document(Absent)) = {}
    BY ValidDocument DEF Environs
  <2>2. /\ Unasked(Validate(composed))
        /\ request.enabled /\ LoadErrors(composed) = {} =>
              IsBound(Loaded(Last(composed.modules)), Instances(composed))
    BY <2>1, ComposedIsSound
  <2> QED BY <2>2 DEF Unasked, Answered
<1> QED BY <1>1, FilesStayDocuments, PTL

(***************************************************************************)
(* The network policies of a chart                                         *)
(*                                                                         *)
(* The checks of render_helm ask for a Service of any module.  The name of *)
(* a Service begins with the parts of its module, and with no two modules  *)
(* whose names begin so (Clashing) the Service is the module's own.        *)
(***************************************************************************)

(* Every name has parts.                                                   *)
LEMMA PartsAreListed ==
    ASSUME NEW name
    PROVE  IsList(PartsOf(name)) /\ PartsOf(name) # <<>>
<1>1. CASE name \in DOMAIN Parts
  BY <1>1, NamesHaveParts DEF PartsOf, At, IsList
<1>2. CASE name \notin DOMAIN Parts
  <2>1. PartsOf(name) = <<name>>
    BY <1>2 DEF PartsOf, At
  <2>2. <<name>> \in Seq({name}) /\ <<name>> # <<>>
    OBVIOUS
  <2>3. IsList(<<name>>)
    BY <2>2, SequenceOfRange DEF IsList
  <2> QED BY <2>1, <2>2, <2>3
<1> QED BY <1>1, <1>2

(* Two beginnings of one sequence: one of them begins the other.           *)
LEMMA PrefixesOfOne ==
    ASSUME NEW a, NEW b, NEW h, IsList(a), IsList(b), IsList(h), IsPrefix(a, h), IsPrefix(b, h)
    PROVE  IsPrefix(a, b) \/ IsPrefix(b, a)
<1> DEFINE T == Range(a) \cup Range(b) \cup Range(h)
<1>1. a \in Seq(T) /\ b \in Seq(T) /\ h \in Seq(T)
  <2>1. \A s, S : s \in Seq(Range(s)) /\ Range(s) \subseteq S => s \in Seq(S)
    <3> TAKE s, S
    <3>1. SUFFICES ASSUME s \in Seq(Range(s)), Range(s) \subseteq S PROVE s \in Seq(S)
      OBVIOUS
    <3> DEFINE R == Range(s)
    <3>2. s \in Seq(R) /\ R \subseteq S
      BY <3>1
    <3> HIDE DEF R
    <3> QED BY <3>2
  <2>2. Range(a) \subseteq T /\ Range(b) \subseteq T /\ Range(h) \subseteq T
    OBVIOUS
  <2>3. a \in Seq(Range(a)) /\ b \in Seq(Range(b)) /\ h \in Seq(Range(h))
    BY DEF IsList
  <2> HIDE DEF T
  <2> QED BY <2>1, <2>2, <2>3
<1> HIDE DEF T
<1>2. /\ Len(a) \in Nat /\ Len(a) <= Len(h) /\ SubSeq(a, 1, Len(a)) = SubSeq(h, 1, Len(a))
      /\ Len(b) \in Nat /\ Len(b) <= Len(h) /\ SubSeq(b, 1, Len(b)) = SubSeq(h, 1, Len(b))
      /\ Len(h) \in Nat
  BY <1>1 DEF IsPrefix
<1>3. ASSUME NEW s \in Seq(T), NEW t \in Seq(T), Len(s) <= Len(t), Len(t) <= Len(h),
             SubSeq(s, 1, Len(s)) = SubSeq(h, 1, Len(s)), SubSeq(t, 1, Len(t)) = SubSeq(h, 1, Len(t))
      PROVE  IsPrefix(s, t)
  <2>1. Len(s) \in Nat /\ Len(t) \in Nat /\ Len(h) \in Nat
    BY <1>1
  <2>2. ASSUME NEW u \in Seq(T), NEW n \in Nat, n <= Len(u)
        PROVE  Len(SubSeq(u, 1, n)) = n /\ \A i \in 1 .. n : SubSeq(u, 1, n)[i] = u[i]
    <3>1. Len(u) \in Nat
      OBVIOUS
    <3> QED BY <2>2, <3>1
  <2>3. \A i \in 1 .. Len(t) : t[i] = h[i]
    BY <1>1, <1>3, <2>1, <2>2
  <2>4. \A i \in 1 .. Len(s) : SubSeq(t, 1, Len(s))[i] = h[i]
    BY <1>1, <1>3, <2>1, <2>2, <2>3
  <2>5. \A i \in 1 .. Len(s) : SubSeq(h, 1, Len(s))[i] = h[i]
    BY <1>1, <1>3, <2>1, <2>2
  <2>6. SubSeq(t, 1, Len(s)) \in Seq(T) /\ SubSeq(h, 1, Len(s)) \in Seq(T)
    BY <1>1, <1>3, <2>1
  <2>7. SubSeq(t, 1, Len(s)) = SubSeq(h, 1, Len(s))
    <3>1. Len(SubSeq(t, 1, Len(s))) = Len(s) /\ Len(SubSeq(h, 1, Len(s))) = Len(s)
      BY <1>1, <1>3, <2>1, <2>2
    <3> QED BY <2>4, <2>5, <2>6, <3>1
  <2> QED BY <1>3, <2>7 DEF IsPrefix
<1> QED BY <1>1, <1>2, <1>3

(* A full name begins with the parts of its module (_compose_service_name). *)
LEMMA FullNameIs ==
    ASSUME NEW id, NEW service
    PROVE  /\ IsList(ComposeServiceName(id, service)) /\ ComposeServiceName(id, service) # <<>>
           /\ IsPrefix(PartsOf(id), ComposeServiceName(id, service))
           /\ IsPrefix(PartsOf(id), PartsOf(id))
<1> DEFINE a == PartsOf(id)
           b == PartsOf(service)
           T == Range(a) \cup Range(b)
           ab == a \o b
<1>1. IsList(a) /\ IsList(b) /\ a # <<>> /\ b # <<>>
  BY PartsAreListed
<1>2. a \in Seq(Range(a)) /\ b \in Seq(Range(b))
  BY <1>1 DEF IsList
<1>3. ComposeServiceName(id, service) = IF IsPrefix(a, b) THEN b ELSE ab
  BY DEF ComposeServiceName
<1> HIDE DEF a, b
<1>4. a \in Seq(T) /\ b \in Seq(T)
  <2> DEFINE R == Range(a)
             Q == Range(b)
  <2>1. a \in Seq(R) /\ b \in Seq(Q) /\ T = R \cup Q
    BY <1>2
  <2> HIDE DEF R, Q, T
  <2> QED BY <2>1
<1> HIDE DEF T
<1>5. ab \in Seq(T)
  BY <1>4
<1>6. IsList(ab)
  BY <1>5, SequenceOfRange DEF IsList
<1>7. IsPrefix(a, ab)
  <2>1. Len(a) \in Nat /\ Len(b) \in Nat /\ Len(ab) = Len(a) + Len(b) /\ \A i \in 1 .. Len(a) : ab[i] = a[i]
    BY <1>4
  <2>2. SubSeq(ab, 1, Len(a)) = SubSeq(a, 1, Len(a))
    <3> HIDE DEF ab
    <3>1. \A i \in 1 .. Len(a) : SubSeq(ab, 1, Len(a))[i] = a[i] /\ SubSeq(a, 1, Len(a))[i] = a[i]
      BY <1>4, <1>5, <2>1
    <3>2. /\ SubSeq(ab, 1, Len(a)) \in Seq(T) /\ SubSeq(a, 1, Len(a)) \in Seq(T)
          /\ Len(SubSeq(ab, 1, Len(a))) = Len(a) /\ Len(SubSeq(a, 1, Len(a))) = Len(a)
      BY <1>4, <1>5, <2>1
    <3> QED BY <3>1, <3>2
  <2> QED BY <2>1, <2>2 DEF IsPrefix
<1>8. IsPrefix(a, a)
  <2>1. Len(a) \in Nat
    BY <1>4
  <2> QED BY <2>1 DEF IsPrefix
<1>9. ab # <<>>
  BY <1>1, <1>4
<1> QED BY <1>1, <1>3, <1>6, <1>7, <1>8, <1>9 DEF a

(* So does the name that serves it (module_dns_host).                      *)
LEMMA DnsHostIs ==
    ASSUME NEW id, NEW def
    PROVE  IsList(DnsHost(id, def)) /\ IsPrefix(PartsOf(id), DnsHost(id, def))
<1>1. DnsHost(id, def) = PartsOf(id) \/ \E s : DnsHost(id, def) = ComposeServiceName(id, s)
  BY DEF DnsHost
<1> QED BY <1>1, FullNameIs, PartsAreListed

\* How the modules of a plan come from the instances that the validator found
\* nothing wrong with.
IsMade(modules, doc, options, enabled, instances, planned, contracts) ==
    /\ SameModules(doc, enabled, instances, planned, options)
    /\ IsContracts(contracts, enabled, instances, planned, SecretNames(doc, options))
    /\ IsList(enabled) /\ Startable(instances)
    /\ DOMAIN modules = DOMAIN enabled /\ IdsDiffer(modules)
    /\ \A j \in DOMAIN enabled :
          /\ ConfigErrors(instances[j]) = {} /\ ContractErrors(instances[j], instances) = {}
          /\ IsPlanOf(planned[j], instances[j], Environment(doc))
          /\ modules[j] = PlannedModule(planned[j], contracts)
          /\ modules[j].id = enabled[j].id
          /\ Instance(modules, enabled[j].id) = modules[j]

(* A plan of a profile that the validator finds nothing wrong with is made *)
(* so.                                                                     *)
LEMMA ModulesAreMade ==
    ASSUME TypeOK, NEW overlay \in Environs, NEW options,
           NEW plan, plan = PlanOf(overlay, options), Valid(overlay), plan.errors = {}
    PROVE  \E doc, enabled, instances, planned, contracts :
              IsMade(plan.modules, doc, options, enabled, instances, planned, contracts)
<1> DEFINE doc == Document(overlay)
           enabled == Enabled(doc)
           instances == Instances(doc)
           planned == PlanInstances(doc, options)
           secrets == SecretNames(doc, options)
           contracts == PlanContracts(planned, secrets)
<1>1. /\ IsMapping(doc) /\ IsFaultless(doc)
      /\ plan = Assemble(doc, options, secrets, planned, contracts)
  BY ValidPlan DEF WholePlan
<1>2. SameModules(doc, enabled, instances, planned, options)
  BY <1>1, PlansTheSame DEF IsFaultless
<1>3. \A i \in DOMAIN instances :
         ConfigErrors(instances[i]) = {} /\ ContractErrors(instances[i], instances) = {}
  BY <1>1 DEF IsFaultless
<1>11. IsList(enabled) /\ Startable(instances)
  <2>1. /\ IsLoadable(doc) /\ ValidateDependencies(instances) = {}
        /\ IsModules(doc.modules) /\ ShapeErrors(doc) = {}
    BY <1>1, ValidDocument DEF IsFaultless, IsMapping, Validate
  <2>2. doc.modules \in Seq(Range(doc.modules)) /\ enabled \in Seq(Range(doc.modules))
    BY <2>1 DEF IsLoadable
  <2> HIDE DEF doc
  <2>3. \A m \in Range(doc.modules) : IsList(DependsOn(m))
    BY <2>1, ShapeIsSound
  <2>4. Startable(instances)
    BY <2>1, <2>3, StartableIfFine
  <2> HIDE DEF enabled
  <2>5. \A i \in 1 .. Len(enabled) : enabled[i] \in Range(enabled)
    BY <2>2 DEF Range
  <2>6. enabled \in Seq(Range(enabled))
    BY <2>2, <2>5
  <2> QED BY <2>4, <2>6 DEF IsList
<1> HIDE DEF doc, enabled, planned, instances
<1>4. IsContracts(contracts, enabled, instances, planned, secrets)
  BY <1>2, ContractsAre
<1>5. DOMAIN planned = DOMAIN enabled /\ DOMAIN instances = DOMAIN enabled
  BY <1>2 DEF SameModules
<1> HIDE DEF contracts
<1>6. /\ DOMAIN plan.modules = DOMAIN planned
      /\ \A j \in DOMAIN planned : plan.modules[j] = PlannedModule(planned[j], contracts)
  <2> HIDE DEF secrets
  <2> QED BY <1>1, PlanIs
<1>7. \A j \in DOMAIN enabled :
          /\ IsPlanOf(planned[j], instances[j], Environment(doc))
          /\ instances[j].id = enabled[j].id /\ planned[j].id = enabled[j].id
  <2>1. \A j \in DOMAIN enabled : IsPlanOf(planned[j], instances[j], Environment(doc))
                                  /\ instances[j].id = enabled[j].id
    BY <1>2, PlansEach
  <2> QED BY <2>1 DEF IsPlanOf
<1>8. \A j \in DOMAIN enabled : plan.modules[j].id = enabled[j].id
  <2>1. \A inst : PlannedModule(inst, contracts).id = inst.id
    BY DEF PlannedModule
  <2> QED BY <1>5, <1>6, <1>7, <2>1
<1>9. IdsDiffer(plan.modules)
  <2>1. IdsDiffer(instances)
    BY <1>2 DEF SameModules
  <2> QED BY <1>5, <1>6, <1>7, <1>8, <2>1 DEF IdsDiffer
<1>10. \A j \in DOMAIN enabled : Instance(plan.modules, enabled[j].id) = plan.modules[j]
  <2> DEFINE modules == plan.modules
  <2>1. IdsDiffer(modules) /\ DOMAIN modules = DOMAIN enabled
    BY <1>5, <1>6, <1>9
  <2>2. \A j \in DOMAIN enabled : modules[j].id = enabled[j].id
    BY <1>8
  <2> HIDE DEF modules
  <2>3. \A j \in DOMAIN modules : Instance(modules, modules[j].id) = modules[j]
    BY <2>1, InstanceIs
  <2>4. \A j \in DOMAIN enabled : Instance(modules, enabled[j].id) = modules[j]
    BY <2>1, <2>2, <2>3
  <2> QED BY <2>4 DEF modules
<1>12. IsMade(plan.modules, doc, options, enabled, instances, planned, contracts)
  BY <1>2, <1>3, <1>4, <1>5, <1>6, <1>7, <1>8, <1>9, <1>10, <1>11 DEF IsMade, secrets
<1> QED BY <1>12

\* What the modules of a plan tell a renderer of workloads and of bindings.
IsWired(modules) ==
    /\ IdsDiffer(modules)
    /\ \A m \in Range(modules) : \A w \in DOMAIN m.def.workloads : IsDeployable(m.def.workloads[w], m.def)
    /\ \A m \in Range(modules) : \A n \in DOMAIN m.provides :
          HostOf(m.provides[n]).is = "host" =>
             IsList(HostOf(m.provides[n]).host) /\ IsPrefix(PartsOf(m.id), HostOf(m.provides[n]).host)
    /\ \A m \in Range(modules) : \A b \in SingleBindings(m) :
          /\ b \in AllBindings(m)
          /\ b.ref[1] \in IdsOf(modules)
          /\ b.ref[2] \in DOMAIN Instance(modules, b.ref[1]).provides
          /\ b.contract = Instance(modules, b.ref[1]).provides[b.ref[2]]

(* The host of a planned contract begins with the parts of its module.     *)
LEMMA HostIsOwn ==
    ASSUME NEW plan, NEW inst, NEW env, IsPlanOf(plan, inst, env), NEW secrets,
           NEW n \in ProvideNames(inst.def),
           NEW contract, contract = ProvidedContracts(plan, secrets)[n], HostOf(contract).is = "host"
    PROVE  IsList(HostOf(contract).host) /\ IsPrefix(PartsOf(plan.id), HostOf(contract).host)
<1> DEFINE spec == Provided(inst.def, n).spec
<1>1. contract.spec = [f \in DOMAIN spec |-> Substitute(spec[f], plan, secrets)] /\ IsAdvertised(spec)
  BY ContractIs
<1> HIDE DEF spec
<1>2. "host" \in DOMAIN spec /\ HostOf(contract) = Substitute(spec["host"], plan, secrets)
  <2>1. Blank.is # "host"
    BY DEF Blank
  <2> QED BY <1>1, <2>1 DEF HostOf, At
<1>3. spec["host"].as \in {"dns", "id"}
  BY <1>1, <1>2 DEF IsAdvertised
<1>4. HostOf(contract) = Host(DnsHost(plan.id, plan.def)) \/ HostOf(contract) = Host(PartsOf(plan.id))
  BY <1>2, <1>3 DEF Substitute
<1>5. HostOf(contract).host = DnsHost(plan.id, plan.def) \/ HostOf(contract).host = PartsOf(plan.id)
  BY <1>4 DEF Host
<1> QED BY <1>5, DnsHostIs, FullNameIs, PartsAreListed

(* What a single consume entry comes to in a plan.                         *)
LEMMA SingleIs ==
    ASSUME NEW plan, NEW inst, NEW env, IsPlanOf(plan, inst, env), NEW contracts,
           NEW n \in DOMAIN ConsumedContracts(plan, contracts), ~ConsumedContracts(plan, contracts)[n].many
    PROVE  \E c \in Range(inst.def.consumes) : \E r :
              /\ ConsumedContracts(plan, contracts)[n] = Consumed(plan, c, contracts)
              /\ Consumed(plan, c, contracts).bound = <<Bound(r, contracts)>>
<1> DEFINE consumes == inst.def.consumes
           S == {d \in Range(consumes) : Consumed(plan, d, contracts).bound # <<>>}
           bound == Only(consumes, S)
<1>1. consumes \in Seq(Range(consumes)) /\ plan.def = inst.def
  BY DEF IsPlanOf, IsSound, IsList
<1>2. ConsumedContracts(plan, contracts) =
          [k \in {bound[i].name : i \in DOMAIN bound} |-> Consumed(plan, Latest(bound, k), contracts)]
  BY <1>1 DEF ConsumedContracts
<1> HIDE DEF consumes, S
<1>3. Range(bound) = Range(consumes) \cap S
  BY <1>1, OnlyKeeps
<1> HIDE DEF bound
<1>4. PICK i \in DOMAIN bound : bound[i].name = n
  BY <1>2
<1>5. PICK c \in Range(consumes) : c.name = n /\ Consumed(plan, c, contracts).bound # <<>>
  BY <1>3, <1>4 DEF Range, S
<1>6. ConsumedContracts(plan, contracts)[n] = Consumed(plan, c, contracts)
  BY <1>5, ConsumedByName DEF consumes
<1>7. ~Consumed(plan, c, contracts).many
  BY <1>6
<1>8. \E r : Consumed(plan, c, contracts).bound = <<Bound(r, contracts)>>
  <2> DEFINE value == At(plan.config, c.from, Blank)
  <2>1. value.is # "bindings"
    BY <1>7 DEF Consumed
  <2>2. Consumed(plan, c, contracts).bound \in {<<>>, <<Bound(value.ref, contracts)>>}
    BY <2>1 DEF Consumed
  <2> QED BY <1>5, <2>2
<1> QED BY <1>5, <1>6, <1>8 DEF consumes

(* The modules of a plan, and what the references between them lead to.    *)
LEMMA MadeModules ==
    ASSUME NEW modules, NEW doc, NEW options, NEW enabled, NEW instances, NEW planned,
           NEW contracts, IsMade(modules, doc, options, enabled, instances, planned, contracts)
    PROVE  /\ \A j \in DOMAIN enabled :
                 /\ modules[j].id = planned[j].id /\ planned[j].id = enabled[j].id
                 /\ modules[j].dependsOn = instances[j].dependsOn
                 /\ modules[j].def = instances[j].def
                 /\ modules[j].provides = ProvidedContracts(planned[j], SecretNames(doc, options))
                 /\ DOMAIN modules[j].provides = ProvideNames(instances[j].def)
                 /\ modules[j].consumes = ConsumedContracts(planned[j], contracts)
           /\ IdsOf(instances) = IdsOf(modules)
           /\ \A r : r[1] \in IdsOf(instances) /\ r[2] \in ProvideNames(Instance(instances, r[1]).def) =>
                 \E k \in DOMAIN enabled :
                    /\ r[1] = enabled[k].id /\ r[1] \in IdsOf(modules)
                    /\ Instance(modules, r[1]) = modules[k]
                    /\ contracts[r[1]] = modules[k].provides /\ r[2] \in DOMAIN modules[k].provides
<1> DEFINE secrets == SecretNames(doc, options)
           env == Environment(doc)
<1>1. /\ SameModules(doc, enabled, instances, planned, options)
      /\ IsContracts(contracts, enabled, instances, planned, secrets)
      /\ DOMAIN modules = DOMAIN enabled /\ IdsDiffer(modules)
  BY DEF IsMade
<1>2. \A j \in DOMAIN enabled :
          /\ ConfigErrors(instances[j]) = {} /\ ContractErrors(instances[j], instances) = {}
          /\ IsPlanOf(planned[j], instances[j], env)
          /\ modules[j] = PlannedModule(planned[j], contracts)
          /\ modules[j].id = enabled[j].id
          /\ Instance(modules, enabled[j].id) = modules[j]
  BY DEF IsMade
<1> HIDE DEF secrets, env
<1>3. \A j \in DOMAIN enabled :
          /\ modules[j].id = planned[j].id /\ modules[j].def = planned[j].def
          /\ modules[j].provides = contracts[planned[j].id]
          /\ modules[j].consumes = ConsumedContracts(planned[j], contracts)
  <2>1. \A inst : /\ PlannedModule(inst, contracts).id = inst.id
                  /\ PlannedModule(inst, contracts).def = inst.def
                  /\ PlannedModule(inst, contracts).provides = contracts[inst.id]
                  /\ PlannedModule(inst, contracts).consumes = ConsumedContracts(inst, contracts)
    BY DEF PlannedModule
  <2> QED BY <1>2, <2>1
<1>4. \A j \in DOMAIN enabled :
          /\ planned[j].id = enabled[j].id /\ modules[j].def = instances[j].def
          /\ modules[j].provides = ProvidedContracts(planned[j], secrets)
          /\ DOMAIN modules[j].provides = ProvideNames(instances[j].def)
  <2> SUFFICES ASSUME NEW j \in DOMAIN enabled
               PROVE  /\ planned[j].id = enabled[j].id /\ modules[j].def = instances[j].def
                      /\ modules[j].provides = ProvidedContracts(planned[j], secrets)
                      /\ DOMAIN modules[j].provides = ProvideNames(instances[j].def)
    OBVIOUS
  <2>1. planned[j].id = enabled[j].id /\ planned[j].def = instances[j].def
    BY <1>2, <1>3 DEF IsPlanOf
  <2>2. modules[j].provides = ProvidedContracts(planned[j], secrets)
    BY <1>1, <1>3, <2>1 DEF IsContracts
  <2>3. DOMAIN ProvidedContracts(planned[j], secrets) = ProvideNames(planned[j].def)
    BY DEF ProvidedContracts
  <2> QED BY <1>3, <2>1, <2>2, <2>3
<1>5. \A j \in DOMAIN enabled : modules[j].dependsOn = instances[j].dependsOn
  <2>1. \A inst : PlannedModule(inst, contracts).dependsOn = inst.dependsOn
    BY DEF PlannedModule
  <2>2. \A m : PlanInstance(doc, m, options).dependsOn = DependsOn(m) /\ Loaded(m).dependsOn = DependsOn(m)
    BY DEF PlanInstance, Loaded
  <2> QED BY <1>1, <1>2, <2>1, <2>2 DEF SameModules
<1>6. IdsOf(instances) = IdsOf(modules)
  <2>1. \A j \in DOMAIN enabled : instances[j].id = modules[j].id
    BY <1>2 , <1>3, <1>4 DEF IsPlanOf
  <2>2. DOMAIN instances = DOMAIN modules
    BY <1>1 DEF SameModules
  <2> QED BY <1>1, <2>1, <2>2 DEF IdsOf
<1>7. ASSUME NEW r, r[1] \in IdsOf(instances), r[2] \in ProvideNames(Instance(instances, r[1]).def)
      PROVE  \E k \in DOMAIN enabled :
                /\ r[1] = enabled[k].id /\ r[1] \in IdsOf(modules)
                /\ Instance(modules, r[1]) = modules[k]
                /\ contracts[r[1]] = modules[k].provides /\ r[2] \in DOMAIN modules[k].provides
  <2>1. PICK k \in DOMAIN enabled : r[1] = enabled[k].id
    BY <1>1, <1>2, <1>6, <1>7 DEF IdsOf
  <2>2. Instance(modules, r[1]) = modules[k]
    BY <1>2, <2>1
  <2>3. Instance(instances, r[1]) = instances[k]
    BY <1>1, <2>1 DEF IsContracts, SameModules
  <2> QED BY <1>3, <1>4, <1>6, <1>7, <2>1, <2>2, <2>3
<1> QED BY <1>3, <1>4, <1>5, <1>6, <1>7 DEF secrets

(* A plan that is made so is wired.                                        *)
LEMMA PlanIsWired ==
    ASSUME NEW modules, NEW doc, NEW options, NEW enabled, NEW instances, NEW planned,
           NEW contracts, IsMade(modules, doc, options, enabled, instances, planned, contracts)
    PROVE  IsWired(modules)
<1> DEFINE secrets == SecretNames(doc, options)
           env == Environment(doc)
<1>1. /\ SameModules(doc, enabled, instances, planned, options)
      /\ IsContracts(contracts, enabled, instances, planned, secrets)
      /\ DOMAIN modules = DOMAIN enabled /\ IdsDiffer(modules)
  BY DEF IsMade
<1>2. \A j \in DOMAIN enabled :
          /\ ConfigErrors(instances[j]) = {} /\ ContractErrors(instances[j], instances) = {}
          /\ IsPlanOf(planned[j], instances[j], env)
          /\ modules[j] = PlannedModule(planned[j], contracts)
          /\ modules[j].id = enabled[j].id
          /\ Instance(modules, enabled[j].id) = modules[j]
  BY DEF IsMade
<1> HIDE DEF secrets, env
<1>3. \A j \in DOMAIN enabled :
          /\ modules[j].id = planned[j].id /\ planned[j].id = enabled[j].id
          /\ modules[j].def = instances[j].def
          /\ modules[j].provides = ProvidedContracts(planned[j], secrets)
          /\ DOMAIN modules[j].provides = ProvideNames(instances[j].def)
          /\ modules[j].consumes = ConsumedContracts(planned[j], contracts)
  BY MadeModules DEF secrets
<1>4. \A r : r[1] \in IdsOf(instances) /\ r[2] \in ProvideNames(Instance(instances, r[1]).def) =>
          \E k \in DOMAIN enabled :
             /\ r[1] = enabled[k].id /\ r[1] \in IdsOf(modules)
             /\ Instance(modules, r[1]) = modules[k]
             /\ contracts[r[1]] = modules[k].provides /\ r[2] \in DOMAIN modules[k].provides
  BY MadeModules
<1>5. ASSUME NEW m \in Range(modules), NEW w \in DOMAIN m.def.workloads
      PROVE  IsDeployable(m.def.workloads[w], m.def)
  <2>1. PICK j \in DOMAIN enabled : m = modules[j]
    BY <1>1 DEF Range
  <2>2. IsSound(m.def)
    BY <1>2, <1>3, <2>1 DEF IsPlanOf
  <2> QED BY <2>2 DEF IsSound
<1>6. ASSUME NEW m \in Range(modules), NEW n \in DOMAIN m.provides, HostOf(m.provides[n]).is = "host"
      PROVE  IsList(HostOf(m.provides[n]).host) /\ IsPrefix(PartsOf(m.id), HostOf(m.provides[n]).host)
  <2>1. PICK j \in DOMAIN enabled : m = modules[j]
    BY <1>1 DEF Range
  <2>2. /\ m.id = planned[j].id /\ m.provides = ProvidedContracts(planned[j], secrets)
        /\ n \in ProvideNames(instances[j].def) /\ IsPlanOf(planned[j], instances[j], env)
    BY <1>2, <1>3, <2>1
  <2> QED BY <1>6, <2>2, HostIsOwn
<1>7. ASSUME NEW m \in Range(modules), NEW b \in SingleBindings(m)
      PROVE  /\ b \in AllBindings(m)
             /\ b.ref[1] \in IdsOf(modules)
             /\ b.ref[2] \in DOMAIN Instance(modules, b.ref[1]).provides
             /\ b.contract = Instance(modules, b.ref[1]).provides[b.ref[2]]
  <2>1. PICK i \in DOMAIN enabled : m = modules[i]
    BY <1>1 DEF Range
  <2>2. PICK n \in DOMAIN m.consumes : ~m.consumes[n].many /\ b = m.consumes[n].bound[1]
    BY DEF SingleBindings
  <2> DEFINE plan == planned[i]
             inst == instances[i]
  <2>3. IsPlanOf(plan, inst, env) /\ m.consumes = ConsumedContracts(plan, contracts)
    BY <1>2, <1>3, <2>1
  <2>4. ConfigErrors(inst) = {} /\ ContractErrors(inst, instances) = {}
    BY <1>2
  <2> HIDE DEF plan, inst
  <2>5. \E c \in Range(inst.def.consumes) : \E r :
            /\ ConsumedContracts(plan, contracts)[n] = Consumed(plan, c, contracts)
            /\ Consumed(plan, c, contracts).bound = <<Bound(r, contracts)>>
    BY <2>2, <2>3, SingleIs
  <2>6. PICK c \in Range(inst.def.consumes) :
            /\ m.consumes[n] = Consumed(plan, c, contracts)
            /\ \E r : Consumed(plan, c, contracts).bound = <<Bound(r, contracts)>>
    BY <2>3, <2>5
  <2>7. /\ b \in Range(Consumed(plan, c, contracts).bound)
        /\ b \in Range(m.consumes[n].bound)
    <3>1. PICK r : m.consumes[n].bound = <<Bound(r, contracts)>>
      BY <2>6
    <3>2. 1 \in DOMAIN m.consumes[n].bound /\ b = m.consumes[n].bound[1]
      BY <2>2, <3>1
    <3> QED BY <2>6, <3>2 DEF Range
  <2>8. b \in AllBindings(m)
    BY <2>2, <2>7 DEF AllBindings
  <2>9. ConsumeErrors(inst, c, instances) = {}
    BY <2>4, <2>6 DEF ContractErrors, At1
  <2>10. PICK r : b = Bound(r, contracts) /\ BindingErrors(inst, c, r, instances) = {}
    BY <2>3, <2>4, <2>6, <2>7, <2>9, BoundIsChecked
  <2>11. b.ref = r /\ b.contract = contracts[r[1]][r[2]]
    BY <2>10 DEF Bound
  <2>12. r[1] \in IdsOf(instances) /\ r[2] \in ProvideNames(Instance(instances, r[1]).def)
    BY <2>10 DEF BindingErrors
  <2>13. PICK k \in DOMAIN enabled :
             /\ r[1] \in IdsOf(modules) /\ Instance(modules, r[1]) = modules[k]
             /\ contracts[r[1]] = modules[k].provides /\ r[2] \in DOMAIN modules[k].provides
    BY <1>4, <2>12
  <2> QED BY <2>8, <2>11, <2>13
<1> QED BY <1>1, <1>5, <1>6, <1>7 DEF IsWired

\* A chart that is written: what render_helm found nothing wrong with.
IsCharted(modules, chart) ==
    /\ chart = Chart(modules)
    /\ \A m \in Range(modules) :
          MissingErrors(m) = {} /\ BindingServiceErrors(m, modules) = {} /\ GateErrors(m, modules) = {}

(* render_helm writes a chart only when none of its checks said anything.  *)
LEMMA WrittenIsCharted ==
    ASSUME NEW plan, ChartIsWritten(RenderHelm(plan))
    PROVE  IsCharted(plan.modules, RenderHelm(plan))
<1> DEFINE chart == RenderHelm(plan)
           all == Range(plan.modules)
           unsupported == {<<"E072", m.id>> : m \in {n \in all : ~Renderable(n)}}
           markers     == UNION {MarkerErrors(m.def.markers, m.id) : m \in all}
           static      == UNION {StaticErrors(m, plan.modules) : m \in all}
<1>1. chart = (IF unsupported \cup markers # {} THEN NoChart(unsupported \cup markers)
               ELSE IF static # {} THEN NoChart(static)
               ELSE Chart(plan.modules))
  BY DEF RenderHelm
<1>2. chart.errors = {}
  BY DEF ChartIsWritten
<1> HIDE DEF chart, unsupported, markers, static
<1>3. \A errors : NoChart(errors).errors = errors
  BY DEF NoChart
<1>4. static = {} /\ chart = Chart(plan.modules)
  BY <1>1, <1>2, <1>3
<1>5. chart.errors = UNION {MissingErrors(m) : m \in all}
  BY <1>4 DEF Chart
<1>6. \A m \in all : MissingErrors(m) = {}
  BY <1>2, <1>5
<1>7. \A m \in all : StaticErrors(m, plan.modules) = {}
  BY <1>4 DEF static
<1>8. \A m \in all : BindingServiceErrors(m, plan.modules) = {} /\ GateErrors(m, plan.modules) = {}
  BY <1>7 DEF StaticErrors
<1> QED BY <1>4, <1>6, <1>8 DEF IsCharted, chart

(* What is in a chart.                                                     *)
LEMMA ChartHas ==
    ASSUME NEW modules, NEW chart, IsCharted(modules, chart)
    PROVE  /\ chart.edges = Edges(modules)
           /\ \A s : s \in chart.services <=>
                 \E m \in Range(modules) : \E w \in DOMAIN ServiceNames(m) : Runs(m, w) /\ s = ServiceManifest(m, w)
           /\ \A w : w \in chart.workloads <=>
                 \E m \in Range(modules) : \E v \in DOMAIN m.def.workloads : Runs(m, v) /\ w = <<m.id, v>>
           /\ \A m \in Range(modules) : \A w \in DOMAIN m.def.workloads : \A e \in EgressOf(m, w) :
                 <<m.id, w, e>> \in chart.external
<1> DEFINE all == Range(modules)
<1>1. /\ chart.edges = Edges(modules)
      /\ chart.services = UNION {RenderedServices(m) : m \in all}
      /\ chart.workloads = UNION {RenderedWorkloads(m) : m \in all}
      /\ chart.external = UNION {ExternalEdges(m) : m \in all}
  BY DEF IsCharted, Chart
<1>2. \A m, s : s \in RenderedServices(m) <=>
                 \E w \in DOMAIN ServiceNames(m) : Runs(m, w) /\ s = ServiceManifest(m, w)
  BY DEF RenderedServices
<1>3. \A m, w : w \in RenderedWorkloads(m) <=> \E v \in DOMAIN m.def.workloads : Runs(m, v) /\ w = <<m.id, v>>
  BY DEF RenderedWorkloads
<1>4. \A m : \A w \in DOMAIN m.def.workloads : \A e \in EgressOf(m, w) : <<m.id, w, e>> \in ExternalEdges(m)
  BY DEF ExternalEdges
<1> HIDE DEF all
<1>5. \A s : s \in chart.services <=> \E m \in all : s \in RenderedServices(m)
  BY <1>1
<1>6. \A w : w \in chart.workloads <=> \E m \in all : w \in RenderedWorkloads(m)
  BY <1>1
<1>7. \A e : e \in chart.external <=> \E m \in all : e \in ExternalEdges(m)
  BY <1>1
<1>8. \A m \in all : \A w \in DOMAIN m.def.workloads : \A e \in EgressOf(m, w) : <<m.id, w, e>> \in chart.external
  BY <1>4, <1>7
<1> QED BY <1>1, <1>2, <1>3, <1>5, <1>6, <1>8 DEF all

(* A module of a plan is the one with its id.                              *)
LEMMA ModuleIs ==
    ASSUME NEW modules, IsWired(modules)
    PROVE  /\ \A m \in Range(modules) : m.id \in IdsOf(modules) /\ Instance(modules, m.id) = m
           /\ \A id \in IdsOf(modules) : Instance(modules, id) \in Range(modules) /\ Instance(modules, id).id = id
<1>1. IdsDiffer(modules)
  BY DEF IsWired
<1>2. \A i \in DOMAIN modules : Instance(modules, modules[i].id) = modules[i]
  BY <1>1, InstanceIs
<1> QED BY <1>2 DEF Range, IdsOf

(* The Services of a chart: every workload with one is there, under the    *)
(* name that begins with the parts of its module.                          *)
LEMMA ServiceIsThere ==
    ASSUME NEW modules, IsWired(modules), NEW chart, IsCharted(modules, chart),
           NEW m \in Range(modules), NEW w \in DOMAIN ServiceNames(m)
    PROVE  /\ \E s \in chart.services : s.module = m.id /\ s.name = ServiceNames(m)[w]
           /\ IsPrefix(PartsOf(m.id), ServiceNames(m)[w]) /\ IsList(ServiceNames(m)[w]) /\ ServiceNames(m)[w] # <<>>
           /\ ServiceNames(m)[w] = ComposeServiceName(m.id, w)
<1> DEFINE workload == m.def.workloads[w]
<1>1. w \in DOMAIN m.def.workloads /\ HasService(workload)
  BY DEF ServiceNames
<1>2. /\ workload.containers # {} /\ workload.gate = NoGate /\ workload.serviceName = NoPath
  BY <1>1 DEF IsWired, IsDeployable
<1>3. ServiceNames(m)[w] = ComposeServiceName(m.id, w)
  BY <1>2 DEF ServiceNames
<1>4. w \in EnabledWorkloads(m)
  BY <1>1, <1>2 DEF EnabledWorkloads, Disabled
<1>5. MissingErrors(m) = {}
  BY DEF IsCharted
<1>6. workload.containers \cup workload.init \subseteq Available(m)
  BY <1>4, <1>5 DEF MissingErrors, When
<1>7. Runs(m, w)
  BY <1>2, <1>4, <1>6 DEF Runs
<1>8. ServiceManifest(m, w) \in chart.services
  BY <1>7, ChartHas
<1>9. ServiceManifest(m, w).module = m.id /\ ServiceManifest(m, w).name = ServiceNames(m)[w]
  BY DEF ServiceManifest
<1> QED BY <1>3, <1>8, <1>9, FullNameIs

(* The host of a contract that is bound is answered by its own module.     *)
LEMMA BoundIsAnswered ==
    ASSUME NEW modules, IsWired(modules), NEW chart, IsCharted(modules, chart),
           ~Clashing(modules), NEW m \in Range(modules), NEW b \in SingleBindings(m)
    PROVE  /\ \E s \in chart.services : s.module = b.ref[1] /\ s.name = HostOf(b.contract).host
           /\ HostOf(b.contract).is = "host"
<1> DEFINE n == Instance(modules, b.ref[1])
           host == HostOf(b.contract).host
<1>1. /\ b \in AllBindings(m) /\ b.ref[1] \in IdsOf(modules)
      /\ b.ref[2] \in DOMAIN n.provides /\ b.contract = n.provides[b.ref[2]]
  BY DEF IsWired
<1>2. n \in Range(modules) /\ n.id = b.ref[1]
  BY <1>1, ModuleIs
<1>3. BindingServiceErrors(m, modules) = {}
  BY DEF IsCharted
<1>4. HostOf(b.contract).is = "host" /\ host \in UNION {ServicesNamed(k) : k \in Range(modules)}
  BY <1>1, <1>3 DEF BindingServiceErrors, When
<1> HIDE DEF n
<1>5. IsList(host) /\ IsPrefix(PartsOf(n.id), host)
  BY <1>1, <1>2, <1>4 DEF IsWired
<1>6. PICK k \in Range(modules) : \E w \in DOMAIN ServiceNames(k) : host = ServiceNames(k)[w]
  BY <1>4 DEF ServicesNamed, Range
<1>7. PICK w \in DOMAIN ServiceNames(k) : host = ServiceNames(k)[w]
  BY <1>6
<1>8. /\ \E s \in chart.services : s.module = k.id /\ s.name = host
      /\ IsPrefix(PartsOf(k.id), host)
  BY <1>7, ServiceIsThere
<1>9. k.id = n.id
  <2>1. IsPrefix(PartsOf(k.id), PartsOf(n.id)) \/ IsPrefix(PartsOf(n.id), PartsOf(k.id))
    BY <1>5, <1>8, PrefixesOfOne, PartsAreListed
  <2> QED BY <1>2, <2>1 DEF Clashing
<1> QED BY <1>2, <1>4, <1>8, <1>9

(* The pod ports behind a Service are in the scope of a policy that is     *)
(* about its port.                                                         *)
LEMMA ForwardedInScope ==
    ASSUME NEW modules, IsWired(modules), NEW chart, IsCharted(modules, chart),
           NEW to \in IdsOf(modules), NEW host, NEW spec, NEW port, port = At(spec, "port", Blank),
           port.is = "port", NEW p \in ForwardedTo(chart, to, host, port.port)
    PROVE  p \in PortScope(spec, Instance(modules, to)) \ {AllPorts}
<1> DEFINE n == Instance(modules, to)
<1>1. n \in Range(modules) /\ n.id = to
  BY ModuleIs
<1>2. PICK s \in chart.services : /\ s.module = to
                                  /\ \E q \in s.ports : q[1] = port.port /\ p = q[2]
  BY DEF ForwardedTo
<1>3. PICK k \in Range(modules) : \E w \in DOMAIN ServiceNames(k) : Runs(k, w) /\ s = ServiceManifest(k, w)
  BY <1>2, ChartHas
<1>4. PICK w \in DOMAIN ServiceNames(k) : Runs(k, w) /\ s = ServiceManifest(k, w)
  BY <1>3
<1>5. k = n /\ s.ports = PortsOf(n, w)
  <2>1. s.module = k.id /\ s.ports = PortsOf(k, w)
    BY <1>4 DEF ServiceManifest
  <2>2. Instance(modules, k.id) = k
    BY ModuleIs
  <2> QED BY <1>2, <2>1, <2>2
<1> HIDE DEF n
<1>6. w \in EnabledWorkloads(n) /\ w \in DOMAIN n.def.workloads
  BY <1>4, <1>5 DEF Runs, EnabledWorkloads
<1>7. PICK q \in PortsOf(n, w) : q[1] = port.port /\ p = q[2]
  BY <1>2, <1>5
<1>8. q \in Surfaces(n)
  BY <1>6, <1>7 DEF Surfaces
<1>9. p # AllPorts
  <2>1. n.def.workloads[w].service # NoService
    BY <1>7 DEF PortsOf
  <2>2. \A t \in n.def.workloads[w].service.ports : t.target # AllPorts
    BY <1>1, <1>6, <2>1 DEF IsWired, IsDeployable
  <2>3. PICK t \in n.def.workloads[w].service.ports : q = <<Substitute(t.port, n, Nothing).port, t.target>>
    BY <1>7, <2>1 DEF PortsOf
  <2> QED BY <1>7, <2>2, <2>3
<1>10. p \in PortScope(spec, n)
  <2> DEFINE targets == {r[2] : r \in {t \in Surfaces(n) : port.is = "port" /\ t[1] = port.port}}
  <2>1. p \in targets
    BY <1>7, <1>8
  <2>2. PortScope(spec, n) = IF targets # {} THEN targets ELSE {port.port}
    BY DEF PortScope
  <2> QED BY <2>1, <2>2
<1> QED BY <1>9, <1>10 DEF n

\* `reaches` of ChartConnects.
Reaches(chart, m, to, host, port) ==
    \/ to = m.id
    \/ port.is = "port" =>
          \A p \in ForwardedTo(chart, to, host, port.port) : <<m.id, to, p>> \in chart.edges

(* The edges of a chart: of bindings and of routes, to other modules.      *)
LEMMA EdgesAre ==
    ASSUME NEW modules, NEW e
    PROVE  e \in Edges(modules) <=>
              \E m \in Range(modules) :
                 \/ \E b \in SingleBindings(m) :
                       /\ b.ref[1] \in IdsOf(modules) \ {m.id}
                       /\ \E p \in PortScope(b.contract.spec, Instance(modules, b.ref[1])) : e = <<m.id, b.ref[1], p>>
                 \/ \E r \in ProxyRoutes(m, modules) :
                       /\ r[1] # m.id
                       /\ \E p \in PortScope(Instance(modules, r[1]).provides[r[2]].spec, Instance(modules, r[1]))
                                   \ {AllPorts} : e = <<m.id, r[1], p>>
<1>1. \A m : e \in BindingEdges(m, modules) <=>
                \E b \in SingleBindings(m) :
                       /\ b.ref[1] \in IdsOf(modules) \ {m.id}
                       /\ \E p \in PortScope(b.contract.spec, Instance(modules, b.ref[1])) : e = <<m.id, b.ref[1], p>>
  BY DEF BindingEdges
<1>2. \A m : e \in RouteEdges(m, modules) <=>
                \E r \in ProxyRoutes(m, modules) :
                       /\ r[1] # m.id
                       /\ \E p \in PortScope(Instance(modules, r[1]).provides[r[2]].spec, Instance(modules, r[1]))
                                   \ {AllPorts} : e = <<m.id, r[1], p>>
  BY DEF RouteEdges
<1>3. e \in Edges(modules) <=>
         \E m \in Range(modules) : e \in BindingEdges(m, modules) \/ e \in RouteEdges(m, modules)
  BY DEF Edges
<1> QED BY <1>1, <1>2, <1>3

(* A binding opens the pod ports behind the port of its contract.          *)
LEMMA BindingReaches ==
    ASSUME NEW modules, IsWired(modules), NEW chart, IsCharted(modules, chart),
           NEW m \in Range(modules), NEW b \in SingleBindings(m), NEW host
    PROVE  Reaches(chart, m, b.ref[1], host, At(b.contract.spec, "port", Blank))
<1> DEFINE to == b.ref[1]
           port == At(b.contract.spec, "port", Blank)
<1>1. to \in IdsOf(modules)
  BY DEF IsWired
<1>2. SUFFICES ASSUME to # m.id, port.is = "port", NEW p \in ForwardedTo(chart, to, host, port.port)
               PROVE  <<m.id, to, p>> \in chart.edges
  BY DEF Reaches
<1> HIDE DEF port
<1>3. p \in PortScope(b.contract.spec, Instance(modules, to))
  BY <1>1, <1>2, ForwardedInScope DEF port
<1>4. <<m.id, to, p>> \in Edges(modules)
  BY <1>1, <1>2, <1>3, EdgesAre
<1> QED BY <1>4, ChartHas

(* So does a route of the proxy.                                           *)
LEMMA RouteReaches ==
    ASSUME NEW modules, IsWired(modules), NEW chart, IsCharted(modules, chart),
           NEW m \in Range(modules), NEW r \in ProxyRoutes(m, modules), NEW host
    PROVE  Reaches(chart, m, r[1], host, At(Instance(modules, r[1]).provides[r[2]].spec, "port", Blank))
<1> DEFINE to == r[1]
           spec == Instance(modules, to).provides[r[2]].spec
           port == At(spec, "port", Blank)
<1>1. to \in IdsOf(modules)
  BY DEF ProxyRoutes
<1>2. SUFFICES ASSUME to # m.id, port.is = "port", NEW p \in ForwardedTo(chart, to, host, port.port)
               PROVE  <<m.id, to, p>> \in chart.edges
  BY DEF Reaches
<1> HIDE DEF port, spec
<1>3. p \in PortScope(spec, Instance(modules, to)) \ {AllPorts}
  BY <1>1, <1>2, ForwardedInScope DEF port
<1>4. <<m.id, to, p>> \in Edges(modules)
  BY <1>1, <1>2, <1>3, EdgesAre DEF spec
<1> QED BY <1>4, ChartHas

(* An edge leads from a module to one that it is bound or routed to.       *)
LEMMA EdgesLeadToPartners ==
    ASSUME NEW modules, IsWired(modules), NEW chart, IsCharted(modules, chart), NEW e \in chart.edges
    PROVE  e[1] # e[2] /\ e[2] \in Partners(Instance(modules, e[1]), modules)
<1>1. e \in Edges(modules)
  BY ChartHas
<1>2. PICK m \in Range(modules) :
         \/ \E b \in SingleBindings(m) : /\ b.ref[1] # m.id
                                         /\ \E p : e = <<m.id, b.ref[1], p>>
         \/ \E r \in ProxyRoutes(m, modules) : r[1] # m.id /\ \E p : e = <<m.id, r[1], p>>
  BY <1>1, EdgesAre
<1>3. Instance(modules, m.id) = m
  BY ModuleIs
<1>4. CASE \E b \in SingleBindings(m) : b.ref[1] # m.id /\ \E p : e = <<m.id, b.ref[1], p>>
  <2>1. PICK b \in SingleBindings(m) : b.ref[1] # m.id /\ \E p : e = <<m.id, b.ref[1], p>>
    BY <1>4
  <2>2. e[1] = m.id /\ e[2] = b.ref[1]
    BY <2>1
  <2> QED BY <1>3, <2>1, <2>2 DEF Partners
<1>5. CASE \E r \in ProxyRoutes(m, modules) : r[1] # m.id /\ \E p : e = <<m.id, r[1], p>>
  <2>1. PICK r \in ProxyRoutes(m, modules) : r[1] # m.id /\ \E p : e = <<m.id, r[1], p>>
    BY <1>5
  <2>2. e[1] = m.id /\ e[2] = r[1]
    BY <2>1
  <2> QED BY <1>3, <2>1, <2>2 DEF Partners
<1> QED BY <1>2, <1>4, <1>5

(* A host that a gate may name is the name of a Service of the chart; and  *)
(* it is a name.                                                           *)
LEMMA AllowedIsThere ==
    ASSUME NEW modules, IsWired(modules), NEW chart, IsCharted(modules, chart),
           ~Clashing(modules), NEW m \in Range(modules), NEW host \in GateHosts(m, modules)
    PROVE  host # <<>> /\ \E s \in chart.services : s.name = host
<1>1. \/ \E w \in DOMAIN ServiceNames(m) : host = ServiceNames(m)[w]
      \/ \E b \in SingleBindings(m) : HostOf(b.contract).is = "host" /\ host = HostOf(b.contract).host
      \/ \E n \in Range(modules) : \E h \in DOMAIN FullNames(n) : host = FullNames(n)[h]
  BY DEF GateHosts
<1>2. ASSUME NEW n \in Range(modules), NEW w \in DOMAIN ServiceNames(n), host = ServiceNames(n)[w]
      PROVE  host # <<>> /\ \E s \in chart.services : s.name = host
  BY <1>2, ServiceIsThere
<1>3. ASSUME NEW b \in SingleBindings(m), HostOf(b.contract).is = "host", host = HostOf(b.contract).host
      PROVE  host # <<>> /\ \E s \in chart.services : s.name = host
  <2>1. PICK s \in chart.services : s.name = host
    BY <1>3, BoundIsAnswered
  <2>2. PICK n \in Range(modules) : \E w \in DOMAIN ServiceNames(n) : s = ServiceManifest(n, w)
    BY <2>1, ChartHas
  <2>3. \E w \in DOMAIN ServiceNames(n) : host = ServiceNames(n)[w]
    BY <2>1, <2>2 DEF ServiceManifest
  <2> QED BY <1>2, <2>3
<1>4. ASSUME NEW n \in Range(modules), NEW h \in DOMAIN FullNames(n), host = FullNames(n)[h]
      PROVE  \E w \in DOMAIN ServiceNames(n) : host = ServiceNames(n)[w]
  <2> DEFINE names == ServiceNames(n)
             full(w) == ComposeServiceName(n.id, w)
             chosen == CHOOSE w \in DOMAIN names : full(w) = h
  <2>1. FullNames(n) = [k \in {full(w) : w \in DOMAIN names} |-> names[CHOOSE w \in DOMAIN names : full(w) = k]]
    BY DEF FullNames
  <2> HIDE DEF names, full
  <2>2. \E w \in DOMAIN names : full(w) = h
    BY <2>1
  <2>3. chosen \in DOMAIN names
    BY <2>2
  <2>4. host = names[chosen]
    BY <1>4, <2>1
  <2> QED BY <2>3, <2>4 DEF names
<1> QED BY <1>1, <1>2, <1>3, <1>4

\* A gate that its workload can pass: what is asked of gates by ChartConnects.
Passes(chart, m, w, g, host) ==
    \/ g.host.on = "host" /\ \E s \in chart.services : s.name = host /\ s.module # m.id
    \/ \E s \in chart.services : s.name = host /\ Reaches(chart, m, s.module, host, GatePort(m, g))
    \/ \E e \in chart.external : e[1] = m.id /\ e[2] = w /\ Covers(e[3], host, GatePort(m, g))

(* A gate that _check_wait_gate_hosts lets through can be passed.          *)
LEMMA GateIsOpen ==
    ASSUME NEW modules, IsWired(modules), NEW chart, IsCharted(modules, chart),
           ~Clashing(modules), NEW m \in Range(modules), NEW w \in DOMAIN m.def.workloads, Runs(m, w),
           NEW g \in m.def.workloads[w].waitFor, NEW host, host = GateHost(m, g.host)
    PROVE  Passes(chart, m, w, g, host)
<1>1. \/ host \in GateHosts(m, modules)
      \/ \E e \in EgressOf(m, w) : Covers(e, host, GatePort(m, g))
  <2>1. GateErrors(m, modules) = {}
    BY DEF IsCharted
  <2> QED BY <2>1 DEF GateErrors, When
<1>2. CASE \E e \in EgressOf(m, w) : Covers(e, host, GatePort(m, g))
  <2>1. PICK e \in EgressOf(m, w) : Covers(e, host, GatePort(m, g))
    BY <1>2
  <2>2. <<m.id, w, e>> \in chart.external
    BY ChartHas
  <2>3. <<m.id, w, e>>[1] = m.id /\ <<m.id, w, e>>[2] = w /\ <<m.id, w, e>>[3] = e
    OBVIOUS
  <2> QED BY <2>1, <2>2, <2>3 DEF Passes
<1>3. CASE host \in GateHosts(m, modules)
  <2>1. host # <<>> /\ \E s \in chart.services : s.name = host
    BY <1>3, AllowedIsThere
  <2>2. \/ g.host.on = "host"
        \/ g.host.on = "binding" /\ g.port = Blank
        \/ /\ g.host.on = "workload" /\ g.host.name \in DOMAIN m.def.workloads
           /\ HasService(m.def.workloads[g.host.name])
    BY DEF IsWired, IsDeployable
  <2>3. CASE g.host.on = "host"
    <3>1. PICK s \in chart.services : s.name = host
      BY <2>1
    <3>2. s.module = m.id => Reaches(chart, m, s.module, host, GatePort(m, g))
      BY DEF Reaches
    <3> QED BY <2>3, <3>1, <3>2 DEF Passes
  <2>4. CASE /\ g.host.on = "workload" /\ g.host.name \in DOMAIN m.def.workloads
             /\ HasService(m.def.workloads[g.host.name])
    <3>1. g.host.name \in DOMAIN ServiceNames(m)
      BY <2>4 DEF ServiceNames
    <3>2. host = ServiceNames(m)[g.host.name]
      BY <2>4, <3>1 DEF GateHost, At
    <3>3. PICK s \in chart.services : s.module = m.id /\ s.name = host
      BY <3>1, <3>2, ServiceIsThere
    <3> QED BY <3>3 DEF Passes, Reaches
  <2>5. CASE g.host.on = "binding" /\ g.port = Blank
    <3> DEFINE n == g.host.name
               spec == At(BoundSpecs(m), n, Nothing)
    <3>1. /\ At(spec, "host", Blank).is = "host" /\ host = At(spec, "host", Blank).host
      BY <2>1, <2>5 DEF GateHost
    <3>2. n \in DOMAIN BoundSpecs(m)
      <4>1. n \notin DOMAIN BoundSpecs(m) => spec = Nothing
        BY DEF At
      <4>2. "host" \notin DOMAIN Nothing /\ Blank.is = "blank"
        BY DEF Nothing, Blank
      <4>3. At(Nothing, "host", Blank).is # "host"
        BY <4>2 DEF At
      <4> QED BY <3>1, <4>1, <4>3
    <3>3. PICK b \in SingleBindings(m) : BoundSpecs(m)[n] = b.contract.spec
      BY <3>2 DEF BoundSpecs, SingleBindings
    <3>4. spec = b.contract.spec
      BY <3>2, <3>3 DEF At
    <3>5. GatePort(m, g) = At(b.contract.spec, "port", Blank)
      BY <2>5, <3>3 DEF GatePort
    <3>6. host = HostOf(b.contract).host
      BY <3>1, <3>4 DEF HostOf
    <3>7. PICK s \in chart.services : s.module = b.ref[1] /\ s.name = host
      BY <3>6, BoundIsAnswered
    <3>8. Reaches(chart, m, s.module, host, GatePort(m, g))
      BY <3>5, <3>7, BindingReaches
    <3> QED BY <3>7, <3>8 DEF Passes
  <2> QED BY <2>2, <2>3, <2>4, <2>5
<1> QED BY <1>1, <1>2, <1>3

(* The pieces together: a chart that is written connects its modules.      *)
LEMMA ChartIsConnected ==
    ASSUME NEW plan, NEW modules, modules = plan.modules, IsWired(modules),
           NEW chart, IsCharted(modules, chart)
    PROVE  ChartConnects(plan, chart)
<1>1. \A m \in Range(modules) : \A b \in SingleBindings(m) :
         Reaches(chart, m, b.ref[1], HostOf(b.contract).host, At(b.contract.spec, "port", Blank))
  BY BindingReaches
<1>2. \A m \in Range(modules) : \A r \in ProxyRoutes(m, modules) : \A host :
         Reaches(chart, m, r[1], host, At(Instance(modules, r[1]).provides[r[2]].spec, "port", Blank))
  BY RouteReaches
<1>3. \A e \in chart.edges : e[1] # e[2] /\ e[2] \in Partners(Instance(modules, e[1]), modules)
  BY EdgesLeadToPartners
<1>4. ~Clashing(modules) => \A m \in Range(modules) : \A b \in SingleBindings(m) :
          \E s \in chart.services : s.module = b.ref[1] /\ s.name = HostOf(b.contract).host
  BY BoundIsAnswered
<1>5. ~Clashing(modules) => \A w \in chart.workloads : \A m \in {Instance(modules, w[1])} :
          \A g \in m.def.workloads[w[2]].waitFor : \A host \in {GateHost(m, g.host)} :
              Passes(chart, m, w[2], g, host)
  <2> SUFFICES ASSUME ~Clashing(modules), NEW x \in chart.workloads, NEW n, n = Instance(modules, x[1]),
                      NEW g \in n.def.workloads[x[2]].waitFor, NEW host, host = GateHost(n, g.host)
               PROVE  Passes(chart, n, x[2], g, host)
    OBVIOUS
  <2>1. PICK m \in Range(modules) : \E v \in DOMAIN m.def.workloads : Runs(m, v) /\ x = <<m.id, v>>
    BY ChartHas
  <2>2. PICK v \in DOMAIN m.def.workloads : Runs(m, v) /\ x = <<m.id, v>>
    BY <2>1
  <2>3. n = m /\ x[2] = v
    BY <2>2, ModuleIs
  <2> QED BY <2>2, <2>3, GateIsOpen
<1> QED BY <1>1, <1>2, <1>3, <1>4, <1>5 DEF ChartConnects, Reaches, Passes

(* The network policies of a chart let a module reach, on the pod port     *)
(* behind it, every Service that its bindings, routes and gates name, and  *)
(* no module that it is neither bound nor routed to (_network_policy_      *)
(* manifests, _check_binding_services, _check_wait_gate_hosts).            *)
THEOREM PoliciesOpenWhatIsBound ==
    Spec => []PoliciesFollowBindings
<1>1. TypeOK => PoliciesFollowBindings
  <2> SUFFICES ASSUME TypeOK, NEW overlay \in Environs, NEW options \in OptionSets,
                      NEW plan, plan = PlanOf(overlay, options), Valid(overlay), plan.errors = {},
                      NEW chart, chart = RenderHelm(plan), ChartIsWritten(chart)
               PROVE  ChartConnects(plan, chart)
    BY DEF PoliciesFollowBindings, ErrorFree
  <2> DEFINE modules == plan.modules
  <2>1. IsWired(modules)
    <3>1. \E doc, enabled, instances, planned, contracts :
              IsMade(modules, doc, options, enabled, instances, planned, contracts)
      BY ModulesAreMade
    <3> HIDE DEF modules
    <3> QED BY <3>1, PlanIsWired
  <2>2. IsCharted(modules, chart)
    BY WrittenIsCharted
  <2> QED BY <2>1, <2>2, ChartIsConnected
<1> QED BY <1>1, FilesStayDocuments, PTL

(***************************************************************************)
(* What is in a Compose file is there for what refers to it                *)
(***************************************************************************)

\* A contract that every module of a plan is bound to, or provides, as far as a
\* Compose file is concerned: the volumes that it advertises are there in every
\* environment.
Lasting(volume, modules) ==
    \E k \in Range(modules) : \E v \in DOMAIN k.def.volumes :
        /\ volume = Host(VolumeName(k.id, v))
        /\ \A production \in BOOLEAN : ~Dropped(k.def.volumes[v], production)

\* What the modules of a plan tell a renderer of services.
IsLinked(modules) ==
    /\ IdsDiffer(modules) /\ \E n \in Nat : DOMAIN modules = 1 .. n
    /\ \A m \in Range(modules) : IsComposable(m.def)
    /\ \A m \in Range(modules) : \A b \in AllBindings(m) :
          /\ b.ref[1] \in IdsOf(modules)
          /\ b.ref[2] \in DOMAIN Instance(modules, b.ref[1]).provides
          /\ b.contract = Instance(modules, b.ref[1]).provides[b.ref[2]]
          /\ "volume" \in DOMAIN b.contract.spec => Lasting(b.contract.spec["volume"], modules)
    /\ \A S \in (SUBSET IdsOf(modules)) \ {{}} :
          \E id \in S : Range(Instance(modules, id).dependsOn) \cap S = {}

(* What a binding of a plan is a binding to.                               *)
LEMMA AnyBindingIs ==
    ASSUME NEW plan, NEW inst, NEW env, IsPlanOf(plan, inst, env), NEW contracts, NEW instances,
           ConfigErrors(inst) = {}, ContractErrors(inst, instances) = {},
           NEW n \in DOMAIN ConsumedContracts(plan, contracts),
           NEW b \in Range(ConsumedContracts(plan, contracts)[n].bound)
    PROVE  \E r : /\ b = Bound(r, contracts)
                  /\ r[1] \in IdsOf(instances) /\ r[2] \in ProvideNames(Instance(instances, r[1]).def)
<1> DEFINE consumes == inst.def.consumes
           S == {d \in Range(consumes) : Consumed(plan, d, contracts).bound # <<>>}
           bound == Only(consumes, S)
<1>1. consumes \in Seq(Range(consumes)) /\ plan.def = inst.def
  BY DEF IsPlanOf, IsSound, IsList
<1>2. ConsumedContracts(plan, contracts) =
          [k \in {bound[i].name : i \in DOMAIN bound} |-> Consumed(plan, Latest(bound, k), contracts)]
  BY <1>1 DEF ConsumedContracts
<1> HIDE DEF consumes, S
<1>3. Range(bound) = Range(consumes) \cap S
  BY <1>1, OnlyKeeps
<1> HIDE DEF bound
<1>4. PICK i \in DOMAIN bound : bound[i].name = n
  BY <1>2
<1>5. PICK c \in Range(consumes) : c.name = n
  BY <1>3, <1>4 DEF Range
<1>6. ConsumedContracts(plan, contracts)[n] = Consumed(plan, c, contracts)
  BY <1>5, ConsumedByName DEF consumes
<1>7. ConsumeErrors(inst, c, instances) = {}
  BY <1>5 DEF ContractErrors, At1, consumes
<1>8. PICK r : b = Bound(r, contracts) /\ BindingErrors(inst, c, r, instances) = {}
  BY <1>5, <1>6, <1>7, BoundIsChecked DEF consumes
<1>9. r[1] \in IdsOf(instances) /\ r[2] \in ProvideNames(Instance(instances, r[1]).def)
  BY <1>8 DEF BindingErrors
<1> QED BY <1>8, <1>9

(* The volumes that planned contracts advertise.                           *)
LEMMA AdvertisedLasts ==
    ASSUME NEW plan, NEW inst, NEW env, IsPlanOf(plan, inst, env), NEW secrets,
           NEW n \in ProvideNames(inst.def),
           NEW contract, contract = ProvidedContracts(plan, secrets)[n], "volume" \in DOMAIN contract.spec
    PROVE  \E v \in DOMAIN inst.def.volumes :
              /\ contract.spec["volume"] = Host(VolumeName(plan.id, v))
              /\ \A production \in BOOLEAN : ~Dropped(inst.def.volumes[v], production)
<1> DEFINE p == Provided(inst.def, n)
           adv == p.spec["volume"]
<1>1. contract.spec = [f \in DOMAIN p.spec |-> Substitute(p.spec[f], plan, secrets)]
  BY ContractIs
<1>2. p \in Range(inst.def.provides)
  <2>1. PICK i \in DOMAIN inst.def.provides : n = inst.def.provides[i].name
    BY DEF ProvideNames
  <2>2. p = inst.def.provides[i]
    BY <2>1, NamedEntry DEF Provided, IsPlanOf, IsSound
  <2> QED BY <2>2 DEF Range
<1> HIDE DEF p
<1>3. IsComposable(inst.def)
  BY DEF IsPlanOf, IsSound
<1>4. /\ adv.as = "volume" /\ adv.name \in DOMAIN inst.def.volumes
      /\ \A production \in BOOLEAN : ~Dropped(inst.def.volumes[adv.name], production)
  BY <1>1, <1>2, <1>3 DEF IsComposable
<1>5. contract.spec["volume"] = Substitute(adv, plan, secrets)
  BY <1>1
<1> HIDE DEF adv
<1>6. contract.spec["volume"] = Host(VolumeName(plan.id, adv.name))
  BY <1>4, <1>5 DEF Substitute
<1> QED BY <1>4, <1>6

(* A plan of a valid profile is linked.                                    *)
LEMMA PlanIsLinked ==
    ASSUME NEW modules, NEW doc, NEW options, NEW enabled, NEW instances, NEW planned,
           NEW contracts, IsMade(modules, doc, options, enabled, instances, planned, contracts)
    PROVE  IsLinked(modules)
<1> DEFINE secrets == SecretNames(doc, options)
           env == Environment(doc)
<1>1. /\ IsList(enabled) /\ Startable(instances)
      /\ DOMAIN modules = DOMAIN enabled /\ IdsDiffer(modules) /\ IdsDiffer(instances)
      /\ DOMAIN instances = DOMAIN enabled
  BY DEF IsMade, SameModules
<1>2. \A j \in DOMAIN enabled :
          /\ ConfigErrors(instances[j]) = {} /\ ContractErrors(instances[j], instances) = {}
          /\ IsPlanOf(planned[j], instances[j], env)
          /\ modules[j].id = enabled[j].id
  BY DEF IsMade
<1> HIDE DEF env
<1>3. /\ \A j \in DOMAIN enabled :
            /\ modules[j].id = planned[j].id /\ modules[j].dependsOn = instances[j].dependsOn
            /\ modules[j].def = instances[j].def
            /\ modules[j].provides = ProvidedContracts(planned[j], secrets)
            /\ DOMAIN modules[j].provides = ProvideNames(instances[j].def)
            /\ modules[j].consumes = ConsumedContracts(planned[j], contracts)
      /\ IdsOf(instances) = IdsOf(modules)
  BY MadeModules
<1>4. \A r : r[1] \in IdsOf(instances) /\ r[2] \in ProvideNames(Instance(instances, r[1]).def) =>
          \E k \in DOMAIN enabled :
             /\ r[1] \in IdsOf(modules) /\ Instance(modules, r[1]) = modules[k]
             /\ contracts[r[1]] = modules[k].provides /\ r[2] \in DOMAIN modules[k].provides
  BY MadeModules
<1> HIDE DEF secrets
<1>5. \E n \in Nat : DOMAIN modules = 1 .. n
  BY <1>1 DEF IsList
<1>6. ASSUME NEW m \in Range(modules) PROVE IsComposable(m.def)
  <2>1. PICK j \in DOMAIN enabled : m = modules[j]
    BY <1>1 DEF Range
  <2> QED BY <1>2, <1>3, <2>1 DEF IsPlanOf, IsSound
<1>7. ASSUME NEW m \in Range(modules), NEW b \in AllBindings(m)
      PROVE  /\ b.ref[1] \in IdsOf(modules)
             /\ b.ref[2] \in DOMAIN Instance(modules, b.ref[1]).provides
             /\ b.contract = Instance(modules, b.ref[1]).provides[b.ref[2]]
             /\ "volume" \in DOMAIN b.contract.spec => Lasting(b.contract.spec["volume"], modules)
  <2>1. PICK i \in DOMAIN enabled : m = modules[i]
    BY <1>1 DEF Range
  <2>2. PICK n \in DOMAIN m.consumes : b \in Range(m.consumes[n].bound)
    BY DEF AllBindings
  <2> DEFINE plan == planned[i]
             inst == instances[i]
  <2>3. /\ IsPlanOf(plan, inst, env) /\ m.consumes = ConsumedContracts(plan, contracts)
        /\ ConfigErrors(inst) = {} /\ ContractErrors(inst, instances) = {}
    BY <1>2, <1>3, <2>1
  <2> HIDE DEF plan, inst
  <2>4. PICK r : /\ b = Bound(r, contracts)
                 /\ r[1] \in IdsOf(instances) /\ r[2] \in ProvideNames(Instance(instances, r[1]).def)
    BY <2>2, <2>3, AnyBindingIs
  <2>5. PICK k \in DOMAIN enabled :
             /\ r[1] \in IdsOf(modules) /\ Instance(modules, r[1]) = modules[k]
             /\ contracts[r[1]] = modules[k].provides /\ r[2] \in DOMAIN modules[k].provides
    BY <1>4, <2>4
  <2>6. b.ref = r /\ b.contract = modules[k].provides[r[2]]
    BY <2>4, <2>5 DEF Bound
  <2>7. ASSUME "volume" \in DOMAIN b.contract.spec PROVE Lasting(b.contract.spec["volume"], modules)
    <3> DEFINE contract == b.contract
    <3>1. /\ IsPlanOf(planned[k], instances[k], env) /\ r[2] \in ProvideNames(instances[k].def)
          /\ contract = ProvidedContracts(planned[k], secrets)[r[2]]
      BY <1>2, <1>3, <2>5, <2>6
    <3> HIDE DEF contract
    <3>2. PICK v \in DOMAIN instances[k].def.volumes :
              /\ contract.spec["volume"] = Host(VolumeName(planned[k].id, v))
              /\ \A production \in BOOLEAN : ~Dropped(instances[k].def.volumes[v], production)
      BY <2>7, <3>1, AdvertisedLasts DEF contract
    <3>3. modules[k] \in Range(modules) /\ modules[k].id = planned[k].id /\ modules[k].def = instances[k].def
      BY <1>1, <1>3 DEF Range
    <3> QED BY <3>2, <3>3 DEF Lasting, contract
  <2> QED BY <2>5, <2>6, <2>7
<1>8. ASSUME NEW S \in (SUBSET IdsOf(modules)) \ {{}}
      PROVE  \E id \in S : Range(Instance(modules, id).dependsOn) \cap S = {}
  <2>1. PICK id \in S : Range(Instance(instances, id).dependsOn) \cap S = {}
    BY <1>1, <1>3 DEF Startable
  <2>2. PICK j \in DOMAIN enabled : modules[j].id = id
    BY <1>1 DEF IdsOf
  <2>3. Instance(modules, id) = modules[j]
    BY <1>1, <2>2, InstanceIs
  <2>4. Instance(instances, id) = instances[j]
    <3>1. instances[j].id = id
      BY <1>2, <1>3, <2>2 DEF IsPlanOf
    <3> QED BY <1>1, <3>1, InstanceIs
  <2> QED BY <1>3, <2>1, <2>3, <2>4
<1> QED BY <1>1, <1>5, <1>6, <1>7, <1>8 DEF IsLinked

(* A set of places in a sequence has a last one.                           *)
LEMMA LastPlace ==
    ASSUME NEW n \in Nat, NEW S \in SUBSET (1 .. n), S # {}
    PROVE  \E i \in S : \A j \in S : j <= i
<1> SUFFICES ASSUME \A i \in S : \E j \in S : j > i PROVE FALSE
  OBVIOUS
<1> DEFINE Bad == {k \in 0 .. n : \E i \in S : n - i <= k}
<1>1. \A i \in S : i \in 1 .. n
  OBVIOUS
<1>2. 0 \notin Bad
  BY <1>1
<1>3. ASSUME NEW k \in Bad PROVE k - 1 \in Bad
  <2>1. PICK i \in S : n - i <= k
    BY <1>3
  <2>2. PICK j \in S : j > i
    BY <2>1
  <2>3. k # 0
    BY <1>2, <1>3
  <2> QED BY <1>1, <1>3, <2>1, <2>2, <2>3
<1>4. PICK i \in S : TRUE
  OBVIOUS
<1>5. n \in Bad
  BY <1>1, <1>4
<1> HIDE DEF Bad
<1>6. Bad \in SUBSET (0 .. n)
  BY DEF Bad
<1> QED BY <1>2, <1>3, <1>5, <1>6, NoFirstRound

\* What render_compose found nothing wrong with.
IsComposed(plan, stack) ==
    LET modules  == plan.modules
        rendered == RenderedNames(plan)
        services == ComposeServices(plan)
    IN /\ \A m \in Range(modules) : RenderErrors(m) = {} /\ HostErrors(m, rendered[m.id]) = {}
       /\ DOMAIN stack.services = DOMAIN services
       /\ \A n \in DOMAIN services :
             /\ stack.services[n].module = services[n].module
             /\ stack.services[n].healthy = services[n].healthy
             /\ stack.services[n].mounts = services[n].mounts
             /\ stack.services[n].needs =
                   Override(services[n].needs,
                            Constantly(Awaited(n, modules, rendered, services), "service_healthy"))
       /\ \A v : v \in stack.volumes <=> \E m \in Range(modules) : \E w \in VolumesOf(m, InProduction(plan)) :
                                            v = VolumeName(m.id, w)
       /\ stack.routes = Routes(modules, rendered).routes

(* A Compose file without errors is one whose modules have none.           *)
LEMMA RenderedIsComposed ==
    ASSUME NEW plan, NEW stack, stack = RenderCompose(plan), stack.errors = {}
    PROVE  IsComposed(plan, stack)
<1> DEFINE modules  == Range(plan.modules)
           rendered == RenderedNames(plan)
           services == ComposeServices(plan)
           needs(n) == Override(services[n].needs,
                          Constantly(Awaited(n, plan.modules, rendered, services), "service_healthy"))
           routes   == Routes(plan.modules, rendered)
           volumes(m) == {VolumeName(m.id, v) : v \in VolumesOf(m, InProduction(plan))}
<1>1. /\ stack.services = [n \in DOMAIN services |-> [services[n] EXCEPT !.needs = needs(n)]]
      /\ stack.volumes = UNION {volumes(m) : m \in {n \in modules : RenderErrors(n) = {}}}
      /\ stack.routes = routes.routes
      /\ stack.errors = UNION {RenderErrors(m) \cup HostErrors(m, rendered[m.id]) : m \in modules} \cup routes.errors
  BY DEF RenderCompose
<1>2. \A n \in DOMAIN services : \E m, s : services[n] = RenderService(m, s, InProduction(plan), OwnedVolumes(plan))
  BY DEF ComposeServices
<1> HIDE DEF services, rendered, needs, routes, volumes
<1>3. ASSUME NEW m \in modules PROVE RenderErrors(m) = {} /\ HostErrors(m, rendered[m.id]) = {}
  <2> DEFINE ofModule(n) == RenderErrors(n) \cup HostErrors(n, rendered[n.id])
  <2>1. stack.errors = UNION {ofModule(n) : n \in modules} \cup routes.errors
    BY <1>1
  <2> HIDE DEF ofModule, modules
  <2>2. ofModule(m) = {}
    BY <2>1
  <2> QED BY <2>2 DEF ofModule
<1>4. ASSUME NEW n \in DOMAIN services
      PROVE  /\ stack.services[n].module = services[n].module
             /\ stack.services[n].healthy = services[n].healthy
             /\ stack.services[n].mounts = services[n].mounts
             /\ stack.services[n].needs = needs(n)
  <2>1. stack.services[n] = [services[n] EXCEPT !.needs = needs(n)]
    BY <1>1
  <2>2. DOMAIN services[n] = {"module", "healthy", "profiled", "needs", "mounts"}
    BY <1>2 DEF RenderService
  <2> QED BY <2>1, <2>2
<1>5. \A v : v \in stack.volumes <=> \E m \in modules : v \in volumes(m)
  <2>1. {n \in modules : RenderErrors(n) = {}} = modules
    BY <1>3
  <2> QED BY <1>1, <2>1
<1>6. DOMAIN stack.services = DOMAIN services
  BY <1>1
<1> QED BY <1>1, <1>3, <1>4, <1>5, <1>6 DEF IsComposed, services, rendered, needs, routes, volumes

\* The service `name` of a Compose file is made from the template `s` of `m`.
IsFrom(plan, name, m, s) ==
    /\ m \in Range(plan.modules) /\ s \in ServicesOf(m, InProduction(plan))
    /\ name = ComposeServiceName(m.id, s)
    /\ ComposeServices(plan)[name] = RenderService(m, s, InProduction(plan), OwnedVolumes(plan))

(* The services of a Compose file and the templates they come from.        *)
LEMMA ServicesComeFrom ==
    ASSUME NEW plan, IsLinked(plan.modules), NEW stack, IsComposed(plan, stack)
    PROVE  /\ \A m \in Range(plan.modules) :
                 RenderedNames(plan)[m.id] = FullServices(m, InProduction(plan))
           /\ \A m \in Range(plan.modules) : FullServices(m, InProduction(plan)) \subseteq DOMAIN stack.services
           /\ \A n \in DOMAIN stack.services : \E m, s : IsFrom(plan, n, m, s)
<1> DEFINE modules == plan.modules
           production == InProduction(plan)
           names == DOMAIN stack.services
           rendered == RenderedNames(plan)
           own(n) == {i \in DOMAIN modules : RenderErrors(modules[i]) = {} /\ n \in FullServices(modules[i], production)}
<1>1. /\ IdsDiffer(modules) /\ \A m \in Range(modules) : RenderErrors(m) = {}
      /\ names = DOMAIN ComposeServices(plan)
  BY DEF IsLinked, IsComposed
<1>2. PICK last \in Nat : DOMAIN modules = 1 .. last
  BY DEF IsLinked
<1>3. ASSUME NEW m \in Range(modules)
      PROVE  m.id \in IdsOf(modules) /\ rendered[m.id] = FullServices(m, production)
  <2>1. m.id \in IdsOf(modules)
    BY DEF IdsOf, Range
  <2>2. {n \in Range(modules) : n.id = m.id /\ RenderErrors(n) = {}} = {m}
    BY <1>1 DEF IdsDiffer, Range
  <2>3. rendered[m.id] = UNION {FullServices(n, production) :
                                  n \in {k \in Range(modules) : k.id = m.id /\ RenderErrors(k) = {}}}
    BY <2>1 DEF RenderedNames
  <2> QED BY <2>1, <2>2, <2>3
<1>4. names = UNION {rendered[id] : id \in IdsOf(modules)}
  BY <1>1 DEF ComposeServices
<1>5. \A id \in IdsOf(modules) : \E i \in DOMAIN modules : id = modules[i].id /\ modules[i] \in Range(modules)
  BY DEF IdsOf, Range
<1> HIDE DEF rendered, names
<1>6. \A m \in Range(modules) : FullServices(m, production) \subseteq names
  BY <1>3, <1>4
<1>7. ASSUME NEW n \in names PROVE \E m, s : IsFrom(plan, n, m, s)
  <2>1. PICK id \in IdsOf(modules) : n \in rendered[id]
    BY <1>4
  <2>2. PICK i \in DOMAIN modules : id = modules[i].id /\ modules[i] \in Range(modules)
    BY <1>5
  <2>3. own(n) \in SUBSET (1 .. last) /\ own(n) # {}
    BY <1>1, <1>2, <1>3, <2>1, <2>2
  <2> DEFINE k == CHOOSE j \in own(n) : \A h \in own(n) : h <= j
             m == modules[k]
             s == TemplateOf(m, n, production)
  <2>4. k \in own(n)
    <3> HIDE DEF own
    <3> QED BY <1>2, <2>3, LastPlace
  <2>5. m = OwnerOf(plan, n)
    BY DEF OwnerOf
  <2> HIDE DEF k
  <2>6. m \in Range(modules) /\ n \in FullServices(m, production)
    BY <2>4 DEF Range
  <2>7. s \in ServicesOf(m, production) /\ n = ComposeServiceName(m.id, s)
    BY <2>6 DEF FullServices, TemplateOf
  <2>8. ComposeServices(plan)[n] = RenderService(m, s, production, OwnedVolumes(plan))
    <3>1. n \in DOMAIN ComposeServices(plan)
      BY <1>1 DEF names
    <3>2. ComposeServices(plan)[n] =
             RenderService(OwnerOf(plan, n), TemplateOf(OwnerOf(plan, n), n, production), production, OwnedVolumes(plan))
      BY <3>1 DEF ComposeServices
    <3> QED BY <2>5, <3>2
  <2> QED BY <2>6, <2>7, <2>8 DEF IsFrom
<1> QED BY <1>3, <1>6, <1>7 DEF rendered, names

(* The modules that references lead to.                                    *)
LEMMA LinkedIs ==
    ASSUME NEW modules, IsLinked(modules)
    PROVE  /\ \A m \in Range(modules) : m.id \in IdsOf(modules) /\ Instance(modules, m.id) = m
           /\ \A id \in IdsOf(modules) : Instance(modules, id) \in Range(modules) /\ Instance(modules, id).id = id
           /\ \A m, n \in Range(modules) : m.id = n.id => m = n
<1>1. \A i \in DOMAIN modules : Instance(modules, modules[i].id) = modules[i]
  BY InstanceIs DEF IsLinked
<1> QED BY <1>1 DEF Range, IdsOf

(* A route leads to a service of the module that it names.                 *)
LEMMA RoutesLead ==
    ASSUME NEW plan, IsLinked(plan.modules), NEW stack, IsComposed(plan, stack), NEW r \in stack.routes
    PROVE  r[2] \in DOMAIN stack.services /\ r[1] \in IdsOf(plan.modules)
<1> DEFINE modules == plan.modules
           rendered == RenderedNames(plan)
           contracts(m) == BoundContracts(m)
           good(m) == {x \in Range(RoutesOf(m)) : RouteErrors(m, x, rendered) = {}}
           routes(m) == {<<m.id, Backend(contracts(m)[x], x)>> : x \in good(m)}
<1>1. stack.routes = UNION {routes(m) : m \in {n \in Range(modules) : IsProxy(n)}}
  BY DEF IsComposed, Routes
<1> HIDE DEF routes
<1>2. PICK m \in Range(modules) : r \in routes(m)
  BY <1>1
<1>3. PICK x \in good(m) : r = <<m.id, Backend(contracts(m)[x], x)>>
  BY <1>2 DEF routes
<1>4. x \in DOMAIN contracts(m) /\ r[2] \in rendered[x[1]]
  BY <1>3 DEF RouteErrors, When
<1>5. PICK b \in AllBindings(m) : b.ref = x
  <2>1. DOMAIN contracts(m) = {b.ref : b \in AllBindings(m)}
    BY DEF BoundContracts, AllBindings
  <2> QED BY <1>4, <2>1
<1>6. x[1] \in IdsOf(modules)
  BY <1>5 DEF IsLinked
<1> HIDE DEF rendered
<1>7. rendered[x[1]] \subseteq DOMAIN stack.services
  <2>1. Instance(modules, x[1]) \in Range(modules) /\ Instance(modules, x[1]).id = x[1]
    BY <1>6, LinkedIs
  <2> QED BY <2>1, ServicesComeFrom DEF rendered
<1> QED BY <1>3, <1>4, <1>7, LinkedIs

(* What a module is bound to answers, if its module has any service.       *)
LEMMA HostsAnswer ==
    ASSUME NEW plan, IsLinked(plan.modules), NEW stack, IsComposed(plan, stack),
           NEW m \in Range(plan.modules), NEW b \in AllBindings(m),
           ServicesOf(Instance(plan.modules, b.ref[1]), InProduction(plan)) # {}
    PROVE  HostCandidates(b.ref[1], b.contract) \subseteq DOMAIN stack.services
<1> DEFINE k == Instance(plan.modules, b.ref[1])
           answers == FullServices(k, InProduction(plan))
<1>1. /\ b.ref[1] \in IdsOf(plan.modules) /\ b.ref[2] \in DOMAIN k.provides
      /\ b.contract = k.provides[b.ref[2]]
  BY DEF IsLinked
<1>2. k \in Range(plan.modules) /\ k.id = b.ref[1]
  BY <1>1, LinkedIs
<1>3. answers # {}
  BY DEF FullServices
<1> HIDE DEF k, answers
<1>4. HostErrors(k, answers) = {} /\ answers \subseteq DOMAIN stack.services
  BY <1>2, ServicesComeFrom DEF IsComposed, answers
<1>5. \A n \in DOMAIN k.provides : HostCandidates(k.id, k.provides[n]) \subseteq answers
  BY <1>3, <1>4 DEF HostErrors, When
<1> QED BY <1>1, <1>2, <1>4, <1>5

\* What a service of a template waits for: another one of the template, which
\* has a check of its health if that is waited for.
NeedsOwn(m, production, s, t, condition) ==
    /\ t \in ServicesOf(m, production)
    /\ t \in DOMAIN Merged(m.def.services[s], production).needs
    /\ condition = "service_healthy" => Merged(m.def.services[t], production).healthy

(* What the template of a service says that it waits for is in the file.   *)
LEMMA OwnNeeds ==
    ASSUME NEW plan, IsLinked(plan.modules), NEW n, NEW m, NEW s, IsFrom(plan, n, m, s),
           NEW needs, needs = ComposeServices(plan)[n].needs, NEW d \in DOMAIN needs
    PROVE  \E t : d = ComposeServiceName(m.id, t) /\ NeedsOwn(m, InProduction(plan), s, t, needs[d])
<1> DEFINE production == InProduction(plan)
           of(x) == Merged(m.def.services[x], production)
           t == CHOOSE x \in DOMAIN of(s).needs : ComposeServiceName(m.id, x) = d
<1>1. m \in Range(plan.modules) /\ s \in ServicesOf(m, production)
  BY DEF IsFrom
<1>2. production \in BOOLEAN
  BY DEF InProduction
<1>3. needs = Needs(m, of(s).needs)
  BY DEF IsFrom, RenderService
<1> HIDE DEF production, of
<1>4. \E x \in DOMAIN of(s).needs : ComposeServiceName(m.id, x) = d
  BY <1>3 DEF Needs
<1>5. t \in DOMAIN of(s).needs /\ d = ComposeServiceName(m.id, t)
  BY <1>4
<1>6. needs[d] = of(s).needs[t]
  BY <1>3 DEF Needs
<1> HIDE DEF t
<1>7. /\ t \in DOMAIN m.def.services /\ ~Dropped(m.def.services[t], production)
      /\ m.def.services[t].gate \in {NoGate, m.def.services[s].gate}
      /\ of(s).needs[t] = "service_healthy" => of(t).healthy
  <2>1. IsComposable(m.def)
    BY <1>1 DEF IsLinked
  <2>2. s \in DOMAIN m.def.services /\ ~Dropped(m.def.services[s], production)
    BY <1>1 DEF ServicesOf, Kept
  <2> QED BY <1>2, <1>5, <2>1, <2>2 DEF IsComposable, of
<1>8. t \in ServicesOf(m, production)
  BY <1>1, <1>7 DEF ServicesOf, Kept, Disabled
<1> QED BY <1>5, <1>6, <1>7, <1>8 DEF NeedsOwn, of, production

\* A service waits for one of a module that its own depends on.
Awaits(plan, stack, n, d) ==
    \E k, j \in Range(plan.modules) :
        /\ n \in FullServices(k, InProduction(plan)) /\ j.id \in Range(k.dependsOn)
        /\ d \in FullServices(j, InProduction(plan)) /\ stack.services[d].healthy

(* What a service of a Compose file waits for.                             *)
LEMMA NeedIs ==
    ASSUME NEW plan, IsLinked(plan.modules), NEW stack, IsComposed(plan, stack),
           NEW n \in DOMAIN stack.services, NEW m, NEW s, IsFrom(plan, n, m, s),
           NEW d \in DOMAIN stack.services[n].needs
    PROVE  \/ Awaits(plan, stack, n, d)
           \/ \E t : /\ d = ComposeServiceName(m.id, t)
                     /\ NeedsOwn(m, InProduction(plan), s, t, stack.services[n].needs[d])
<1> DEFINE modules == plan.modules
           rendered == RenderedNames(plan)
           services == ComposeServices(plan)
           own == services[n].needs
           awaited == Awaited(n, modules, rendered, services)
<1>1. stack.services[n].needs = Override(own, Constantly(awaited, "service_healthy"))
  BY DEF IsComposed
<1>2. \A m1 \in Range(modules) : rendered[m1.id] = FullServices(m1, InProduction(plan))
  BY ServicesComeFrom
<1>3. DOMAIN rendered = IdsOf(modules)
  BY DEF RenderedNames
<1>4. CASE d \in awaited
  <2> DEFINE owners == {k \in Range(modules) : n \in rendered[k.id]}
             depends == (UNION {Range(k.dependsOn) : k \in owners}) \cap DOMAIN rendered
  <2>1. awaited = {e \in UNION {rendered[id] : id \in depends} : services[e].healthy /\ ~services[e].profiled}
    BY DEF Awaited
  <2> HIDE DEF awaited, rendered, services
  <2>2. PICK id \in depends : d \in rendered[id] /\ services[d].healthy
    BY <1>4, <2>1
  <2>3. PICK k \in owners : id \in Range(k.dependsOn)
    BY <2>2
  <2> DEFINE j == Instance(modules, id)
  <2>4. j \in Range(modules) /\ j.id = id
    BY <1>3, <2>2, LinkedIs
  <2> HIDE DEF j
  <2>5. d \in FullServices(j, InProduction(plan)) /\ n \in FullServices(k, InProduction(plan))
    BY <1>2, <2>2, <2>3, <2>4
  <2>6. stack.services[d].healthy
    <3>1. d \in DOMAIN stack.services
      BY <2>4, <2>5, ServicesComeFrom
    <3> QED BY <2>2, <3>1 DEF IsComposed, services
  <2> QED BY <2>3, <2>4, <2>5, <2>6 DEF Awaits
<1>5. CASE d \notin awaited
  <2> HIDE DEF awaited, own
  <2>1. d \in DOMAIN own /\ stack.services[n].needs[d] = own[d]
    BY <1>1, <1>5 DEF Override, Constantly
  <2> QED BY <2>1, OwnNeeds DEF own, services
<1> QED BY <1>4, <1>5

(* Unless names collide, a full name is of one service of one module.      *)
LEMMA OneOwner ==
    ASSUME NEW modules, IsLinked(modules), ~Colliding(modules),
           NEW m \in Range(modules), NEW k \in Range(modules),
           NEW s \in DOMAIN m.def.services, NEW t \in DOMAIN k.def.services,
           ComposeServiceName(m.id, s) = ComposeServiceName(k.id, t)
    PROVE  m = k /\ s = t
<1> DEFINE name == ComposeServiceName(m.id, s)
<1>1. /\ IsList(name) /\ IsPrefix(PartsOf(m.id), name) /\ IsPrefix(PartsOf(k.id), name)
      /\ IsList(PartsOf(m.id)) /\ IsList(PartsOf(k.id))
  BY FullNameIs, PartsAreListed
<1> HIDE DEF name
<1>2. IsPrefix(PartsOf(m.id), PartsOf(k.id)) \/ IsPrefix(PartsOf(k.id), PartsOf(m.id))
  BY <1>1, PrefixesOfOne
<1>3. m.id = k.id
  BY <1>2 DEF Colliding, Clashing
<1>4. m = k
  BY <1>3, LinkedIs
<1> QED BY <1>4 DEF Colliding

(* So what a service of the file is made from is the template of its name. *)
LEMMA NameIsFrom ==
    ASSUME NEW plan, IsLinked(plan.modules), ~Colliding(plan.modules),
           NEW stack, IsComposed(plan, stack),
           NEW m \in Range(plan.modules), NEW s \in ServicesOf(m, InProduction(plan)),
           NEW n, n = ComposeServiceName(m.id, s)
    PROVE  n \in DOMAIN stack.services /\ IsFrom(plan, n, m, s)
<1>1. n \in FullServices(m, InProduction(plan))
  BY DEF FullServices
<1>2. n \in DOMAIN stack.services
  BY <1>1, ServicesComeFrom
<1>3. PICK k : \E t : IsFrom(plan, n, k, t)
  BY <1>2, ServicesComeFrom
<1>4. PICK t : IsFrom(plan, n, k, t)
  BY <1>3
<1>5. /\ k \in Range(plan.modules) /\ n = ComposeServiceName(k.id, t)
      /\ t \in DOMAIN k.def.services /\ s \in DOMAIN m.def.services
  BY <1>4 DEF IsFrom, ServicesOf
<1>6. m = k /\ s = t
  BY <1>5, OneOwner
<1> QED BY <1>2, <1>4, <1>6

(* What a service waits for is in the file.                                *)
LEMMA NeedsAreThere ==
    ASSUME NEW plan, IsLinked(plan.modules), NEW stack, IsComposed(plan, stack),
           NEW n \in DOMAIN stack.services, NEW d \in DOMAIN stack.services[n].needs
    PROVE  d \in DOMAIN stack.services
<1>1. PICK m : \E s : IsFrom(plan, n, m, s)
  BY ServicesComeFrom
<1>2. PICK s : IsFrom(plan, n, m, s)
  BY <1>1
<1>3. \/ Awaits(plan, stack, n, d)
      \/ \E t : /\ d = ComposeServiceName(m.id, t)
                /\ NeedsOwn(m, InProduction(plan), s, t, stack.services[n].needs[d])
  BY <1>2, NeedIs
<1>4. \E j \in Range(plan.modules) : d \in FullServices(j, InProduction(plan))
  BY <1>2, <1>3 DEF Awaits, NeedsOwn, FullServices, IsFrom
<1> QED BY <1>4, ServicesComeFrom

(* What it waits for the health of has a check of it.                      *)
LEMMA AwaitedAreHealthy ==
    ASSUME NEW plan, IsLinked(plan.modules), ~Colliding(plan.modules),
           NEW stack, IsComposed(plan, stack),
           NEW n \in DOMAIN stack.services, NEW d \in DOMAIN stack.services[n].needs,
           stack.services[n].needs[d] = "service_healthy",
           d \notin Unwatched(plan.modules, InProduction(plan))
    PROVE  stack.services[d].healthy
<1> DEFINE production == InProduction(plan)
<1>1. PICK m : \E s : IsFrom(plan, n, m, s)
  BY ServicesComeFrom
<1>2. PICK s : IsFrom(plan, n, m, s)
  BY <1>1
<1>3. \/ Awaits(plan, stack, n, d)
      \/ \E t : d = ComposeServiceName(m.id, t) /\ NeedsOwn(m, production, s, t, stack.services[n].needs[d])
  BY <1>2, NeedIs
<1>4. SUFFICES ASSUME ~Awaits(plan, stack, n, d) PROVE stack.services[d].healthy
  BY DEF Awaits
<1>5. PICK t : d = ComposeServiceName(m.id, t) /\ NeedsOwn(m, production, s, t, stack.services[n].needs[d])
  BY <1>3, <1>4
<1> DEFINE service == Merged(m.def.services[t], production)
<1>6. m \in Range(plan.modules) /\ t \in ServicesOf(m, production) /\ service.healthy
  BY <1>2, <1>5 DEF IsFrom, NeedsOwn
<1>7. d \in DOMAIN stack.services /\ IsFrom(plan, d, m, t)
  BY <1>5, <1>6, NameIsFrom
<1>8. ~Disabled(service.healthGate, m.config)
  <2>1. t \in DOMAIN m.def.services
    BY <1>6 DEF ServicesOf
  <2> QED BY <1>5, <1>6, <2>1 DEF Unwatched
<1>9. ComposeServices(plan)[d].healthy = (service.healthy /\ ~Disabled(service.healthGate, m.config))
  <2>1. ComposeServices(plan)[d] = RenderService(m, t, production, OwnedVolumes(plan))
    BY <1>7 DEF IsFrom
  <2> QED BY <2>1 DEF RenderService
<1>10. stack.services[d].healthy = ComposeServices(plan)[d].healthy
  BY <1>7 DEF IsComposed
<1> QED BY <1>6, <1>8, <1>9, <1>10

(***************************************************************************)
(* No services wait for each other in a circle: of the modules that have   *)
(* services in one, the first to be started depends on none of the others, *)
(* so its services in the circle would wait for its own only, and the      *)
(* template of a module has no circle.                                     *)
(***************************************************************************)
LEMMA NoneWaitInACircle ==
    ASSUME NEW plan, IsLinked(plan.modules), ~Colliding(plan.modules),
           NEW stack, IsComposed(plan, stack),
           NEW S \in SUBSET DOMAIN stack.services, S # {}
    PROVE  \E n \in S : DOMAIN stack.services[n].needs \cap S = {}
<1>0. SUFFICES ASSUME ~\E n \in S : DOMAIN stack.services[n].needs \cap S = {} PROVE FALSE
  OBVIOUS
<1> DEFINE modules == plan.modules
           production == InProduction(plan)
           M == {m.id : m \in {k \in Range(modules) : FullServices(k, production) \cap S # {}}}
<1>1. \A k \in Range(modules) : k.id \in IdsOf(modules) /\ Instance(modules, k.id) = k
  BY LinkedIs
<1>2. M \in (SUBSET IdsOf(modules)) \ {{}}
  <2>1. PICK n \in S : TRUE
    OBVIOUS
  <2>2. PICK m : \E s : IsFrom(plan, n, m, s)
    BY ServicesComeFrom
  <2>3. m \in Range(modules) /\ n \in FullServices(m, production)
    BY <2>2 DEF IsFrom, FullServices
  <2> QED BY <1>1, <2>1, <2>3
<1>3. PICK id \in M : Range(Instance(modules, id).dependsOn) \cap M = {}
  BY <1>2 DEF IsLinked
<1>4. PICK k \in Range(modules) : id = k.id /\ FullServices(k, production) \cap S # {}
  BY <1>3
<1>5. Range(k.dependsOn) \cap M = {}
  BY <1>1, <1>3, <1>4
<1> DEFINE T == {t \in ServicesOf(k, production) : ComposeServiceName(k.id, t) \in S}
           there == {s \in DOMAIN k.def.services : ~Dropped(k.def.services[s], production)}
           needs(s) == DOMAIN Merged(k.def.services[s], production).needs
<1>6. T \in (SUBSET there) \ {{}}
  BY <1>4 DEF FullServices, ServicesOf, Kept
<1>7. ASSUME NEW t \in T PROVE needs(t) \cap T # {}
  <2> DEFINE n == ComposeServiceName(k.id, t)
  <2>1. PICK d \in S : d \in DOMAIN stack.services[n].needs
    <3>1. n \in S
      OBVIOUS
    <3> HIDE DEF n
    <3>2. DOMAIN stack.services[n].needs \cap S # {}
      BY <1>0, <3>1
    <3> QED BY <3>2
  <2>2. n \in DOMAIN stack.services /\ IsFrom(plan, n, k, t)
    BY NameIsFrom
  <2>3. \/ Awaits(plan, stack, n, d)
        \/ \E x : d = ComposeServiceName(k.id, x) /\ NeedsOwn(k, production, t, x, stack.services[n].needs[d])
    BY <2>1, <2>2, NeedIs
  <2>4. ~Awaits(plan, stack, n, d)
    <3>1. SUFFICES ASSUME Awaits(plan, stack, n, d) PROVE FALSE
      OBVIOUS
    <3>2. PICK c \in Range(modules) : \E j \in Range(modules) :
             /\ n \in FullServices(c, production) /\ j.id \in Range(c.dependsOn)
             /\ d \in FullServices(j, production)
      BY <3>1 DEF Awaits
    <3>3. PICK j \in Range(modules) :
             /\ n \in FullServices(c, production) /\ j.id \in Range(c.dependsOn)
             /\ d \in FullServices(j, production)
      BY <3>2
    <3>4. PICK s \in ServicesOf(c, production) : n = ComposeServiceName(c.id, s)
      BY <3>3 DEF FullServices
    <3>5. c = k
      BY <3>4, OneOwner DEF ServicesOf
    <3>6. j.id \in M
      BY <2>1, <3>3
    <3> QED BY <1>5, <3>3, <3>5, <3>6
  <2>5. PICK x : d = ComposeServiceName(k.id, x) /\ NeedsOwn(k, production, t, x, stack.services[n].needs[d])
    BY <2>3, <2>4
  <2> QED BY <2>1, <2>5 DEF NeedsOwn
<1>8. \A U \in (SUBSET there) \ {{}} : \E s \in U : needs(s) \cap U = {}
  <2>1. IsComposable(k.def) /\ production \in BOOLEAN
    BY DEF IsLinked, InProduction
  <2> HIDE DEF production
  <2> QED BY <2>1 DEF IsComposable, Circular
<1> HIDE DEF T, there, needs
<1>9. \E s \in T : needs(s) \cap T = {}
  BY <1>6, <1>8
<1> QED BY <1>7, <1>9

(* The volumes that modules own are those of their templates, under their  *)
(* full names.                                                             *)
LEMMA OwnedIs ==
    ASSUME NEW plan, NEW name
    PROVE  name \in OwnedVolumes(plan) <=>
              \E k \in Range(plan.modules) : \E v \in DOMAIN k.def.volumes : name = VolumeName(k.id, v)
<1> DEFINE owned(m) == {v.host : v \in DeclaredVolumes(m)}
<1>1. OwnedVolumes(plan) = UNION {owned(m) : m \in Range(plan.modules)}
  BY DEF OwnedVolumes
<1>2. ASSUME NEW m PROVE name \in owned(m) <=> \E v \in DOMAIN m.def.volumes : name = VolumeName(m.id, v)
  <2>1. \A v : Host(VolumeName(m.id, v)).host = VolumeName(m.id, v)
    BY DEF Host
  <2> QED BY <2>1 DEF DeclaredVolumes
<1> HIDE DEF owned
<1> QED BY <1>1, <1>2

(* A volume of a module that no environment takes away is in the file, or  *)
(* its own gate is off.                                                    *)
LEMMA VolumeIsThere ==
    ASSUME NEW plan, NEW stack, IsComposed(plan, stack), NEW k \in Range(plan.modules),
           NEW v \in DOMAIN k.def.volumes, ~Dropped(k.def.volumes[v], InProduction(plan))
    PROVE  VolumeName(k.id, v) \in stack.volumes \cup GatedVolumes(plan.modules)
<1>1. CASE Disabled(k.def.volumes[v].gate, k.config)
  BY <1>1 DEF GatedVolumes
<1>2. CASE ~Disabled(k.def.volumes[v].gate, k.config)
  <2>1. v \in VolumesOf(k, InProduction(plan))
    BY <1>2 DEF VolumesOf, Kept
  <2> QED BY <2>1 DEF IsComposed
<1> QED BY <1>1, <1>2

(* A mount of a volume of the module's own.                                *)
LEMMA OwnMountIsThere ==
    ASSUME NEW plan, IsLinked(plan.modules), ~Colliding(plan.modules),
           NEW stack, IsComposed(plan, stack),
           NEW m \in Range(plan.modules), NEW s \in ServicesOf(m, InProduction(plan)),
           NEW x \in MountsOf(m, Merged(m.def.services[s], InProduction(plan)), InProduction(plan)),
           x.volume # NoPath
    PROVE  Mounted(m, x, OwnedVolumes(plan)) \in stack.volumes \cup GatedVolumes(plan.modules)
<1> DEFINE production == InProduction(plan)
<1>1. IsComposable(m.def) /\ production \in BOOLEAN
  BY DEF IsLinked, InProduction
<1> HIDE DEF production
<1>2. s \in DOMAIN m.def.services /\ ~Dropped(m.def.services[s], production)
  BY DEF ServicesOf, Kept, production
<1>3. x \in Merged(m.def.services[s], production).mounts /\ ~Dropped(x, production)
  BY DEF MountsOf, Kept, production
<1>4. x.volume \in DOMAIN m.def.volumes /\ ~Dropped(m.def.volumes[x.volume], production)
  BY <1>1, <1>2, <1>3 DEF IsComposable
<1>5. PartsOf(x.volume) \notin OwnedVolumes(plan)
  BY <1>4, OwnedIs DEF Colliding
<1>6. Mounted(m, x, OwnedVolumes(plan)) = VolumeName(m.id, x.volume)
  BY <1>5 DEF Mounted, VolumeName
<1> QED BY <1>4, <1>6, VolumeIsThere DEF production

(* A mount of the volume that a binding names.                             *)
LEMMA BoundMountIsThere ==
    ASSUME NEW plan, IsLinked(plan.modules), IsWired(plan.modules),
           NEW stack, IsComposed(plan, stack),
           NEW m \in Range(plan.modules), NEW service,
           NEW x \in MountsOf(m, service, InProduction(plan)), x.volume = NoPath
    PROVE  Mounted(m, x, OwnedVolumes(plan)) \in stack.volumes \cup GatedVolumes(plan.modules)
<1> DEFINE specs == BoundSpecs(m)
           spec == specs[x.binding]
           b == m.consumes[x.binding].bound[1]
<1>1. "volume" \in DOMAIN At(specs, x.binding, Nothing)
  BY DEF MountsOf
<1>2. x.binding \in DOMAIN specs /\ "volume" \in DOMAIN spec
  <2> HIDE DEF specs
  <2> QED BY <1>1 DEF At, Nothing
<1>3. x.binding \in {n \in DOMAIN m.consumes : ~m.consumes[n].many} /\ spec = b.contract.spec
  BY <1>2 DEF BoundSpecs
<1>4. b \in AllBindings(m)
  <2>1. b \in SingleBindings(m)
    BY <1>3 DEF SingleBindings
  <2> HIDE DEF b
  <2> QED BY <2>1 DEF IsWired
<1> HIDE DEF b, spec, specs
<1>5. Lasting(spec["volume"], plan.modules)
  BY <1>2, <1>3, <1>4 DEF IsLinked
<1>6. PICK k \in Range(plan.modules) : \E v \in DOMAIN k.def.volumes :
          /\ spec["volume"] = Host(VolumeName(k.id, v))
          /\ \A production \in BOOLEAN : ~Dropped(k.def.volumes[v], production)
  BY <1>5 DEF Lasting
<1>7. PICK v \in DOMAIN k.def.volumes :
          /\ spec["volume"] = Host(VolumeName(k.id, v))
          /\ \A production \in BOOLEAN : ~Dropped(k.def.volumes[v], production)
  BY <1>6
<1>8. spec["volume"].host = VolumeName(k.id, v)
  BY <1>7 DEF Host
<1>9. VolumeName(k.id, v) \in OwnedVolumes(plan)
  BY OwnedIs
<1>10. Mounted(m, x, OwnedVolumes(plan)) = VolumeName(k.id, v)
  BY <1>8, <1>9 DEF Mounted, spec, specs
<1>11. ~Dropped(k.def.volumes[v], InProduction(plan))
  BY <1>7 DEF InProduction
<1> QED BY <1>10, <1>11, VolumeIsThere

(* What a service mounts.                                                  *)
LEMMA MountsAreThere ==
    ASSUME NEW plan, IsLinked(plan.modules), IsWired(plan.modules), ~Colliding(plan.modules),
           NEW stack, IsComposed(plan, stack), NEW n \in DOMAIN stack.services
    PROVE  stack.services[n].mounts \subseteq stack.volumes \cup GatedVolumes(plan.modules)
<1>1. PICK m : \E s : IsFrom(plan, n, m, s)
  BY ServicesComeFrom
<1>2. PICK s : IsFrom(plan, n, m, s)
  BY <1>1
<1> DEFINE external == OwnedVolumes(plan)
           service == Merged(m.def.services[s], InProduction(plan))
           mounts == MountsOf(m, service, InProduction(plan))
<1>3. /\ m \in Range(plan.modules) /\ s \in ServicesOf(m, InProduction(plan))
      /\ ComposeServices(plan)[n] = RenderService(m, s, InProduction(plan), external)
  BY <1>2 DEF IsFrom
<1>4. stack.services[n].mounts = {Mounted(m, x, external) : x \in mounts}
  BY <1>3 DEF IsComposed, RenderService
<1>5. ASSUME NEW x \in mounts PROVE Mounted(m, x, external) \in stack.volumes \cup GatedVolumes(plan.modules)
  BY <1>3, OwnMountIsThere, BoundMountIsThere
<1> HIDE DEF mounts
<1> QED BY <1>4, <1>5

(* A Compose file without errors of linked and wired modules is closed.    *)
LEMMA ComposedIsClosed ==
    ASSUME NEW plan, IsLinked(plan.modules), IsWired(plan.modules),
           NEW stack, IsComposed(plan, stack)
    PROVE  StackIsClosed(plan, stack)
<1> DEFINE names == DOMAIN stack.services
           needs(n) == DOMAIN stack.services[n].needs
           services(m) == ServicesOf(m, InProduction(plan))
<1>1. \A n \in names : needs(n) \subseteq names
  BY NeedsAreThere
<1>2. \A r \in stack.routes : r[2] \in names /\ r[1] \in IdsOf(plan.modules)
  BY RoutesLead
<1>3. \A m \in Range(plan.modules) : \A b \in AllBindings(m) :
         services(Instance(plan.modules, b.ref[1])) # {} => HostCandidates(b.ref[1], b.contract) \subseteq names
  BY HostsAnswer
<1>4. ASSUME ~Colliding(plan.modules)
      PROVE  /\ \A n \in names : \A d \in needs(n) \ Unwatched(plan.modules, InProduction(plan)) :
                   stack.services[n].needs[d] = "service_healthy" => stack.services[d].healthy
             /\ \A S \in (SUBSET names) \ {{}} : \E n \in S : needs(n) \cap S = {}
             /\ \A n \in names : stack.services[n].mounts \subseteq stack.volumes \cup GatedVolumes(plan.modules)
             /\ \A m \in Range(plan.modules) : \A s \in services(m) :
                   /\ ComposeServiceName(m.id, s) \in names
                   /\ stack.services[ComposeServiceName(m.id, s)].module = m.id
  <2>1. \A n \in names : \A d \in needs(n) \ Unwatched(plan.modules, InProduction(plan)) :
           stack.services[n].needs[d] = "service_healthy" => stack.services[d].healthy
    BY <1>4, AwaitedAreHealthy
  <2>2. \A S \in (SUBSET names) \ {{}} : \E n \in S : needs(n) \cap S = {}
    BY <1>4, NoneWaitInACircle
  <2>3. \A n \in names : stack.services[n].mounts \subseteq stack.volumes \cup GatedVolumes(plan.modules)
    BY <1>4, MountsAreThere
  <2>4. ASSUME NEW m \in Range(plan.modules), NEW s \in services(m), NEW n, n = ComposeServiceName(m.id, s)
        PROVE  n \in names /\ stack.services[n].module = m.id
    <3>1. n \in names /\ IsFrom(plan, n, m, s)
      BY <1>4, <2>4, NameIsFrom
    <3>2. stack.services[n].module = ComposeServices(plan)[n].module
      BY <3>1 DEF IsComposed
    <3> QED BY <3>1, <3>2 DEF IsFrom, RenderService
  <2> QED BY <2>1, <2>2, <2>3, <2>4
<1>5. ~Colliding(plan.modules) => ~Circular(names, needs)
  BY <1>4 DEF Circular
<1> QED BY <1>1, <1>2, <1>3, <1>4, <1>5 DEF StackIsClosed

(***************************************************************************)
(* The Compose file of a valid profile holds together (build_plan and      *)
(* render_compose).                                                        *)
(***************************************************************************)
THEOREM StackIsConsistent ==
    Spec => []StackHoldsTogether
<1>1. TypeOK => StackHoldsTogether
  <2> SUFFICES ASSUME TypeOK, NEW overlay \in Environs, NEW options \in OptionSets,
                      NEW plan, plan = PlanOf(overlay, options), Valid(overlay), plan.errors = {},
                      NEW stack, stack = RenderCompose(plan), stack.errors = {}
               PROVE  StackIsClosed(plan, stack)
    BY DEF StackHoldsTogether, ErrorFree
  <2> DEFINE modules == plan.modules
  <2>1. IsWired(modules) /\ IsLinked(modules)
    <3>1. \E doc, enabled, instances, planned, contracts :
              IsMade(modules, doc, options, enabled, instances, planned, contracts)
      BY ModulesAreMade
    <3> HIDE DEF modules
    <3> QED BY <3>1, PlanIsWired, PlanIsLinked
  <2>2. IsComposed(plan, stack)
    BY RenderedIsComposed
  <2> QED BY <2>1, <2>2, ComposedIsClosed
<1> QED BY <1>1, FilesStayDocuments, PTL

=============================================================================
