------------------------ MODULE LibraryCorpusProofs ------------------------
(***************************************************************************)
(* Proofs about LibraryCorpus, for any corpora, tables left by an earlier  *)
(* release, batch size and number of scripts: the types of the tables and  *)
(* of the transaction, that every path of the sitemap is answered, and     *)
(* that a script which reported success left whole what it was told to     *)
(* seed.  The last needs ScriptIInv, which says what a script has still to *)
(* do, and SeedIInv, which says of its transaction, committed or not, that *)
(* whatever it is done with is whole in it.                                *)
(***************************************************************************)
EXTENDS LibraryCorpus, FiniteSetTheorems, TLAPS

-----------------------------------------------------------------------------
(* Lists. *)

\* A list is a sequence of its elements, over an initial part of the numbers.
LEMMA ListIsSeq ==
    ASSUME NEW s, IsList(s)
    PROVE  /\ s \in Seq(ToSet(s)) /\ Len(s) \in Nat /\ DOMAIN s = 1..Len(s)
           /\ s = <<>> <=> Len(s) = 0
<1>1. Len(s) \in Nat /\ DOMAIN s = 1..Len(s) /\ s = [i \in 1..Len(s) |-> s[i]]
  BY DEF IsList
<1>2. \A i \in 1..Len(s) : s[i] \in ToSet(s) BY <1>1 DEF ToSet
<1>3. s \in [1..Len(s) -> ToSet(s)] BY <1>1, <1>2
<1>4. s \in Seq(ToSet(s)) BY <1>1, <1>3
<1> QED BY <1>1, <1>4

\* A sequence is a list.
LEMMA SeqIsList ==
    ASSUME NEW T, NEW s \in Seq(T)
    PROVE  IsList(s) /\ ToSet(s) \subseteq T
BY DEF IsList, ToSet

\* An element appended to a list.
LEMMA AppendList ==
    ASSUME NEW s, IsList(s), NEW x
    PROVE  /\ IsList(Append(s, x))
           /\ Len(Append(s, x)) = Len(s) + 1
           /\ DOMAIN Append(s, x) = DOMAIN s \cup {Len(s) + 1}
           /\ \A i \in DOMAIN s : Append(s, x)[i] = s[i]
           /\ Append(s, x)[Len(s) + 1] = x
           /\ ToSet(Append(s, x)) = ToSet(s) \cup {x}
<1> DEFINE T == ToSet(s) \cup {x}
<1>1. s \in Seq(ToSet(s)) /\ Len(s) \in Nat /\ DOMAIN s = 1..Len(s) BY ListIsSeq
<1>2. s \in Seq(T) /\ x \in T BY <1>1
<1> HIDE DEF T
<1>3. Append(s, x) \in Seq(T) BY <1>2
<1>4. /\ Len(Append(s, x)) = Len(s) + 1
      /\ DOMAIN Append(s, x) = 1..(Len(s) + 1)
      /\ \A i \in 1..Len(s) : Append(s, x)[i] = s[i]
      /\ Append(s, x)[Len(s) + 1] = x
  BY <1>1, <1>2
<1>5. IsList(Append(s, x)) BY <1>3, SeqIsList
<1>6. 1..(Len(s) + 1) = (1..Len(s)) \cup {Len(s) + 1} BY <1>1
<1>7. ToSet(Append(s, x)) = ToSet(s) \cup {x}
  <2>1. \A i \in DOMAIN Append(s, x) : Append(s, x)[i] \in ToSet(s) \cup {x}
    BY <1>1, <1>4, <1>6 DEF ToSet
  <2>2. \A i \in DOMAIN s : s[i] \in ToSet(Append(s, x))
    BY <1>1, <1>4, <1>6 DEF ToSet
  <2>3. x \in ToSet(Append(s, x)) BY <1>1, <1>4 DEF ToSet
  <2> QED BY <2>1, <2>2, <2>3 DEF ToSet
<1> QED BY <1>1, <1>4, <1>5, <1>6, <1>7

\* One list after the other.
LEMMA ConcatList ==
    ASSUME NEW s, IsList(s), NEW t, IsList(t)
    PROVE  IsList(s \o t) /\ ToSet(s \o t) = ToSet(s) \cup ToSet(t)
<1> DEFINE T == ToSet(s) \cup ToSet(t)
<1>1. /\ s \in Seq(ToSet(s)) /\ Len(s) \in Nat /\ DOMAIN s = 1..Len(s)
      /\ t \in Seq(ToSet(t)) /\ Len(t) \in Nat /\ DOMAIN t = 1..Len(t)
  BY ListIsSeq
<1>2. s \in Seq(T) /\ t \in Seq(T) BY <1>1
<1> HIDE DEF T
<1>3. s \o t \in Seq(T) BY <1>2
<1>4. /\ DOMAIN (s \o t) = 1..(Len(s) + Len(t))
      /\ \A i \in 1..(Len(s) + Len(t)) :
            (s \o t)[i] = IF i <= Len(s) THEN s[i] ELSE t[i - Len(s)]
  BY <1>1, <1>2
<1>5. IsList(s \o t) BY <1>3, SeqIsList
<1>6. ToSet(s \o t) \subseteq ToSet(s) \cup ToSet(t)
  BY <1>3, SeqIsList DEF T
<1>7. \A i \in DOMAIN s : s[i] \in ToSet(s \o t)
  BY <1>1, <1>4 DEF ToSet
<1>8. ASSUME NEW i \in DOMAIN t PROVE t[i] \in ToSet(s \o t)
  <2>1. Len(s) + i \in 1..(Len(s) + Len(t)) /\ ~(Len(s) + i <= Len(s)) /\ (Len(s) + i) - Len(s) = i
    BY <1>1
  <2> QED BY <1>4, <2>1 DEF ToSet
<1> QED BY <1>5, <1>6, <1>7, <1>8 DEF ToSet

\* The first element of a list, and the rest.
LEMMA TailList ==
    ASSUME NEW s, IsList(s), s # <<>>
    PROVE  /\ IsList(Tail(s)) /\ Head(s) = s[1] /\ 1 \in DOMAIN s
           /\ ToSet(s) = {Head(s)} \cup ToSet(Tail(s))
<1>1. s \in Seq(ToSet(s)) /\ Len(s) \in Nat /\ DOMAIN s = 1..Len(s) /\ Len(s) # 0 BY ListIsSeq
<1>2. Head(s) = s[1] /\ 1 \in DOMAIN s BY <1>1
<1>3. Tail(s) \in Seq(ToSet(s)) BY <1>1
<1>4. DOMAIN Tail(s) = 1..(Len(s) - 1) /\ \A i \in 1..(Len(s) - 1) : Tail(s)[i] = s[i + 1]
  BY <1>1
<1>5. IsList(Tail(s)) /\ ToSet(Tail(s)) \subseteq ToSet(s) BY <1>3, SeqIsList
<1>6. Head(s) \in ToSet(s) BY <1>2 DEF ToSet
<1>7. ASSUME NEW i \in DOMAIN s, i # 1 PROVE s[i] \in ToSet(Tail(s))
  <2>1. i - 1 \in 1..(Len(s) - 1) /\ (i - 1) + 1 = i BY <1>1, <1>7
  <2> QED BY <1>4, <2>1 DEF ToSet
<1> QED BY <1>2, <1>5, <1>6, <1>7 DEF ToSet

-----------------------------------------------------------------------------
(* Recursion over numbers. *)

\* A set of numbers has a least one.
LEMMA LeastNat ==
    ASSUME NEW S \in SUBSET Nat, S # {}
    PROVE  \E x \in S : \A y \in S : x <= y
<1> DEFINE R == OpToRel(<, Nat)
<1>1. IsWellFoundedOn(R, Nat) BY NatLessThanWellFounded
<1> HIDE DEF R
<1>2. PICK x \in S : \A y \in S : <<y, x>> \notin R BY <1>1, WFMin
<1>3. \A y \in S : ~(x <= y) => <<y, x>> \in R BY DEF R, OpToRel
<1> QED BY <1>2, <1>3

\* A set of numbers that holds 0 and every successor holds them all.
LEMMA NatSet ==
    ASSUME NEW S, 0 \in S, \A n \in Nat : n \in S => n + 1 \in S
    PROVE  Nat \subseteq S
<1> SUFFICES ASSUME Nat \ S # {} PROVE FALSE
  OBVIOUS
<1>1. PICK x \in Nat \ S : \A y \in Nat \ S : x <= y
  <2>1. Nat \ S \in SUBSET Nat OBVIOUS
  <2> QED BY <2>1, LeastNat
<1>2. x # 0 /\ x - 1 \in Nat /\ (x - 1) + 1 = x OBVIOUS
<1>3. x - 1 \in Nat \ S BY <1>2
<1> QED BY <1>1, <1>2, <1>3

\* FlattenSeq is defined by this function.
Flattened(seqs) == CHOOSE f : f =
    [i \in 1..Len(seqs) |-> IF i = 1 THEN seqs[i] ELSE f[i - 1] \o seqs[i]]

\* FlattenSeq is that function at the length of the list.
LEMMA UnrollFlatten ==
    ASSUME NEW seqs
    PROVE  FlattenSeq(seqs) = IF Len(seqs) = 0 THEN seqs ELSE Flattened(seqs)[Len(seqs)]
BY DEF FlattenSeq, Flattened

FlattenedUpTo(f, seqs, n) ==
    f = [i \in 1..n |-> IF i = 1 THEN seqs[i] ELSE f[i - 1] \o seqs[i]]

\* There is such a function, up to any length.
LEMMA FlattenedExists ==
    ASSUME NEW seqs, NEW n \in Nat
    PROVE  \E f : FlattenedUpTo(f, seqs, n)
<1> DEFINE V == {m \in Nat : \E f : FlattenedUpTo(f, seqs, m)}
<1>1. 0 \in V
  <2> DEFINE f == [i \in 1..0 |-> 0]
  <2>1. FlattenedUpTo(f, seqs, 0) BY DEF FlattenedUpTo
  <2> QED BY <2>1
<1>2. ASSUME NEW m \in Nat, m \in V PROVE m + 1 \in V
  <2>1. PICK f : FlattenedUpTo(f, seqs, m) BY <1>2
  <2> DEFINE g == [i \in 1..(m + 1) |-> IF i = 1 THEN seqs[i] ELSE f[i - 1] \o seqs[i]]
  <2>0. \A i \in 1..m : f[i] = IF i = 1 THEN seqs[i] ELSE f[i - 1] \o seqs[i]
    BY <2>1 DEF FlattenedUpTo
  <2>2. \A i \in 1..m : g[i] = f[i] BY <2>0
  <2>3. \A i \in 1..(m + 1) : i # 1 => i - 1 \in 1..m OBVIOUS
  <2>4. FlattenedUpTo(g, seqs, m + 1)
    <3>1. \A i \in 1..(m + 1) : g[i] = IF i = 1 THEN seqs[i] ELSE g[i - 1] \o seqs[i]
      BY <2>2, <2>3
    <3>2. DOMAIN g = 1..(m + 1) OBVIOUS
    <3>3. g = [i \in 1..(m + 1) |-> g[i]] OBVIOUS
    <3> HIDE DEF g
    <3> QED BY <3>1, <3>3 DEF FlattenedUpTo
  <2> QED BY <2>4
<1> HIDE DEF V
<1>3. n \in V BY <1>1, <1>2, NatSet
<1> QED BY <1>3 DEF V

\* A list of lists becomes the list of what is in them.
LEMMA FlattenList ==
    ASSUME NEW seqs, IsList(seqs), \A i \in DOMAIN seqs : IsList(seqs[i])
    PROVE  /\ IsList(FlattenSeq(seqs))
           /\ ToSet(FlattenSeq(seqs)) = UNION {ToSet(seqs[i]) : i \in DOMAIN seqs}
<1> DEFINE n == Len(seqs)
           f == Flattened(seqs)
           V == {k \in Nat : k \in 1..n =>
                    /\ IsList(f[k])
                    /\ ToSet(f[k]) = UNION {ToSet(seqs[i]) : i \in 1..k}}
<1>1. n \in Nat /\ DOMAIN seqs = 1..n /\ (seqs = <<>> <=> n = 0) BY ListIsSeq
<1>2. FlattenedUpTo(f, seqs, n)
  <2>1. \E g : FlattenedUpTo(g, seqs, n) BY <1>1, FlattenedExists
  <2>2. f = CHOOSE g : FlattenedUpTo(g, seqs, n) BY DEF Flattened, FlattenedUpTo
  <2> HIDE DEF f
  <2> QED BY <2>1, <2>2
<1> HIDE DEF f
<1>3. 0 \in V BY <1>1
<1>4. ASSUME NEW k \in Nat, k \in V PROVE k + 1 \in V
  <2> SUFFICES ASSUME k + 1 \in 1..n
               PROVE  /\ IsList(f[k + 1])
                      /\ ToSet(f[k + 1]) = UNION {ToSet(seqs[i]) : i \in 1..(k + 1)}
    OBVIOUS
  <2>1. IsList(seqs[k + 1]) BY <1>1
  <2>2. CASE k = 0
    <3>1. f[k + 1] = seqs[k + 1] BY <1>2, <2>2 DEF FlattenedUpTo
    <3>2. 1..(k + 1) = {k + 1} BY <2>2
    <3> QED BY <2>1, <3>1, <3>2
  <2>3. CASE k # 0
    <3>1. k \in 1..n /\ k + 1 # 1 /\ (k + 1) - 1 = k BY <1>1, <2>3
    <3>2. f[k + 1] = f[k] \o seqs[k + 1] BY <1>2, <3>1 DEF FlattenedUpTo
    <3>3. IsList(f[k]) /\ ToSet(f[k]) = UNION {ToSet(seqs[i]) : i \in 1..k}
      BY <1>4, <3>1
    <3>4. IsList(f[k + 1]) /\ ToSet(f[k + 1]) = ToSet(f[k]) \cup ToSet(seqs[k + 1])
      BY <2>1, <3>2, <3>3, ConcatList
    <3>5. 1..(k + 1) = (1..k) \cup {k + 1} OBVIOUS
    <3> QED BY <3>3, <3>4, <3>5
  <2> QED BY <2>2, <2>3
<1> HIDE DEF V
<1>5. n \in V BY <1>1, <1>3, <1>4, NatSet
<1>6. CASE n = 0
  <2>1. FlattenSeq(seqs) = seqs BY <1>6, UnrollFlatten
  <2> QED BY <1>1, <1>6, <2>1 DEF ToSet
<1>7. CASE n # 0
  <2>1. FlattenSeq(seqs) = f[n] BY <1>7, UnrollFlatten DEF f
  <2> QED BY <1>1, <1>5, <1>7, <2>1 DEF V
<1> QED BY <1>6, <1>7

\* The elements at some positions.
LEMMA AmongList ==
    ASSUME NEW s, IsList(s), NEW I
    PROVE  IsList(Among(s, I)) /\ ToSet(Among(s, I)) = {s[i] : i \in DOMAIN s \cap I}
<1> DEFINE parts == [i \in DOMAIN s |-> IF i \in I THEN <<s[i]>> ELSE <<>>]
<1>1. Len(s) \in Nat /\ DOMAIN s = 1..Len(s) BY ListIsSeq
<1>2. \A x : IsList(<<x>>) /\ ToSet(<<x>>) = {x} BY DEF IsList, ToSet
<1>3. IsList(<<>>) /\ ToSet(<<>>) = {} BY DEF IsList, ToSet
<1>4. \A i \in DOMAIN s : IsList(parts[i]) BY <1>2, <1>3
<1>5. IsList(parts)
  <2>1. parts \in Seq({parts[i] : i \in DOMAIN s}) BY <1>1
  <2> HIDE DEF parts
  <2> QED BY <2>1, SeqIsList
<1>6. DOMAIN parts = DOMAIN s OBVIOUS
<1>7. UNION {ToSet(parts[i]) : i \in DOMAIN s} = {s[i] : i \in DOMAIN s \cap I}
  <2>1. \A i \in DOMAIN s : ToSet(parts[i]) = IF i \in I THEN {s[i]} ELSE {} BY <1>2, <1>3
  <2> HIDE DEF parts
  <2> QED BY <2>1
<1>8. Among(s, I) = FlattenSeq(parts) BY DEF Among
<1> HIDE DEF parts
<1> QED BY <1>4, <1>5, <1>6, <1>7, <1>8, FlattenList

-----------------------------------------------------------------------------
(* The fold over the mined atoms. *)

Top(s) == CHOOSE x \in s : \A y \in s : x >= y

\* The greatest of finitely many positions.
LEMMA TopOf ==
    ASSUME NEW n \in Nat, NEW s \in SUBSET (1..n), s # {}
    PROVE  Top(s) \in s /\ \A y \in s : Top(s) >= y
<1> DEFINE T == {n - y : y \in s}
<1>1. \A y \in s : y \in Nat /\ n - y \in Nat OBVIOUS
<1>5. T \in SUBSET Nat /\ T # {} BY <1>1
<1>2. PICK m \in T : \A k \in T : m <= k
  <2> HIDE DEF T
  <2> QED BY <1>5, LeastNat
<1>3. PICK x \in s : m = n - x OBVIOUS
<1>4. ASSUME NEW y \in s PROVE x >= y
  <2>1. n - x <= n - y BY <1>2, <1>3
  <2> QED BY <1>1, <2>1
<1> QED BY <1>4 DEF Top

\* FoldLeft is defined by a CHOOSE of this function on sets of positions.
MinedFold(t, ds) == CHOOSE f : f =
    [s \in SUBSET DOMAIN ds |->
        IF s = {} THEN t ELSE UpsertMined(f[s \ {Top(s)}], ds[Top(s)])]

\* FoldLeft is that function at all the positions.
LEMMA UnrollMined ==
    ASSUME NEW t, NEW ds
    PROVE  FoldLeft(UpsertMined, t, ds) = MinedFold(t, ds)[DOMAIN ds]
BY DEF FoldLeft, MapThenFoldSet, Max, MinedFold, Top

MinedUpTo(f, t, ds, n) ==
    f = [s \in SUBSET (1..n) |->
            IF s = {} THEN t ELSE UpsertMined(f[s \ {Top(s)}], ds[Top(s)])]

\* There is such a function, up to any length.
LEMMA MinedExists ==
    ASSUME NEW t, NEW ds, NEW n \in Nat
    PROVE  \E f : MinedUpTo(f, t, ds, n)
<1> DEFINE V == {m \in Nat : \E f : MinedUpTo(f, t, ds, m)}
<1>1. 0 \in V
  <2> DEFINE f == [s \in SUBSET (1..0) |-> t]
  <2>1. \A s \in SUBSET (1..0) : s = {} OBVIOUS
  <2>2. \A s \in SUBSET (1..0) :
            f[s] = IF s = {} THEN t ELSE UpsertMined(f[s \ {Top(s)}], ds[Top(s)])
    BY <2>1
  <2>3. f = [s \in SUBSET (1..0) |-> f[s]] OBVIOUS
  <2> HIDE DEF f
  <2>4. MinedUpTo(f, t, ds, 0) BY <2>2, <2>3 DEF MinedUpTo
  <2> QED BY <2>4
<1>2. ASSUME NEW m \in Nat, m \in V PROVE m + 1 \in V
  <2>1. PICK f : MinedUpTo(f, t, ds, m) BY <1>2
  <2> DEFINE g == [s \in SUBSET (1..(m + 1)) |->
                      IF s = {} THEN t ELSE UpsertMined(f[s \ {Top(s)}], ds[Top(s)])]
  <2>2. \A s \in SUBSET (1..m) : s \in SUBSET (1..(m + 1)) OBVIOUS
  <2>3. \A s \in SUBSET (1..m) : g[s] = f[s] BY <2>1, <2>2 DEF MinedUpTo
  <2>4. ASSUME NEW s \in SUBSET (1..(m + 1)), s # {} PROVE s \ {Top(s)} \in SUBSET (1..m)
    <3>1. m + 1 \in Nat OBVIOUS
    <3>2. Top(s) \in s /\ \A y \in s : Top(s) >= y BY <2>4, <3>1, TopOf
    <3>3. ASSUME NEW y \in s, y # Top(s) PROVE y \in 1..m
      <4>1. Top(s) \in 1..(m + 1) /\ y \in 1..(m + 1) /\ Top(s) >= y BY <3>2
      <4> QED BY <3>3, <4>1
    <3> QED BY <3>3
  <2>5. \A s \in SUBSET (1..(m + 1)) :
            g[s] = IF s = {} THEN t ELSE UpsertMined(g[s \ {Top(s)}], ds[Top(s)])
    BY <2>3, <2>4
  <2>6. g = [s \in SUBSET (1..(m + 1)) |-> g[s]] OBVIOUS
  <2> HIDE DEF g
  <2>7. MinedUpTo(g, t, ds, m + 1) BY <2>5, <2>6 DEF MinedUpTo
  <2> QED BY <2>7
<1> HIDE DEF V
<1>3. n \in V BY <1>1, <1>2, NatSet
<1> QED BY <1>3 DEF V

\* Each step of the fold upserts the next of the list.
LEMMA MinedSolves ==
    ASSUME NEW t, NEW ds, IsList(ds)
    PROVE  LET f == MinedFold(t, ds) IN
           /\ f[1..0] = t
           /\ \A k \in 1..Len(ds) : f[1..k] = UpsertMined(f[1..(k - 1)], ds[k])
           /\ FoldLeft(UpsertMined, t, ds) = f[1..Len(ds)]
<1> DEFINE n == Len(ds)
           f == MinedFold(t, ds)
<1>1. n \in Nat /\ DOMAIN ds = 1..n BY ListIsSeq
<1>2. MinedUpTo(f, t, ds, n)
  <2>1. \E g : MinedUpTo(g, t, ds, n) BY <1>1, MinedExists
  <2>2. f = CHOOSE g : MinedUpTo(g, t, ds, n) BY <1>1 DEF MinedFold, MinedUpTo
  <2> HIDE DEF f
  <2> QED BY <2>1, <2>2
<1>3. FoldLeft(UpsertMined, t, ds) = f[1..n] BY <1>1, UnrollMined
<1> HIDE DEF f
<1>4. f[1..0] = t
  <2>1. 1..0 = {} /\ 1..0 \in SUBSET (1..n) OBVIOUS
  <2> QED BY <1>2, <2>1 DEF MinedUpTo
<1>5. ASSUME NEW k \in 1..n PROVE f[1..k] = UpsertMined(f[1..(k - 1)], ds[k])
  <2>1. 1..k \in SUBSET (1..n) /\ k \in 1..k BY <1>1
  <2>2. Top(1..k) \in 1..k /\ \A y \in 1..k : Top(1..k) >= y BY <1>1, <2>1, TopOf
  <2>3. Top(1..k) = k
    <3>1. Top(1..k) >= k BY <2>1, <2>2
    <3> QED BY <1>1, <2>2, <3>1
  <2>4. (1..k) \ {k} = 1..(k - 1) BY <1>1
  <2>5. 1..k # {} BY <2>1
  <2> QED BY <1>2, <2>1, <2>3, <2>4, <2>5 DEF MinedUpTo
<1> QED BY <1>3, <1>4, <1>5 DEF f
-----------------------------------------------------------------------------
(* Types. *)

RowFields == {"url", "dtcg", "public", "label", "fetched"}

Versions(vs) ==
    /\ IsList(vs)
    /\ \A v \in DOMAIN vs : DOMAIN vs[v] = RowFields /\ vs[v].fetched \in Nat

\* A transaction sees the committed versions as they are, and what it adds.
IsTxn(t) ==
    /\ DOMAIN t = {"versions", "components", "extractions", "jobs"}
    /\ Versions(t.versions)
    /\ \A v \in DOMAIN versions : v \in DOMAIN t.versions /\ t.versions[v] = versions[v]
    /\ IsList(t.jobs) /\ ToSet(t.jobs) \subseteq DOMAIN t.versions

OpFields == {"pc", "kind", "brand", "todo", "later", "batch", "seen", "failed",
             "scope", "result"}

Types ==
    /\ disk \in DOMAIN Corpora
    /\ runs \in Nat
    /\ Versions(versions)
    /\ IsList(queue) /\ ToSet(queue) \subseteq DOMAIN versions
    /\ DOMAIN worker = {"version", "lost", "read"}
    /\ worker.version \in {0} \cup DOMAIN versions
    /\ IsTxn(txn)
    /\ DOMAIN op = OpFields
    /\ op.pc \in {"idle", "deleted", "asset", "put", "mining", "draining"}
    /\ op.pc \in {"idle", "deleted", "draining"} => txn = NoTxn

\* What insert_or_reuse_asset_version does to the rows.
LEMMA InsertRow ==
    ASSUME NEW t, Versions(t.versions), runs \in Nat, NEW url, NEW dtcg, NEW label
    PROVE  LET got == InsertOrReuse(t, url, dtcg, label) IN
           /\ Versions(got.versions)
           /\ \A v \in DOMAIN t.versions :
                 v \in DOMAIN got.versions /\ got.versions[v] = t.versions[v]
           /\ got.id \in DOMAIN got.versions
           /\ got.versions[got.id].url = url /\ got.versions[got.id].dtcg = dtcg
<1> DEFINE same == {v \in DOMAIN t.versions : /\ t.versions[v].url = url
                                              /\ t.versions[v].dtcg = dtcg}
           row == [url |-> url, dtcg |-> dtcg, label |-> label, fetched |-> runs,
                   public |-> ~IsBrandSuppressed(LibrarySlug[url.system])]
           got == InsertOrReuse(t, url, dtcg, label)
<1>1. CASE same # {}
  <2>1. got = [id |-> CHOOSE v \in same : TRUE, versions |-> t.versions]
    BY <1>1 DEF InsertOrReuse
  <2>2. (CHOOSE v \in same : TRUE) \in same BY <1>1
  <2>3. got.versions = t.versions /\ got.id \in same BY <2>1, <2>2
  <2> HIDE DEF got
  <2>4. got.versions[got.id].url = url /\ got.versions[got.id].dtcg = dtcg BY <2>3
  <2> QED BY <2>3, <2>4 DEF got
<1>2. CASE same = {}
  <2>1. got = [id |-> Len(t.versions) + 1, versions |-> Append(t.versions, row)]
    BY <1>2 DEF InsertOrReuse
  <2>2. got.versions = Append(t.versions, row) /\ got.id = Len(t.versions) + 1
    BY <2>1
  <2>3. IsList(t.versions) BY DEF Versions
  <2>4. DOMAIN row = RowFields /\ row.fetched = runs /\ row.url = url /\ row.dtcg = dtcg
    BY DEF RowFields
  <2> HIDE DEF got, row
  <2>5. /\ IsList(got.versions)
        /\ DOMAIN got.versions = DOMAIN t.versions \cup {got.id}
        /\ \A i \in DOMAIN t.versions : got.versions[i] = t.versions[i]
        /\ got.versions[got.id] = row
    BY <2>2, <2>3, AppendList
  <2>6. Versions(got.versions) BY <2>4, <2>5 DEF Versions
  <2> QED BY <2>4, <2>5, <2>6 DEF got
<1> QED BY <1>1, <1>2

\* The jobs of a transaction after enqueue_for_asset_version.
LEMMA EnqueueType ==
    ASSUME NEW t, IsList(t.jobs), NEW v
    PROVE  /\ IsList(Enqueue(t, v)) /\ ToSet(Enqueue(t, v)) \subseteq ToSet(t.jobs) \cup {v}
           /\ ToSet(t.jobs) \subseteq ToSet(Enqueue(t, v))
           /\ Live(v) \/ v \in ToSet(Enqueue(t, v))
<1>1. CASE Live(v) \/ v \in ToSet(t.jobs) BY <1>1 DEF Enqueue
<1>2. CASE ~(Live(v) \/ v \in ToSet(t.jobs))
  <2>1. Enqueue(t, v) = Append(t.jobs, v) BY <1>2 DEF Enqueue
  <2> QED BY <2>1, AppendList
<1> QED BY <1>1, <1>2

\* upsert_extraction makes a transaction of a transaction.
LEMMA ExtractionType ==
    ASSUME NEW t, IsTxn(t), runs \in Nat, NEW pair, NEW zip
    PROVE  IsTxn(UpsertExtraction(t, pair, zip))
<1> DEFINE u == UpsertExtraction(t, pair, zip)
           got == InsertOrReuse(t, SourceUrl(pair), SeededBundle(pair), "bootstrap")
<1>1. /\ DOMAIN u = {"versions", "components", "extractions", "jobs"}
      /\ u.versions = got.versions /\ u.jobs = Enqueue(t, got.id)
  BY DEF UpsertExtraction
<1> HIDE DEF u
<1>2. /\ Versions(got.versions)
      /\ \A v \in DOMAIN t.versions :
            v \in DOMAIN got.versions /\ got.versions[v] = t.versions[v]
      /\ got.id \in DOMAIN got.versions
  BY InsertRow DEF IsTxn
<1> HIDE DEF got
<1>3. IsList(u.jobs) /\ ToSet(u.jobs) \subseteq ToSet(t.jobs) \cup {got.id}
  BY <1>1, EnqueueType DEF IsTxn
<1>4. IsTxn(u) BY <1>1, <1>2, <1>3 DEF IsTxn
<1> QED BY <1>4 DEF u

\* So does the upsert of a mined atom.
LEMMA MinedType ==
    ASSUME NEW t, IsTxn(t), runs \in Nat, NEW synthetic
    PROVE  IsTxn(UpsertMined(t, synthetic))
<1> DEFINE u == UpsertMined(t, synthetic)
           got == InsertOrReuse(t, synthetic.url, synthetic.dtcg, "mined")
<1>1. /\ DOMAIN u = {"versions", "components", "extractions", "jobs"}
      /\ u.versions = got.versions /\ u.jobs = Enqueue(t, got.id)
  <2>1. DOMAIN t = {"versions", "components", "extractions", "jobs"} BY DEF IsTxn
  <2>2. u = [t EXCEPT !.versions = got.versions,
                      !.components = InsertComponent(t, got.id, synthetic.component),
                      !.jobs = Enqueue(t, got.id)]
    BY DEF UpsertMined
  <2> HIDE DEF u, got
  <2> QED BY <2>1, <2>2
<1> HIDE DEF u
<1>2. /\ Versions(got.versions)
      /\ \A v \in DOMAIN t.versions :
            v \in DOMAIN got.versions /\ got.versions[v] = t.versions[v]
      /\ got.id \in DOMAIN got.versions
  BY InsertRow DEF IsTxn
<1> HIDE DEF got
<1>3. IsList(u.jobs) /\ ToSet(u.jobs) \subseteq ToSet(t.jobs) \cup {got.id}
  BY <1>1, EnqueueType DEF IsTxn
<1>4. IsTxn(u) BY <1>1, <1>2, <1>3 DEF IsTxn
<1> QED BY <1>4 DEF u

\* The corpus on disk is one of Corpora.
LEMMA CorpusIsCorpus ==
    ASSUME disk \in DOMAIN Corpora
    PROVE  IsCorpus(corpus)
BY CorpusAssumption DEF corpus, ToSet

\* The atoms of a system are a list.
LEMMA SyntheticsList ==
    ASSUME NEW system
    PROVE  IsList(MinedSynthetics(system))
<1> DEFINE open == Among(MineableClasses, {i \in DOMAIN MineableClasses :
                    LET c == MineableClasses[i] IN
                    c \notin StandaloneClasses(system) /\ WholesYielding(system, c) # <<>>})
           ms == MinedSynthetics(system)
<1>1. IsList(open) BY ClassesAssumption, AmongList
<1>2. DOMAIN open = 1..Len(open) /\ Len(open) \in Nat BY <1>1, ListIsSeq
<1>3. DOMAIN ms = DOMAIN open /\ ms = [i \in DOMAIN open |-> ms[i]] BY DEF MinedSynthetics
<1> HIDE DEF open, ms
<1>4. ms \in Seq({ms[i] : i \in DOMAIN open}) BY <1>2, <1>3
<1>5. IsList(ms) BY <1>4, SeqIsList
<1> QED BY <1>5 DEF ms

\* The atoms mined are those of the systems told.
LEMMA MinedOfList ==
    ASSUME disk \in DOMAIN Corpora, NEW systems
    PROVE  /\ IsList(MinedOf(systems))
           /\ \A s \in DOMAIN corpus : corpus[s].slug \in systems =>
                 ToSet(MinedSynthetics(corpus[s])) \subseteq ToSet(MinedOf(systems))
           /\ \A x \in ToSet(MinedOf(systems)) :
                 \E s \in DOMAIN corpus : x \in ToSet(MinedSynthetics(corpus[s]))
<1> DEFINE parts == [s \in DOMAIN corpus |->
               IF corpus[s].slug \in systems THEN MinedSynthetics(corpus[s]) ELSE <<>>]
<1>1. IsList(corpus) BY CorpusIsCorpus DEF IsCorpus
<1>2. Len(corpus) \in Nat /\ DOMAIN corpus = 1..Len(corpus) BY <1>1, ListIsSeq
<1>3. IsList(<<>>) BY DEF IsList
<1>4. \A s \in DOMAIN corpus : IsList(parts[s]) BY <1>3, SyntheticsList
<1>5. DOMAIN parts = DOMAIN corpus /\ parts = [s \in DOMAIN corpus |-> parts[s]] OBVIOUS
<1>6. /\ \A s \in DOMAIN corpus : corpus[s].slug \in systems => parts[s] = MinedSynthetics(corpus[s])
      /\ \A s \in DOMAIN corpus : parts[s] = <<>> \/ parts[s] = MinedSynthetics(corpus[s])
  OBVIOUS
<1>a. ToSet(<<>>) = {} BY DEF ToSet
<1>7. MinedOf(systems) = FlattenSeq(parts) BY DEF MinedOf
<1> HIDE DEF parts
<1>8. parts \in Seq({parts[s] : s \in DOMAIN corpus}) BY <1>2, <1>5
<1>9. IsList(parts) BY <1>8, SeqIsList
<1>10. ToSet(MinedOf(systems)) = UNION {ToSet(parts[s]) : s \in DOMAIN corpus}
  BY <1>4, <1>5, <1>7, <1>9, FlattenList
<1>11. ASSUME NEW x \in ToSet(MinedOf(systems))
       PROVE  \E s \in DOMAIN corpus : x \in ToSet(MinedSynthetics(corpus[s]))
  <2>1. PICK s \in DOMAIN corpus : x \in ToSet(parts[s]) BY <1>10
  <2> QED BY <1>6, <1>a, <2>1
<1> QED BY <1>4, <1>5, <1>6, <1>7, <1>9, <1>10, <1>11, FlattenList

\* The fold over the mined atoms makes a transaction of a transaction.
LEMMA MineType ==
    ASSUME disk \in DOMAIN Corpora, NEW t, IsTxn(t), runs \in Nat, NEW systems
    PROVE  IsTxn(FoldLeft(UpsertMined, t, MinedOf(systems)))
<1> DEFINE ds == MinedOf(systems)
           f == MinedFold(t, ds)
           n == Len(ds)
           V == {k \in Nat : k <= n => IsTxn(f[1..k])}
<1>1. IsList(ds) /\ n \in Nat BY MinedOfList, ListIsSeq
<1>2. /\ f[1..0] = t
      /\ \A k \in 1..n : f[1..k] = UpsertMined(f[1..(k - 1)], ds[k])
      /\ FoldLeft(UpsertMined, t, ds) = f[1..n]
  BY <1>1, MinedSolves
<1> HIDE DEF f, ds
<1>3. 0 \in V BY <1>2
<1>4. ASSUME NEW k \in Nat, k \in V PROVE k + 1 \in V
  <2> SUFFICES ASSUME k + 1 <= n PROVE IsTxn(f[1..(k + 1)])
    OBVIOUS
  <2>1. k <= n /\ k + 1 \in 1..n /\ (k + 1) - 1 = k BY <1>1
  <2>2. IsTxn(f[1..k]) BY <1>4, <2>1
  <2>3. f[1..(k + 1)] = UpsertMined(f[1..k], ds[k + 1]) BY <1>2, <2>1
  <2> QED BY <2>2, <2>3, MinedType
<1> HIDE DEF V
<1>5. n \in V BY <1>1, <1>3, <1>4, NatSet
<1> QED BY <1>1, <1>2, <1>5 DEF V, ds

\* What a step of a script does to the tables and its transaction.
Written(t) == Commit(t) \/ Keep(t) \/ Rollback

\* It loses no version and no job, and leaves nothing uncommitted after a commit.
LEMMA WrittenTypes ==
    ASSUME Types, NEW t, IsTxn(t), Written(t), UNCHANGED <<disk, runs, worker>>
    PROVE  /\ Versions(versions)'
           /\ \A v \in DOMAIN versions : v \in DOMAIN versions' /\ versions'[v] = versions[v]
           /\ IsList(queue') /\ ToSet(queue') \subseteq DOMAIN versions'
           /\ ToSet(queue) \subseteq ToSet(queue')
           /\ IsTxn(txn)'
           /\ Commit(t) \/ Rollback => (txn = NoTxn)'
<1>0. IsList(<<>>) /\ ToSet(<<>>) = {} BY DEF IsList, ToSet
<1>1. CASE Commit(t)
  <2>1. /\ versions' = t.versions /\ components' = t.components
        /\ extractions' = t.extractions
        /\ queue' = queue \o t.jobs /\ txn' = [t EXCEPT !.jobs = <<>>]
    BY <1>1 DEF Commit
  <2>2. /\ DOMAIN t = {"versions", "components", "extractions", "jobs"}
        /\ Versions(t.versions)
        /\ \A v \in DOMAIN versions : v \in DOMAIN t.versions /\ t.versions[v] = versions[v]
        /\ IsList(t.jobs) /\ ToSet(t.jobs) \subseteq DOMAIN t.versions
    BY DEF IsTxn
  <2>3. /\ DOMAIN txn' = DOMAIN t /\ txn'.jobs = <<>>
        /\ txn'.versions = t.versions /\ txn'.components = t.components
        /\ txn'.extractions = t.extractions
    BY <2>1, <2>2
  <2>4. IsList(queue') /\ ToSet(queue') = ToSet(queue) \cup ToSet(t.jobs)
    BY <2>1, <2>2, ConcatList DEF Types
  <2>5. IsTxn(txn)' BY <1>0, <2>1, <2>2, <2>3 DEF IsTxn
  <2>6. txn' = [versions |-> versions', components |-> components',
                extractions |-> extractions', jobs |-> <<>>]
    BY <2>1, <2>2
  <2> QED BY <2>1, <2>2, <2>4, <2>5, <2>6 DEF Types, NoTxn
<1>2. CASE Keep(t)
  <2>1. txn' = t /\ versions' = versions /\ queue' = queue BY <1>2 DEF Keep, tables
  <2>2. IsTxn(txn)' BY <2>1 DEF IsTxn
  <2>3. Commit(t) \/ Rollback => (txn = NoTxn)'
    <3>1. CASE Rollback BY <3>1 DEF Rollback, NoTxn, tables
    <3>2. CASE Commit(t)
      <4>1. /\ versions' = t.versions /\ components' = t.components
            /\ extractions' = t.extractions /\ txn' = [t EXCEPT !.jobs = <<>>]
        BY <3>2 DEF Commit
      <4>2. DOMAIN t = {"versions", "components", "extractions", "jobs"} BY DEF IsTxn
      <4> QED BY <4>1, <4>2 DEF NoTxn
    <3> QED BY <3>1, <3>2
  <2> QED BY <2>1, <2>2, <2>3 DEF Types
<1>3. CASE Rollback
  <2>1. txn' = NoTxn /\ UNCHANGED <<versions, components, extractions, queue>>
    BY <1>3 DEF Rollback, tables
  <2>2. (txn = NoTxn)' BY <2>1 DEF NoTxn
  <2>3. /\ DOMAIN NoTxn = {"versions", "components", "extractions", "jobs"}
        /\ NoTxn.versions = versions /\ NoTxn.jobs = <<>>
    BY DEF NoTxn
  <2>4. IsTxn(txn)' BY <1>0, <2>1, <2>3 DEF IsTxn, Types
  <2> QED BY <2>1, <2>2, <2>4 DEF Types
<1> QED BY <1>1, <1>2, <1>3 DEF Written

\* Unchanged tables, and a script that neither starts nor ends.
LEMMA SameTypes ==
    ASSUME Types, UNCHANGED <<tables, queue, txn>>
    PROVE  Versions(versions)' /\ IsTxn(txn)' /\ IsList(queue')
           /\ ToSet(queue') \subseteq DOMAIN versions' /\ NoTxn' = NoTxn
BY DEF Types, IsTxn, Versions, tables, NoTxn

\* The fields of a script at rest.
LEMMA IdleFields ==
    \A result : DOMAIN Idle(result) = OpFields /\ Idle(result).pc = "idle"
BY DEF Idle, OpFields

\* The fields of one that starts.
LEMMA StartFields ==
    ASSUME NEW kind, NEW brand, NEW systems, NEW batches, Start(kind, brand, systems, batches)
    PROVE  DOMAIN op' = OpFields /\ op'.pc = "asset"
<1>1. op' = [Idle("running") EXCEPT !.pc = "asset", !.kind = kind, !.brand = brand,
                                  !.todo = Head(batches), !.later = Tail(batches),
                                  !.scope = {s.slug : s \in ToSet(systems)}]
  BY DEF Start
<1> DEFINE i == Idle("running")
<1>2. DOMAIN i = OpFields BY IdleFields
<1> HIDE DEF i
<1> QED BY <1>1, <1>2 DEF i, OpFields

\* The fields after a brand.
LEMMA AfterFields ==
    ASSUME DOMAIN op = OpFields, NEW failed, AfterBrand(failed)
    PROVE  /\ DOMAIN op' = OpFields /\ op'.pc \in {"idle", "asset", "draining"}
           /\ op.later # <<>> => op'.pc = "asset"
<1>1. CASE op.later # <<>>
  BY <1>1 DEF AfterBrand, OpFields
<1>2. CASE op.later = <<>> /\ failed
  BY <1>2, IdleFields DEF AfterBrand
<1>3. CASE op.later = <<>> /\ ~failed /\ op.kind = "refresh"
  BY <1>3 DEF AfterBrand, OpFields
<1>4. CASE op.later = <<>> /\ ~failed /\ op.kind # "refresh"
  <2>1. op' = [Idle("ok") EXCEPT !.scope = op.scope] BY <1>4 DEF AfterBrand, Succeed
  <2> QED BY <1>4, <2>1, IdleFields
<1> QED BY <1>1, <1>2, <1>3, <1>4

\* The types hold of the tables an earlier release may have left.
LEMMA TypesInit == Init => Types
<1> SUFFICES ASSUME Init PROVE Types
  OBVIOUS
<1>1. PICK old \in OldTables :
         versions = old.versions /\ queue = old.queue
  BY DEF Init
<1>2. IsTables(old) BY TablesAssumption
<1>3. Versions(versions) /\ IsList(queue) /\ ToSet(queue) \subseteq DOMAIN versions
  BY <1>1, <1>2 DEF IsTables, Versions, RowFields
<1>4. disk \in DOMAIN Corpora
  <2>1. Len(Corpora) \in Nat /\ DOMAIN Corpora = 1..Len(Corpora) /\ Len(Corpora) # 0
    BY CorpusAssumption, ListIsSeq
  <2> QED BY <2>1 DEF Init
<1>5. IsTxn(txn)
  <2>1. IsList(<<>>) /\ ToSet(<<>>) = {} BY DEF IsList, ToSet
  <2>2. txn = NoTxn BY DEF Init
  <2> QED BY <1>3, <2>1, <2>2 DEF IsTxn, NoTxn
<1>6. DOMAIN op = OpFields /\ op.pc = "idle" BY IdleFields DEF Init
<1> QED BY <1>3, <1>4, <1>5, <1>6 DEF Init, Types, Resting

\* Each step keeps the types.
LEMMA TypesStep == Types /\ [Next]_vars => Types'
<1> SUFFICES ASSUME Types, [Next]_vars PROVE Types'
  OBVIOUS
<1>0. DOMAIN op = OpFields BY DEF Types
<1> DEFINE Same == UNCHANGED <<tables, queue, txn, worker>>
<1>a. ASSUME Same, disk' \in DOMAIN Corpora, runs' \in Nat, DOMAIN op' = OpFields,
             op'.pc \in {"idle", "deleted", "asset", "put", "mining", "draining"},
             op'.pc \in {"idle", "deleted", "draining"} =>
                 op.pc \in {"idle", "deleted", "draining"}
      PROVE  Types'
  <2>1. /\ Versions(versions)' /\ IsTxn(txn)' /\ IsList(queue')
        /\ ToSet(queue') \subseteq DOMAIN versions' /\ NoTxn' = NoTxn
    BY <1>a, SameTypes
  <2> QED BY <1>a, <2>1 DEF Types, tables
<1>b. ASSUME NEW t, IsTxn(t), Written(t), UNCHANGED <<disk, runs, worker>>,
             DOMAIN op' = OpFields,
             op'.pc \in {"idle", "deleted", "asset", "put", "mining", "draining"},
             op'.pc \in {"idle", "deleted", "draining"} => Commit(t) \/ Rollback
      PROVE  Types'
  <2>1. /\ Versions(versions)'
        /\ \A v \in DOMAIN versions : v \in DOMAIN versions' /\ versions'[v] = versions[v]
        /\ IsList(queue') /\ ToSet(queue') \subseteq DOMAIN versions'
        /\ IsTxn(txn)'
        /\ Commit(t) \/ Rollback => (txn = NoTxn)'
    BY <1>b, WrittenTypes
  <2> QED BY <1>b, <2>1 DEF Types
<1>1. CASE Sync
  <2>1. disk + 1 \in DOMAIN Corpora
    <3>1. Len(Corpora) \in Nat /\ DOMAIN Corpora = 1..Len(Corpora) BY CorpusAssumption, ListIsSeq
    <3>2. disk \in 1..Len(Corpora) /\ disk < Len(Corpora) BY <1>1, <3>1 DEF Sync, Types
    <3> QED BY <3>1, <3>2
  <2>2. DOMAIN op' = OpFields /\ op'.pc = "idle" BY <1>1, IdleFields DEF Sync
  <2> QED BY <1>1, <2>1, <2>2, <1>a DEF Sync, Types
<1>2. CASE StartSeed \/ StartBootstrap
  <2>1. DOMAIN op' = OpFields /\ op'.pc = "asset" BY <1>2, StartFields DEF StartSeed, StartBootstrap
  <2>2. runs' \in Nat /\ Same /\ disk' = disk BY <1>2 DEF StartSeed, StartBootstrap, Types
  <2> QED BY <2>1, <2>2, <1>a DEF Types
<1>3. ASSUME NEW b \in Brands, DeleteBrandRows(b) PROVE Types'
  <2> DEFINE mine == {v \in DOMAIN versions : versions[v].url.system = b}
  <2>1. /\ UNCHANGED <<disk, tables, store, txn>> /\ runs' = runs + 1 /\ op.pc = "idle"
        /\ queue' = Among(queue, {i \in DOMAIN queue : queue[i] \notin mine})
        /\ worker' = [worker EXCEPT !.lost = @ \/ worker.version \in mine]
        /\ op' = [Idle("running") EXCEPT !.pc = "deleted", !.kind = "refresh", !.brand = b]
    BY <1>3 DEF DeleteBrandRows
  <2>2. IsList(queue') /\ ToSet(queue') \subseteq ToSet(queue)
    BY <2>1, AmongList DEF Types, ToSet
  <2>3. DOMAIN op' = OpFields /\ op'.pc = "deleted"
    <3> DEFINE i == Idle("running")
    <3>1. DOMAIN i = OpFields BY IdleFields
    <3>2. op' = [i EXCEPT !.pc = "deleted", !.kind = "refresh", !.brand = b] BY <2>1
    <3> HIDE DEF i
    <3> QED BY <3>1, <3>2 DEF OpFields
  <2>4. DOMAIN worker' = {"version", "lost", "read"} /\ worker'.version = worker.version
    BY <2>1 DEF Types
  <2>5. Versions(versions)' /\ IsTxn(txn)' /\ NoTxn' = NoTxn
    BY <2>1 DEF Types, IsTxn, Versions, tables, NoTxn
  <2> QED BY <2>1, <2>2, <2>3, <2>4, <2>5 DEF Types, tables
<1>4. CASE BootstrapSingle
  <2>1. DOMAIN op' = OpFields /\ op'.pc \in {"idle", "asset"}
    BY <1>4, IdleFields, StartFields DEF BootstrapSingle
  <2> QED BY <1>4, <2>1, <1>a DEF BootstrapSingle, Types
<1>5. CASE SkipAsset
  <2>1. DOMAIN op' = OpFields /\ op'.pc = "asset" BY <1>5, <1>0 DEF SkipAsset, OpFields
  <2> QED BY <1>5, <2>1, <1>a DEF SkipAsset, Types
<1>6. CASE PutZip
  <2>1. DOMAIN op' = OpFields /\ op'.pc = "put" BY <1>6, <1>0 DEF PutZip, OpFields
  <2> QED BY <1>6, <2>1, <1>a DEF PutZip, Types
<1>7. CASE SeedAsset
  <2> DEFINE t == UpsertExtraction(txn, Head(op.todo), runs)
  <2>1. IsTxn(t) BY ExtractionType DEF Types
  <2>2. Written(t) BY <1>7 DEF SeedAsset, Written
  <2>3. DOMAIN op' = OpFields /\ op'.pc = "asset" BY <1>7, <1>0 DEF SeedAsset, OpFields
  <2> QED BY <1>7, <2>1, <2>2, <2>3, <1>b DEF SeedAsset
<1>8. CASE EndAssets
  <2>1. IsTxn(txn) BY DEF Types
  <2>2. Written(txn) BY <1>8 DEF EndAssets, Written
  <2>3. DOMAIN op' = OpFields /\ op'.pc = "mining" BY <1>8, <1>0 DEF EndAssets, OpFields
  <2> QED BY <1>8, <2>1, <2>2, <2>3, <1>b DEF EndAssets
<1>9. CASE Mine
  <2> DEFINE t == FoldLeft(UpsertMined, txn, MinedOf(op.seen))
  <2>1. IsTxn(t) /\ IsTxn(txn) BY MineType DEF Types
  <2>2. /\ DOMAIN op' = OpFields /\ op'.pc \in {"idle", "asset", "draining"}
        /\ op.later # <<>> => op'.pc = "asset"
    BY <1>9, <1>0, AfterFields DEF Mine
  <2>3. UNCHANGED <<disk, runs, worker>> BY <1>9 DEF Mine
  <2>4. \/ Commit(t)
        \/ op.later # <<>> /\ Keep(txn)
        \/ Rollback
    BY <1>9 DEF Mine
  <2> HIDE DEF t
  <2>5. CASE Commit(t) BY <2>1, <2>2, <2>3, <2>5, <1>b DEF Written
  <2>6. CASE op.later # <<>> /\ Keep(txn) BY <2>1, <2>2, <2>3, <2>6, <1>b DEF Written
  <2>7. CASE Rollback BY <2>1, <2>2, <2>3, <2>7, <1>b DEF Written
  <2> QED BY <2>4, <2>5, <2>6, <2>7
<1>10. CASE SeedFails
  <2>1. IsTxn(txn) BY DEF Types
  <2>2. /\ DOMAIN op' = OpFields /\ op'.pc \in {"idle", "asset", "draining"}
        /\ op.later # <<>> => op'.pc = "asset"
    BY <1>10, <1>0, AfterFields DEF SeedFails
  <2>3. UNCHANGED <<disk, runs, worker>> BY <1>10 DEF SeedFails
  <2>4. (op.later # <<>> /\ Keep(txn)) \/ Rollback BY <1>10 DEF SeedFails
  <2>5. CASE op.later # <<>> /\ Keep(txn) BY <2>1, <2>2, <2>3, <2>5, <1>b DEF Written
  <2>6. CASE Rollback BY <2>1, <2>2, <2>3, <2>6, <1>b DEF Written
  <2> QED BY <2>4, <2>5, <2>6
<1>11. CASE Crash
  <2>1. DOMAIN op' = OpFields /\ op'.pc = "idle" BY <1>11, IdleFields DEF Crash
  <2>2. Rollback /\ UNCHANGED <<disk, runs, worker>> BY <1>11 DEF Crash
  <2>3. IsTxn(txn) BY DEF Types
  <2> QED BY <2>1, <2>2, <2>3, <1>b DEF Written
<1>12. CASE EndRefresh
  <2>1. op' = [Idle("ok") EXCEPT !.scope = op.scope] BY <1>12 DEF EndRefresh, Succeed
  <2>2. DOMAIN op' = OpFields /\ op'.pc = "idle" BY <2>1, IdleFields
  <2> QED BY <1>12, <2>2, <1>a DEF EndRefresh, Types
<1>13. CASE SuppressSeedBrands
  <2>1. PICK hidden :
           /\ versions' = [v \in DOMAIN versions |->
                  IF v \in hidden THEN [versions[v] EXCEPT !.public = FALSE] ELSE versions[v]]
           /\ txn' = [txn EXCEPT !.versions = versions']
           /\ op.pc = "idle" /\ op' = Idle("suppressed") /\ runs' = runs + 1
           /\ UNCHANGED <<disk, components, extractions, store, queue, library, worker>>
    BY <1>13 DEF SuppressSeedBrands
  <2>2. DOMAIN versions' = DOMAIN versions BY <2>1
  <2>3. Versions(versions)'
    <3>1. Len(versions) \in Nat /\ DOMAIN versions = 1..Len(versions)
      BY ListIsSeq DEF Types, Versions
    <3>2. versions' = [v \in 1..Len(versions) |-> versions'[v]] BY <2>1, <3>1
    <3>3. versions' \in Seq({versions'[v] : v \in 1..Len(versions)}) BY <3>1, <3>2
    <3>4. IsList(versions') BY <3>3, SeqIsList
    <3>5. ASSUME NEW v \in DOMAIN versions
          PROVE  DOMAIN versions'[v] = RowFields /\ versions'[v].fetched \in Nat
      <4>1. DOMAIN versions[v] = RowFields /\ versions[v].fetched \in Nat
        BY DEF Types, Versions
      <4>2. versions'[v] = versions[v] \/ versions'[v] = [versions[v] EXCEPT !.public = FALSE]
        BY <2>1
      <4> QED BY <4>1, <4>2 DEF RowFields
    <3> QED BY <2>2, <3>4, <3>5 DEF Versions
  <2>4. txn = NoTxn BY <2>1 DEF Types
  <2>5. txn' = [versions |-> versions', components |-> components',
                extractions |-> extractions', jobs |-> <<>>]
    BY <2>1, <2>4 DEF NoTxn
  <2>6. txn' = NoTxn' BY <2>5 DEF NoTxn
  <2>7. IsList(<<>>) /\ ToSet(<<>>) = {} BY DEF IsList, ToSet
  <2>8. IsTxn(txn)' BY <2>3, <2>5, <2>7 DEF IsTxn
  <2>9. DOMAIN op' = OpFields /\ op'.pc = "idle" BY <2>1, IdleFields
  <2> QED BY <2>1, <2>2, <2>3, <2>6, <2>8, <2>9 DEF Types
<1>14. CASE ReconcileAliases
  <2>1. DOMAIN op' = OpFields /\ op'.pc = "idle" BY <1>14, IdleFields DEF ReconcileAliases
  <2> QED BY <1>14, <2>1, <1>a DEF ReconcileAliases, Types
<1>15. CASE StartJob
  <2>1. /\ queue # <<>> /\ queue' = Tail(queue)
        /\ UNCHANGED <<disk, tables, txn, op, runs>>
        /\ \/ worker' = worker
           \/ \E read : worker' = [version |-> Head(queue), lost |-> FALSE, read |-> read]
    BY <1>15, Zenon DEF StartJob
  <2>2. IsList(Tail(queue)) /\ ToSet(queue) = {Head(queue)} \cup ToSet(Tail(queue))
    BY <2>1, TailList DEF Types
  <2>3. Versions(versions)' /\ IsTxn(txn)' /\ NoTxn' = NoTxn
    BY <2>1 DEF Types, IsTxn, Versions, tables, NoTxn
  <2> QED BY <2>1, <2>2, <2>3 DEF Types, tables
<1>16. CASE WriteJob \/ LoseJob
  <2>1. worker' = Resting /\ UNCHANGED <<disk, tables, queue, txn, op, runs>>
    BY <1>16 DEF WriteJob, LoseJob
  <2>2. Versions(versions)' /\ IsTxn(txn)' /\ NoTxn' = NoTxn
    BY <2>1 DEF Types, IsTxn, Versions, tables, NoTxn
  <2> QED BY <2>1, <2>2 DEF Types, tables, Resting
<1>17. CASE UNCHANGED vars
  BY <1>17, <1>a DEF vars, Types
<1> QED
  BY <1>1, <1>2, <1>3, <1>4, <1>5, <1>6, <1>7, <1>8, <1>9, <1>10, <1>11, <1>12,
     <1>13, <1>14, <1>15, <1>16, <1>17 DEF Next, Operate, Script, Drain

-----------------------------------------------------------------------------
(* Orders. *)

\* A total preorder has a greatest element on a finite set that is not empty.
LEMMA GreatestExists ==
    ASSUME NEW S, IsFiniteSet(S), NEW R,
           \A x, y \in S : <<x, y>> \in R \/ <<y, x>> \in R,
           \A x, y, z \in S : <<x, y>> \in R /\ <<y, z>> \in R => <<x, z>> \in R
    PROVE  S # {} => \E x \in S : \A y \in S : <<x, y>> \in R
<1> DEFINE Headed(U) == U # {} => \E x \in U : \A y \in U : <<x, y>> \in R
           V == {n \in Nat : \A U \in SUBSET S : Cardinality(U) = n => Headed(U)}
<1>1. \A U \in SUBSET S : /\ IsFiniteSet(U) /\ Cardinality(U) \in Nat
                          /\ Cardinality(U) = 0 => U = {}
  BY FS_Subset, FS_CardinalityType, FS_EmptySet
<1>2. 0 \in V BY <1>1
<1>3. ASSUME NEW n \in Nat, n \in V PROVE n + 1 \in V
  <2> SUFFICES ASSUME NEW U \in SUBSET S, Cardinality(U) = n + 1, NEW u \in U
               PROVE  \E x \in U : \A y \in U : <<x, y>> \in R
    OBVIOUS
  <2> DEFINE T == U \ {u}
  <2>0. IsFiniteSet(U) BY <1>1
  <2>1. T \in SUBSET S /\ Cardinality(T) = n
    <3>1. Cardinality(T) = Cardinality(U) - 1 BY <2>0, FS_RemoveElement
    <3> QED BY <3>1
  <2>2. Headed(T) BY <1>3, <2>1
  <2>3. CASE T = {}
    <3>1. \A y \in U : y = u BY <2>3
    <3> QED BY <3>1
  <2>4. CASE T # {}
    <3>1. PICK v \in T : \A y \in T : <<v, y>> \in R BY <2>2, <2>4
    <3>2. CASE <<v, u>> \in R BY <3>1, <3>2
    <3>3. CASE <<u, v>> \in R
      <4>1. \A y \in T : <<u, y>> \in R BY <3>1, <3>3
      <4>2. <<u, u>> \in R OBVIOUS
      <4> QED BY <4>1, <4>2
    <3> QED BY <3>2, <3>3
  <2> QED BY <2>3, <2>4
<1> HIDE DEF V
<1>4. Cardinality(S) \in V BY <1>1, <1>2, <1>3, NatSet
<1>5. Headed(S) BY <1>4 DEF V
<1> QED BY <1>5

\* So has the lexicographic order of three numbers.
LEMMA LexGreatest ==
    ASSUME NEW S, IsFiniteSet(S), S # {}, NEW a, NEW b, NEW c,
           \A x \in S : a[x] \in Nat /\ b[x] \in Nat /\ c[x] \in Nat
    PROVE  \E x \in S : \A y \in S :
               \/ a[x] > a[y]
               \/ a[x] = a[y] /\ b[x] > b[y]
               \/ a[x] = a[y] /\ b[x] = b[y] /\ c[x] >= c[y]
<1> DEFINE Lex(x, y) == \/ a[x] > a[y]
                        \/ a[x] = a[y] /\ b[x] > b[y]
                        \/ a[x] = a[y] /\ b[x] = b[y] /\ c[x] >= c[y]
           R == {p \in S \X S : Lex(p[1], p[2])}
<1>1. \A x, y \in S : <<x, y>> \in R <=> Lex(x, y) OBVIOUS
<1>2. \A x, y \in S : Lex(x, y) \/ Lex(y, x) OBVIOUS
<1>3. \A x, y, z \in S : Lex(x, y) /\ Lex(y, z) => Lex(x, z) OBVIOUS
<1> HIDE DEF R, Lex
<1>4. \E x \in S : \A y \in S : <<x, y>> \in R BY <1>1, <1>2, <1>3, GreatestExists
<1>5. \E x \in S : \A y \in S : Lex(x, y) BY <1>1, <1>4
<1> QED BY <1>5 DEF Lex

\* The newest of some rows.
LEMMA NewestExists ==
    ASSUME Types, NEW rows, IsFiniteSet(rows), rows # {},
           \A r \in rows : r[1] \in DOMAIN versions
    PROVE  Newest(lib, rows) # {}
<1> DEFINE a == [r \in rows |-> versions[r[1]].fetched]
           z == [r \in rows |-> 0]
<1>1. \A r \in rows : a[r] \in Nat /\ z[r] \in Nat BY DEF Types, Versions
<1>2. \A r \in rows : a[r] = versions[r[1]].fetched /\ z[r] = 0 OBVIOUS
<1> HIDE DEF a, z
<1>3. PICK x \in rows : \A y \in rows :
               \/ a[x] > a[y]
               \/ a[x] = a[y] /\ z[x] > z[y]
               \/ a[x] = a[y] /\ z[x] = z[y] /\ z[x] >= z[y]
  BY <1>1, LexGreatest
<1>4. \A y \in rows : versions[y[1]].fetched <= versions[x[1]].fetched
  BY <1>1, <1>2, <1>3
<1>5. lib.versions = versions BY DEF lib
<1> QED BY <1>4, <1>5 DEF Newest

-----------------------------------------------------------------------------
(* The paths of the sitemap. *)

\* Two pages of one brand and one public category.
Alike(r, q) ==
    /\ pages[r].brand = pages[q].brand
    /\ CanonicalPublicCategory(r[2]) = CanonicalPublicCategory(q[2])

\* Every page has its version, its version's brand, is public unless the brand is
\* suppressed, and has a canonical page of its category, of whatever name.
ListIInv ==
    /\ IsFiniteSet(DOMAIN pages)
    /\ \A r \in DOMAIN pages :
          /\ r[1] \in DOMAIN versions
          /\ pages[r].brand = BrandOf(versions[r[1]])
          /\ pages[r].brand \notin SuppressedSlugs => versions[r[1]].public
          /\ \E q \in DOMAIN pages \cap canonical : Alike(r, q)
    /\ worker.version # 0 =>
          (BrandOf(versions[worker.version]) \notin SuppressedSlugs =>
              versions[worker.version].public)

\* The tables an earlier release may have left satisfy the invariant.
LEMMA ListInit == Init => ListIInv
<1> SUFFICES ASSUME Init PROVE ListIInv
  OBVIOUS
<1>1. PICK old \in OldTables :
         versions = old.versions /\ pages = old.pages /\ canonical = old.canonical
  BY DEF Init
<1>2. IsTables(old) BY TablesAssumption
<1>3. worker.version = 0 BY DEF Init, Resting
<1> QED BY <1>1, <1>2, <1>3 DEF IsTables, ListIInv, Alike

\* A version that is added or published changes no page.
LEMMA ListKept ==
    ASSUME Types, ListIInv, UNCHANGED library, worker' = worker \/ worker' = Resting,
           \A v \in DOMAIN versions : v \in DOMAIN versions' /\ versions'[v] = versions[v]
    PROVE  ListIInv'
<1>1. \A r, q : Alike(r, q)' <=> Alike(r, q) BY DEF Alike, library
<1>2. \A v \in DOMAIN versions : BrandOf(versions'[v]) = BrandOf(versions[v]) OBVIOUS
<1>3. worker'.version # 0 => worker' = worker /\ worker.version \in DOMAIN versions
  BY DEF Types, Resting
<1> QED BY <1>1, <1>2, <1>3 DEF ListIInv, library, BrandOf

\* So a transaction of the seed keeps the invariant.
LEMMA ListWritten ==
    ASSUME Types, ListIInv, NEW t, IsTxn(t), Written(t),
           UNCHANGED <<disk, library, runs, worker>>
    PROVE  ListIInv'
<1>1. \A v \in DOMAIN versions : v \in DOMAIN versions' /\ versions'[v] = versions[v]
  BY WrittenTypes
<1> QED BY <1>1, ListKept

\* The alias reconciler takes the flag of a group only to give it to its best.
LEMMA PromotedBest ==
    ASSUME Types, ListIInv, NEW brand, NEW category
    PROVE  LET rows == AliasGroup(brand, category)
               p == Promotion(brand, category)
           IN \/ p.promote = {} /\ p.demote = {}
              \/ \E best \in rows : p.promote = {best} /\ best \notin p.demote
                                    /\ p.demote \subseteq rows
<1> DEFINE rows == AliasGroup(brand, category)
           marked == Marked(rows)
           Best(r) == \A q \in marked :
                    \/ versions[r[1]].fetched > versions[q[1]].fetched
                    \/ versions[r[1]].fetched = versions[q[1]].fetched /\ r[1] >= q[1]
           best == CHOOSE r \in marked : Best(r)
           p == Promotion(brand, category)
<1>1. CASE (rows \cap canonical) \ marked = {} \/ marked = {}
  BY <1>1 DEF Promotion
<1>2. CASE ~((rows \cap canonical) \ marked = {} \/ marked = {})
  <2>1. p = [promote |-> {best}, demote |-> (rows \cap canonical) \ {best}]
    BY <1>2 DEF Promotion
  <2>2. marked \subseteq rows /\ rows \subseteq DOMAIN pages /\ marked # {}
    BY <1>2 DEF Marked, AliasGroup, BrandRows, PublicRows, lib
  <2>3. IsFiniteSet(marked) BY <2>2, FS_Subset DEF ListIInv
  <2>4. \A r \in marked : versions[r[1]].fetched \in Nat /\ r[1] \in Nat
    <3>1. \A r \in marked : r[1] \in DOMAIN versions BY <2>2 DEF ListIInv
    <3>2. Len(versions) \in Nat /\ DOMAIN versions = 1..Len(versions)
      BY ListIsSeq DEF Types, Versions
    <3> QED BY <3>1, <3>2 DEF Types, Versions
  <2> HIDE DEF marked
  <2> DEFINE a == [r \in marked |-> versions[r[1]].fetched]
             b == [r \in marked |-> r[1]]
  <2>5. \A r \in marked : a[r] = versions[r[1]].fetched /\ b[r] = r[1] OBVIOUS
  <2>a. \A r \in marked : a[r] \in Nat /\ b[r] \in Nat BY <2>4
  <2> HIDE DEF a, b
  <2>6. PICK x \in marked : \A y \in marked :
               \/ a[x] > a[y]
               \/ a[x] = a[y] /\ b[x] > b[y]
               \/ a[x] = a[y] /\ b[x] = b[y] /\ b[x] >= b[y]
    BY <2>2, <2>3, <2>a, LexGreatest
  <2>7. Best(x) BY <2>4, <2>5, <2>a, <2>6
  <2> HIDE DEF Best
  <2>8. best \in marked BY <2>7
  <2> HIDE DEF best, p, rows
  <2> QED BY <2>1, <2>2, <2>8 DEF p, rows
<1> QED BY <1>1, <1>2

\* The alias reconciler keeps the invariant.
LEMMA ListReconciled == Types /\ ListIInv /\ ReconcileAliases => ListIInv'
<1> SUFFICES ASSUME Types, ListIInv, ReconcileAliases PROVE ListIInv'
  OBVIOUS
<1> DEFINE groups == {<<pages[r].brand, CanonicalPublicCategory(r[2])>> : r \in DOMAIN pages}
           plan == {Promotion(g[1], g[2]) : g \in groups}
           promoted == UNION {p.promote : p \in plan}
           demoted == UNION {p.demote : p \in plan}
<1>1. canonical' = (canonical \cup promoted) \ demoted /\ UNCHANGED <<versions, pages, worker>>
  BY DEF ReconcileAliases, tables
<1>2. \A b, k : \A q \in AliasGroup(b, k) :
          /\ q \in DOMAIN pages /\ pages[q].brand = b /\ CanonicalPublicCategory(q[2]) = k
  BY DEF AliasGroup, BrandRows, PublicRows, lib
<1>3. ASSUME NEW r \in DOMAIN pages
      PROVE  \E q \in DOMAIN pages \cap canonical' : Alike(r, q)
  <2> DEFINE b == pages[r].brand
             k == CanonicalPublicCategory(r[2])
             p == Promotion(b, k)
  <2>1. p \in plan
    <3>1. <<b, k>> \in groups OBVIOUS
    <3> HIDE DEF groups, b, k
    <3>2. <<b, k>>[1] = b /\ <<b, k>>[2] = k OBVIOUS
    <3> QED BY <3>1, <3>2
  <2>2. ASSUME NEW q \in DOMAIN pages, pages[q].brand = b, CanonicalPublicCategory(q[2]) = k,
               q \in demoted
        PROVE  q \in p.demote
    <3>1. PICK g \in groups : q \in Promotion(g[1], g[2]).demote BY <2>2
    <3> HIDE DEF groups
    <3>2. q \in AliasGroup(g[1], g[2]) BY <3>1, PromotedBest
    <3>3. g[1] = b /\ g[2] = k BY <1>2, <2>2, <3>2
    <3> QED BY <3>1, <3>3
  <2> HIDE DEF p
  <2>3. CASE p.promote = {} /\ p.demote = {}
    <3>1. PICK q \in DOMAIN pages \cap canonical : Alike(r, q) BY DEF ListIInv
    <3>2. q \notin demoted BY <2>2, <2>3, <3>1 DEF Alike
    <3> QED BY <1>1, <3>1, <3>2
  <2>4. ASSUME NEW best \in AliasGroup(b, k), p.promote = {best}, best \notin p.demote
        PROVE  \E q \in DOMAIN pages \cap canonical' : Alike(r, q)
    <3>1. /\ best \in DOMAIN pages /\ pages[best].brand = b
          /\ CanonicalPublicCategory(best[2]) = k
      BY <1>2
    <3>2. best \in promoted BY <2>1, <2>4
    <3>3. best \notin demoted BY <2>2, <2>4, <3>1
    <3> HIDE DEF promoted, demoted
    <3>4. best \in canonical' BY <1>1, <3>2, <3>3
    <3> QED BY <3>1, <3>4 DEF Alike
  <2> QED BY <2>3, <2>4, PromotedBest DEF p
<1>4. \A r, q : Alike(r, q)' <=> Alike(r, q) BY <1>1 DEF Alike
<1> HIDE DEF promoted, demoted
<1> QED BY <1>1, <1>3, <1>4 DEF ListIInv, BrandOf

\* The deletion of the rows of a brand keeps it: they go with their canonical ones.
LEMMA ListDeleted ==
    ASSUME Types, ListIInv, NEW brand, DeleteBrandRows(brand)
    PROVE  ListIInv'
<1>1. /\ pages' = [r \in {x \in DOMAIN pages : pages[x].brand # brand} |-> pages[r]]
      /\ canonical' = {r \in canonical : pages[r].brand # brand}
      /\ versions' = versions
      /\ worker' = [worker EXCEPT !.lost = @ \/ worker.version \in
                       {v \in DOMAIN versions : versions[v].url.system = brand}]
  BY DEF DeleteBrandRows, tables
<1>2. worker'.version = worker.version BY <1>1 DEF Types
<1>3. DOMAIN pages' \subseteq DOMAIN pages /\ \A r \in DOMAIN pages' : pages'[r] = pages[r]
  BY <1>1
<1>4. IsFiniteSet(DOMAIN pages') BY <1>3, FS_Subset DEF ListIInv
<1>5. ASSUME NEW r \in DOMAIN pages'
      PROVE  \E q \in DOMAIN pages' \cap canonical' : Alike(r, q)'
  <2>1. PICK q \in DOMAIN pages \cap canonical : Alike(r, q) BY <1>3 DEF ListIInv
  <2>2. pages[r].brand # brand /\ pages[q].brand # brand BY <1>1, <2>1 DEF Alike
  <2>3. q \in DOMAIN pages' \cap canonical' BY <1>1, <2>1, <2>2
  <2>4. Alike(r, q)' BY <1>3, <2>1, <2>3 DEF Alike
  <2> QED BY <2>3, <2>4
<1> QED BY <1>1, <1>2, <1>3, <1>4, <1>5 DEF ListIInv, BrandOf

\* The suppression keeps it: it hides versions of suppressed brands only.
LEMMA ListSuppressed == Types /\ ListIInv /\ SuppressSeedBrands => ListIInv'
<1> SUFFICES ASSUME Types, ListIInv, SuppressSeedBrands PROVE ListIInv'
  OBVIOUS
<1> DEFINE behind(slug) == {r[1] : r \in {x \in DOMAIN pages : pages[x].brand = slug}}
           shared(slug) == \E r \in DOMAIN pages :
                               r[1] \in behind(slug) /\ pages[r].brand # slug
           hidden == UNION {behind(s) : s \in {x \in SuppressedSlugs : ~shared(x)}}
<1>1. /\ versions' = [v \in DOMAIN versions |->
             IF v \in hidden THEN [versions[v] EXCEPT !.public = FALSE] ELSE versions[v]]
      /\ UNCHANGED <<pages, canonical, worker>>
  BY DEF SuppressSeedBrands, library
<1>2. ASSUME NEW v \in hidden PROVE BrandOf(versions[v]) \in SuppressedSlugs
  BY DEF ListIInv
<1> HIDE DEF hidden
<1>3. ASSUME NEW v \in DOMAIN versions
      PROVE  /\ BrandOf(versions'[v]) = BrandOf(versions[v])
             /\ BrandOf(versions[v]) \notin SuppressedSlugs => versions'[v] = versions[v]
  <2>1. DOMAIN versions[v] = RowFields BY DEF Types, Versions
  <2>2. CASE v \in hidden
    <3>1. versions'[v] = [versions[v] EXCEPT !.public = FALSE] BY <1>1, <2>2
    <3>2. versions'[v].url = versions[v].url BY <2>1, <3>1 DEF RowFields
    <3> QED BY <1>2, <2>2, <3>2 DEF BrandOf
  <2>3. CASE v \notin hidden
    <3>1. versions'[v] = versions[v] BY <1>1, <2>3
    <3> QED BY <3>1
  <2> QED BY <2>2, <2>3
<1>4. DOMAIN versions' = DOMAIN versions BY <1>1
<1>5. \A r, q : Alike(r, q)' <=> Alike(r, q) BY <1>1 DEF Alike
<1>6. worker.version # 0 => worker.version \in DOMAIN versions BY DEF Types
<1> QED BY <1>1, <1>3, <1>4, <1>5, <1>6 DEF ListIInv

\* The indexer composes finitely many pages of a version, and at least one.
LEMMA ComposedClasses ==
    ASSUME NEW own, NEW mined, NEW component
    PROVE  /\ IsFiniteSet(ClassesToCompose(own, mined, component))
           /\ ClassesToCompose(own, mined, component) # {}
<1>1. CASE mined
  <2>1. ClassesToCompose(own, mined, component) = {own} BY <1>1 DEF ClassesToCompose
  <2> QED BY <2>1, FS_Singleton
<1>2. CASE ~mined
  <2> DEFINE more == IF component # NoComponent THEN {CanonicalPublicCategory(own)} ELSE {}
  <2>1. ClassesToCompose(own, mined, component) = DOMAIN Templates \cup more
    BY <1>2 DEF ClassesToCompose
  <2>2. IsFiniteSet(more)
    <3>1. more = {} \/ more = {CanonicalPublicCategory(own)} OBVIOUS
    <3> QED BY <3>1, FS_Singleton, FS_EmptySet
  <2> HIDE DEF more
  <2> QED BY <2>1, <2>2, TemplatesAssumption, FS_Union
<1> QED BY <1>1, <1>2

\* A job writes at least one page, and finitely many.
LEMMA ComposedPages ==
    ASSUME NEW asset, NEW component, NEW snapshots
    PROVE  /\ IsFiniteSet(DOMAIN IndexedPages(asset, component, snapshots).pages)
           /\ DOMAIN IndexedPages(asset, component, snapshots).pages # {}
<1> DEFINE real == IF asset.class = "none" THEN NoComponent ELSE component
<1>1. DOMAIN IndexedPages(asset, component, snapshots).pages
          = ClassesToCompose(asset.class, asset.mined, real)
  BY DEF IndexedPages
<1> HIDE DEF real
<1> QED BY <1>1, ComposedClasses

\* The rows of a job: each old one that is not of its version, and new ones of
\* its version and brand.
LEMMA JobRows ==
    ASSUME Types, WriteJob
    PROVE  LET v == worker.version
               brand == BrandOf(versions[v])
           IN /\ v \in DOMAIN versions
              /\ \E classes : /\ IsFiniteSet(classes) /\ classes # {}
                              /\ DOMAIN pages' = DOMAIN pages \cup ({v} \X classes)
                              /\ \A r \in {v} \X classes : pages'[r].brand = brand
                              /\ \A r \in DOMAIN pages \ ({v} \X classes) :
                                    pages'[r] = pages[r]
              /\ canonical' = {r \in canonical : pages[r].brand # brand}
                                  \cup Winners(pages', brand)
              /\ UNCHANGED <<versions, queue>> /\ worker' = Resting
<1> DEFINE v == worker.version
           version == versions[v]
           brand == BrandOf(version)
           indexed == IndexedPages([brand |-> brand, tokens |-> version.dtcg.tokens,
                                    class |-> version.dtcg.class,
                                    mined |-> version.dtcg.mined],
                                   worker.read, Snapshots)
           written == [r \in {v} \X DOMAIN indexed.pages |->
                          [brand |-> brand, label |-> version.label,
                           page |-> indexed.pages[r[2]], metadata |-> indexed.metadata]]
           all == [r \in DOMAIN written \cup DOMAIN pages |->
                      IF r \in DOMAIN written THEN written[r] ELSE pages[r]]
           classes == DOMAIN indexed.pages
<1>1. /\ v # 0 /\ pages' = all
      /\ canonical' = {r \in canonical : pages[r].brand # brand} \cup Winners(pages', brand)
      /\ worker' = Resting /\ UNCHANGED <<versions, queue>>
  BY Zenon DEF WriteJob, tables
<1>2. v \in DOMAIN versions BY <1>1 DEF Types
<1>3. IsFiniteSet(classes) /\ classes # {} BY ComposedPages
<1> HIDE DEF indexed
<1>4. \A r \in {v} \X classes : written[r].brand = brand OBVIOUS
<1>5. DOMAIN written = {v} \X classes OBVIOUS
<1> HIDE DEF written, classes
<1>6. /\ DOMAIN pages' = DOMAIN pages \cup ({v} \X classes)
      /\ \A r \in {v} \X classes : pages'[r].brand = brand
      /\ \A r \in DOMAIN pages \ ({v} \X classes) : pages'[r] = pages[r]
  BY <1>1, <1>4, <1>5
<1> HIDE DEF all
<1> QED BY <1>1, <1>2, <1>3, <1>6

\* The election finds a winner for the category of each row of the brand.
LEMMA WinnerExists ==
    ASSUME Types, NEW all, IsFiniteSet(DOMAIN all), \A r \in DOMAIN all : r[1] \in DOMAIN versions,
           NEW r \in DOMAIN all
    PROVE  \E w \in Winners(all, all[r].brand) \cap DOMAIN all :
               all[w].brand = all[r].brand /\ w[2] = r[2]
<1> DEFINE brand == all[r].brand
           S == {q \in DOMAIN all : all[q].brand = brand /\ q[2] = r[2]}
           a == [q \in S |-> Weight(all[q].page)]
           b == [q \in S |-> versions[q[1]].fetched]
           c == [q \in S |-> q[1]]
<1>1. IsFiniteSet(S) /\ S # {} BY FS_Subset
<1>2. \A q \in S : a[q] = Weight(all[q].page) /\ b[q] = versions[q[1]].fetched /\ c[q] = q[1]
  OBVIOUS
<1>3. \A q \in S : Weight(all[q].page) \in Nat BY DEF Weight
<1>4. Len(versions) \in Nat /\ DOMAIN versions = 1..Len(versions)
  BY ListIsSeq DEF Types, Versions
<1>5. \A q \in S : versions[q[1]].fetched \in Nat /\ q[1] \in Nat
  BY <1>4 DEF Types, Versions
<1>6. \A q \in S : a[q] \in Nat /\ b[q] \in Nat /\ c[q] \in Nat BY <1>2, <1>3, <1>5
<1> HIDE DEF a, b, c
<1>7. PICK w \in S : \A y \in S :
               \/ a[w] > a[y]
               \/ a[w] = a[y] /\ b[w] > b[y]
               \/ a[w] = a[y] /\ b[w] = b[y] /\ c[w] >= c[y]
  <2>1. IsFiniteSet(S) /\ S # {} BY <1>1
  <2> HIDE DEF S
  <2> QED BY <1>6, <2>1, LexGreatest
<1> DEFINE ranked == {Ranked(all, q) : q \in DOMAIN all}
           rows == {x \in ranked : x.brand = brand}
<1>8. \A q : /\ Ranked(all, q).row = q /\ Ranked(all, q).brand = all[q].brand
             /\ Ranked(all, q).weight = Weight(all[q].page)
             /\ Ranked(all, q).fetched = versions[q[1]].fetched
  BY DEF Ranked
<1>9. ASSUME NEW z \in rows, z.row[2] = w[2] PROVE Outranks(Ranked(all, w), z)
  <2>1. PICK q \in DOMAIN all : z = Ranked(all, q) /\ z.brand = brand OBVIOUS
  <2>2. q \in S BY <1>8, <1>9, <2>1
  <2>3. \/ a[w] > a[q]
        \/ a[w] = a[q] /\ b[w] > b[q]
        \/ a[w] = a[q] /\ b[w] = b[q] /\ c[w] >= c[q]
    BY <1>7, <2>2
  <2> QED BY <1>2, <1>8, <2>1, <2>2, <2>3 DEF Outranks
<1>10. Ranked(all, w) \in rows BY <1>8
<1>11. w \in Winners(all, brand)
  <2> DEFINE y == Ranked(all, w)
  <2>1. y \in rows /\ y.row = w BY <1>8, <1>10
  <2>2. \A z \in rows : z.row[2] = y.row[2] => Outranks(y, z) BY <1>8, <1>9
  <2> HIDE DEF y, rows
  <2>3. y.row \in {x.row : x \in {g \in rows :
               \A z \in rows : z.row[2] = g.row[2] => Outranks(g, z)}}
    BY <2>1, <2>2
  <2> QED BY <2>1, <2>3 DEF Winners, rows
<1> QED BY <1>11

\* A job keeps the invariant: it elects anew over its brand.
LEMMA ListIndexed == Types /\ ListIInv /\ WriteJob => ListIInv'
<1> SUFFICES ASSUME Types, ListIInv, WriteJob PROVE ListIInv'
  OBVIOUS
<1> DEFINE v == worker.version
           brand == BrandOf(versions[v])
<1>0. v # 0 BY DEF WriteJob
<1>1. /\ v \in DOMAIN versions
      /\ canonical' = {r \in canonical : pages[r].brand # brand} \cup Winners(pages', brand)
      /\ versions' = versions /\ worker' = Resting
  BY JobRows
<1>2. PICK classes :
         /\ IsFiniteSet(classes)
         /\ DOMAIN pages' = DOMAIN pages \cup ({v} \X classes)
         /\ \A r \in {v} \X classes : pages'[r].brand = brand
         /\ \A r \in DOMAIN pages \ ({v} \X classes) : pages'[r] = pages[r]
  BY JobRows
<1>3. IsFiniteSet(DOMAIN pages')
  <2>1. IsFiniteSet({v}) BY FS_Singleton
  <2>2. IsFiniteSet({v} \X classes) BY <1>2, <2>1, FS_Product
  <2> DEFINE new == {v} \X classes
  <2>3. DOMAIN pages' = DOMAIN pages \cup new /\ IsFiniteSet(new) BY <1>2, <2>2
  <2> HIDE DEF new
  <2>4. IsFiniteSet(DOMAIN pages) BY DEF ListIInv
  <2>5. IsFiniteSet(DOMAIN pages \cup new) BY <2>3, <2>4, FS_Union
  <2> QED BY <2>3, <2>5
<1>4. ASSUME NEW r \in DOMAIN pages'
      PROVE  /\ r[1] \in DOMAIN versions
             /\ pages'[r].brand = BrandOf(versions[r[1]])
             /\ pages'[r].brand \notin SuppressedSlugs => versions[r[1]].public
  <2>1. CASE r \in {v} \X classes
    <3>1. r[1] = v /\ pages'[r].brand = brand BY <1>2, <2>1
    <3> QED BY <1>0, <1>1, <3>1 DEF ListIInv
  <2>2. CASE r \notin {v} \X classes
    <3>1. r \in DOMAIN pages /\ pages'[r] = pages[r] BY <1>2, <2>2
    <3> QED BY <3>1 DEF ListIInv
  <2> QED BY <2>1, <2>2
<1>5. ASSUME NEW r \in DOMAIN pages'
      PROVE  \E q \in DOMAIN pages' \cap canonical' : Alike(r, q)'
  <2>1. CASE pages'[r].brand = brand
    <3>1. PICK w \in Winners(pages', brand) \cap DOMAIN pages' :
             pages'[w].brand = brand /\ w[2] = r[2]
      BY <1>3, <1>4, <2>1, WinnerExists
    <3>2. Alike(r, w)' BY <2>1, <3>1 DEF Alike
    <3> QED BY <1>1, <3>1, <3>2
  <2>2. CASE pages'[r].brand # brand
    <3>1. r \in DOMAIN pages /\ pages'[r] = pages[r] BY <1>2, <2>2
    <3>2. PICK q \in DOMAIN pages \cap canonical : Alike(r, q) BY <3>1 DEF ListIInv
    <3>3. pages[q].brand = pages[r].brand /\ pages[q].brand # brand
      BY <2>2, <3>1, <3>2 DEF Alike
    <3>4. q \notin {v} \X classes BY <3>2, <3>3 DEF ListIInv
    <3>5. q \in DOMAIN pages' /\ pages'[q] = pages[q] BY <1>2, <3>2, <3>4
    <3>6. q \in canonical' BY <1>1, <3>2, <3>3
    <3>7. Alike(r, q)' BY <3>1, <3>2, <3>5 DEF Alike
    <3> QED BY <3>5, <3>6, <3>7
  <2> QED BY <2>1, <2>2
<1>6. worker'.version = 0 BY <1>1 DEF Resting
<1> QED BY <1>1, <1>3, <1>4, <1>5, <1>6 DEF ListIInv, BrandOf

\* Each step keeps the invariant.
LEMMA ListStep == Types /\ ListIInv /\ [Next]_vars => ListIInv'
<1> SUFFICES ASSUME Types, ListIInv, [Next]_vars PROVE ListIInv'
  OBVIOUS
<1>a. ASSUME UNCHANGED <<tables, library>>, worker' = worker \/ worker' = Resting
      PROVE  ListIInv'
  <2>1. \A v \in DOMAIN versions : v \in DOMAIN versions' /\ versions'[v] = versions[v]
    BY <1>a DEF tables
  <2> QED BY <1>a, <2>1, ListKept
<1>1. CASE Sync \/ StartSeed \/ StartBootstrap \/ BootstrapSingle \/ SkipAsset \/ PutZip
             \/ EndRefresh \/ LoseJob \/ UNCHANGED vars
  BY <1>1, <1>a DEF Sync, StartSeed, StartBootstrap, BootstrapSingle, SkipAsset, PutZip,
                    EndRefresh, LoseJob, vars
<1>2. ASSUME NEW b \in Brands, DeleteBrandRows(b) PROVE ListIInv'
  BY <1>2, ListDeleted
<1>3. CASE SeedAsset
  <2> DEFINE t == UpsertExtraction(txn, Head(op.todo), runs)
  <2>1. IsTxn(t) BY ExtractionType DEF Types
  <2>2. Written(t) BY <1>3 DEF SeedAsset, Written
  <2> QED BY <1>3, <2>1, <2>2, ListWritten DEF SeedAsset
<1>4. CASE EndAssets \/ SeedFails \/ Crash
  <2>1. IsTxn(txn) BY DEF Types
  <2>2. Written(txn) BY <1>4 DEF EndAssets, SeedFails, Crash, Written
  <2> QED BY <1>4, <2>1, <2>2, ListWritten DEF EndAssets, SeedFails, Crash
<1>5. CASE Mine
  <2> DEFINE t == FoldLeft(UpsertMined, txn, MinedOf(op.seen))
  <2>1. IsTxn(t) /\ IsTxn(txn) BY MineType DEF Types
  <2>2. Written(t) \/ Written(txn) BY <1>5 DEF Mine, Written
  <2>3. UNCHANGED <<disk, library, runs, worker>> BY <1>5 DEF Mine
  <2> HIDE DEF t
  <2> QED BY <2>1, <2>2, <2>3, ListWritten
<1>6. CASE SuppressSeedBrands BY <1>6, ListSuppressed
<1>7. CASE ReconcileAliases BY <1>7, ListReconciled
<1>8. CASE StartJob
  <2> DEFINE v == Head(queue)
  <2>1. UNCHANGED <<tables, library>> BY <1>8 DEF StartJob
  <2>2. CASE versions[v].public
    <3>1. worker'.version = v BY <1>8, <2>2 DEF StartJob
    <3>2. UNCHANGED <<versions, pages, canonical>> BY <2>1 DEF tables, library
    <3>3. \A r, q : Alike(r, q)' <=> Alike(r, q) BY <3>2 DEF Alike
    <3> QED BY <2>2, <3>1, <3>2, <3>3 DEF ListIInv
  <2>3. CASE ~versions[v].public
    <3>1. worker' = worker BY <1>8, <2>3 DEF StartJob
    <3> QED BY <1>a, <2>1, <3>1
  <2> QED BY <2>2, <2>3
<1>9. CASE WriteJob BY <1>9, ListIndexed
<1> QED
  BY <1>1, <1>2, <1>3, <1>4, <1>5, <1>6, <1>7, <1>8, <1>9
  DEF Next, Operate, Script, Drain

\* The path of a category asks for the page's own slug, or for an alias of it.
LEMMA SlugAsked ==
    ASSUME NEW brand, NEW category, NEW slug,
           CanonicalPublicCategory(category) = CanonicalPublicCategory(slug)
    PROVE  LET asked == PublicSlug(brand, category) IN
           \/ slug = asked
           \/ slug = CanonicalPublicCategory(asked)
           \/ slug \in DOMAIN DrlToPublicCategory /\ CanonicalPublicCategory(slug) = asked
<1> DEFINE k == CanonicalPublicCategory(category)
           forms == {c \in DOMAIN DrlToPublicCategory : DrlToPublicCategory[c] = "form-fields"}
<1>1. slug = k \/ slug \in DOMAIN DrlToPublicCategory BY DEF CanonicalPublicCategory
<1>2. CASE brand = "apple" /\ k = "form-fields"
  <2>1. PublicSlug(brand, category) = "forms" BY <1>2 DEF PublicSlug
  <2>2. forms = {"forms"} BY AliasAssumption
  <2>3. CanonicalPublicCategory("forms") = "form-fields"
    <3>1. "forms" \in forms BY <2>2
    <3> QED BY <3>1 DEF CanonicalPublicCategory
  <2>4. slug = "form-fields" \/ slug \in forms
    BY <1>2 DEF CanonicalPublicCategory
  <2> QED BY <2>1, <2>2, <2>3, <2>4
<1>3. CASE ~(brand = "apple" /\ k = "form-fields")
  <2>1. PublicSlug(brand, category) = k BY <1>3 DEF PublicSlug
  <2> QED BY <1>1, <2>1
<1> QED BY <1>2, <1>3

\* No route answers a path that one of its validators refuses.
LEMMA RefusedUnanswered ==
    ASSUME NEW p, ~Accepted(p)
    PROVE  Serve(lib, p) = {}
BY DEF Accepted, Serve, GetBrandCanonical, GetBrandVersionSnapshot,
       GetBrandCategoryCanonical, GetBrandCategoryVersion

\* A path and the same path under another name of its category are refused alike.
LEMMA AliasAccepted ==
    ASSUME NEW p, DOMAIN p = {"brand", "category", "label"}, NEW x \in UnderAlias(p)
    PROVE  Accepted(x) <=> Accepted(p)
<1>1. PICK c \in DOMAIN DrlToPublicCategory :
         CanonicalPublicCategory(c) = p.category /\ x = [p EXCEPT !.category = c]
  BY DEF UnderAlias
<1>2. p.category = DrlToPublicCategory[c] BY <1>1 DEF CanonicalPublicCategory
<1>3. {c, p.category} \cap (MalformedCategory \cup {"none"}) = {} BY <1>2, AliasAssumption
<1>4. x.brand = p.brand /\ x.label = p.label /\ x.category = c BY <1>1
<1> QED BY <1>3, <1>4 DEF Accepted, ValidCategorySlug

\* The canonical page of a listed row answers its path.
LEMMA ListShown == Types /\ ListIInv => ListedResolves
<1>a. ASSUME NEW p \in Sitemap(lib), ~Accepted(p)
      PROVE  \A x \in {p} \cup UnderAlias(p) : Serve(lib, x) = {}
  <2>1. DOMAIN p = {"brand", "category", "label"} BY <1>a DEF Sitemap
  <2> QED BY <1>a, <2>1, AliasAccepted, RefusedUnanswered
<1> SUFFICES ASSUME Types, ListIInv,
                    NEW p \in Sitemap(lib), p.brand \notin SuppressedSlugs, Accepted(p)
             PROVE  \E q \in {p} \cup UnderAlias(p) : Serve(lib, q) # {}
  BY <1>a DEF ListedResolves
<1> DEFINE b == p.brand
           rows == BrandRows(lib, b)
<1>0. lib.pages = pages /\ lib.versions = versions /\ lib.canonical = canonical BY DEF lib
<1>1. PICK r \in PublicRows(lib) :
            /\ b = pages[r].brand /\ DOMAIN p = {"brand", "category", "label"}
            /\ p.category \in {"none", PublicSlug(b, r[2])}
            /\ p.label \in {"none", pages[r].label}
  BY <1>0 DEF Sitemap
<1>2. \A x \in DOMAIN pages : pages[x].brand = b => x \in rows
  BY <1>0 DEF BrandRows, PublicRows, ListIInv
<1>3. r \in DOMAIN pages /\ r \in rows BY <1>0, <1>1, <1>2 DEF PublicRows
<1>4. PICK q \in DOMAIN pages \cap canonical : Alike(r, q) BY <1>3 DEF ListIInv
<1>5. /\ q \in CanonicalRows(lib, b)
      /\ CanonicalPublicCategory(r[2]) = CanonicalPublicCategory(q[2])
  BY <1>0, <1>1, <1>2, <1>4 DEF Alike, CanonicalRows
<1>6. \A some \in SUBSET rows : some # {} => Newest(lib, some) # {}
  <2>1. rows \subseteq DOMAIN pages BY <1>0 DEF BrandRows, PublicRows
  <2>2. \A some \in SUBSET rows : IsFiniteSet(some) BY <2>1, FS_Subset DEF ListIInv
  <2>3. \A x \in rows : x[1] \in DOMAIN versions BY <2>1 DEF ListIInv
  <2> QED BY <2>2, <2>3, NewestExists
<1>7. CanonicalRows(lib, b) \in SUBSET rows BY DEF CanonicalRows
<1> HIDE DEF rows
<1>b. /\ ValidBrandSlug(b)
      /\ p.category # "none" => ValidCategorySlug(p.category)
      /\ p.label # "none" => ValidVersionLabel(p.label)
  BY DEF Accepted
<1>c. \A slug \in DOMAIN DrlToPublicCategory : ValidCategorySlug(slug) /\ slug # "none"
  BY AliasAssumption DEF ValidCategorySlug
\* Each route finds the row whose slug it is asked for.
<1>8. GetBrandCanonical(lib, b) # {}
  <2>1. Newest(lib, CanonicalRows(lib, b)) # {} BY <1>5, <1>6, <1>7
  <2> QED BY <1>b, <2>1 DEF GetBrandCanonical, FirstAnswer
<1>9. ValidVersionLabel(pages[r].label) =>
          GetBrandVersionSnapshot(lib, b, pages[r].label) # {}
  <2> DEFINE some == {x \in rows : lib.pages[x].label = pages[r].label}
  <2>1. some \in SUBSET rows /\ r \in some BY <1>0, <1>3
  <2> HIDE DEF some
  <2>2. Newest(lib, some) # {} BY <1>6, <2>1
  <2> QED BY <1>b, <2>2 DEF GetBrandVersionSnapshot, some, rows
<1>10. \A slug : ValidCategorySlug(slug) /\ q[2] \in {slug, CanonicalPublicCategory(slug)} =>
          GetBrandCategoryCanonical(lib, b, slug) # {}
  <2>1. Newest(lib, InCategory(CanonicalRows(lib, b), q[2])) # {}
    <3>1. /\ InCategory(CanonicalRows(lib, b), q[2]) \in SUBSET rows
          /\ q \in InCategory(CanonicalRows(lib, b), q[2])
      BY <1>5, <1>7 DEF InCategory
    <3> QED BY <1>6, <3>1
  <2> QED BY <1>b, <2>1 DEF GetBrandCategoryCanonical, FirstAnswer
<1>11. \A slug : r[2] \in {slug, CanonicalPublicCategory(slug)} =>
          CategoryVersionLookup(lib, b, slug, pages[r].label) # {}
  <2> DEFINE labelled == {x \in InCategory(BrandRows(lib, b), r[2]) :
                             lib.pages[x].label = pages[r].label}
             best == IF labelled \cap lib.canonical # {} THEN labelled \cap lib.canonical
                                                        ELSE labelled
  <2>1. labelled \in SUBSET rows /\ r \in labelled BY <1>0, <1>3 DEF InCategory, rows
  <2> HIDE DEF labelled
  <2>2. best \in SUBSET rows /\ best # {} BY <2>1
  <2>3. Newest(lib, best) # {}
    <3> HIDE DEF best
    <3> QED BY <1>6, <2>2
  <2> QED BY <2>3 DEF CategoryVersionLookup, FirstAnswer, labelled
\* The path, and the path under another slug.
<1>12. \A slug \in DOMAIN DrlToPublicCategory :
          CanonicalPublicCategory(slug) = p.category =>
              \E x \in UnderAlias(p) : x.brand = b /\ x.category = slug /\ x.label = p.label
  <2> SUFFICES ASSUME NEW slug \in DOMAIN DrlToPublicCategory,
                      CanonicalPublicCategory(slug) = p.category
               PROVE  \E x \in UnderAlias(p) :
                          x.brand = b /\ x.category = slug /\ x.label = p.label
    OBVIOUS
  <2>1. [p EXCEPT !.category = slug] \in UnderAlias(p) BY DEF UnderAlias
  <2>2. /\ [p EXCEPT !.category = slug].brand = b
        /\ [p EXCEPT !.category = slug].category = slug
        /\ [p EXCEPT !.category = slug].label = p.label
    BY <1>1
  <2> QED BY <2>1, <2>2
<1>13. CASE p.category = "none"
  <2>1. Serve(lib, p) # {} BY <1>1, <1>8, <1>9, <1>13, <1>b DEF Serve
  <2> QED BY <2>1
<1>14. CASE p.category # "none" /\ p.label = "none"
  <2>1. PublicSlug(b, r[2]) = p.category BY <1>1, <1>14
  <2>2. \/ q[2] \in {p.category, CanonicalPublicCategory(p.category)}
        \/ q[2] \in DOMAIN DrlToPublicCategory /\ CanonicalPublicCategory(q[2]) = p.category
    BY <1>5, <2>1, SlugAsked
  <2>3. CASE q[2] \in {p.category, CanonicalPublicCategory(p.category)}
    <3>1. GetBrandCategoryCanonical(lib, b, p.category) # {} BY <1>10, <1>14, <1>b, <2>3
    <3>2. Serve(lib, p) # {} BY <1>14, <3>1 DEF Serve
    <3> QED BY <3>2
  <2>4. CASE q[2] \in DOMAIN DrlToPublicCategory /\ CanonicalPublicCategory(q[2]) = p.category
    <3>1. PICK x \in UnderAlias(p) : x.brand = b /\ x.category = q[2] /\ x.label = "none"
      BY <1>12, <1>14, <2>4
    <3>2. GetBrandCategoryCanonical(lib, b, q[2]) # {} BY <1>10, <1>c, <2>4
    <3>3. q[2] # "none" BY <1>c, <2>4
    <3>4. Serve(lib, x) # {} BY <3>1, <3>2, <3>3 DEF Serve
    <3> QED BY <3>1, <3>4
  <2> QED BY <2>2, <2>3, <2>4
<1>15. CASE p.category # "none" /\ p.label # "none"
  <2>1. PublicSlug(b, r[2]) = p.category /\ p.label = pages[r].label BY <1>1, <1>15
  <2>2. \/ r[2] \in {p.category, CanonicalPublicCategory(p.category)}
        \/ r[2] \in DOMAIN DrlToPublicCategory /\ CanonicalPublicCategory(r[2]) = p.category
    BY <2>1, SlugAsked
  <2>3. CASE r[2] \in {p.category, CanonicalPublicCategory(p.category)}
    <3>1. CategoryVersionLookup(lib, b, p.category, p.label) # {} BY <1>11, <2>1, <2>3
    <3>2. GetBrandCategoryVersion(lib, b, p.category, p.label) # {}
      BY <1>15, <1>b, <3>1 DEF GetBrandCategoryVersion
    <3>3. Serve(lib, p) # {} BY <1>15, <3>2 DEF Serve
    <3> QED BY <3>3
  <2>4. CASE r[2] \in DOMAIN DrlToPublicCategory /\ CanonicalPublicCategory(r[2]) = p.category
    <3>1. PICK x \in UnderAlias(p) : x.brand = b /\ x.category = r[2] /\ x.label = pages[r].label
      BY <1>12, <2>1, <2>4
    <3>2. CategoryVersionLookup(lib, b, r[2], pages[r].label) # {} BY <1>11
    <3>3. GetBrandCategoryVersion(lib, b, r[2], p.label) # {}
      BY <1>15, <1>b, <1>c, <2>1, <2>4, <3>2 DEF GetBrandCategoryVersion
    <3>4. r[2] # "none" BY <1>c, <2>4
    <3>5. Serve(lib, x) # {} BY <1>15, <2>1, <3>1, <3>3, <3>4 DEF Serve
    <3> QED BY <3>1, <3>5
  <2> QED BY <2>2, <2>3, <2>4
<1> QED BY <1>13, <1>14, <1>15

\* The tables, the transaction and the script keep their types: a transaction sees
\* every committed version as it is, every job is of a version there is, and an idle
\* script has nothing uncommitted.
THEOREM TypesHold == Spec => []Types
<1>1. Init => Types BY TypesInit
<1>2. Types /\ [Next]_vars => Types' BY TypesStep
<1> QED BY <1>1, <1>2, PTL DEF Spec

\* A path the sitemap lists for a brand that is not suppressed is answered by the
\* routes exactly if no validator of theirs refuses it, through refreshes, crashes,
\* suppressions, reconciliations and elections.
THEOREM ListedHolds == Spec => []ListedResolves
<1>1. Init => Types /\ ListIInv BY TypesInit, ListInit
<1>2. Types /\ ListIInv /\ [Next]_vars => (Types /\ ListIInv)' BY TypesStep, ListStep
<1>3. Types /\ ListIInv => ListedResolves BY ListShown
<1> QED BY <1>1, <1>2, <1>3, PTL DEF Spec

-----------------------------------------------------------------------------
(* What a script has seeded. *)

Pairs == ToSet(IterAssets(corpus))

Synthetics == UNION {ToSet(MinedSynthetics(corpus[s])) : s \in DOMAIN corpus}

\* The version is indexed or about to be, once t is committed.
IndexedIn(t, v) ==
    \/ Live(v) \/ v \in ToSet(t.jobs)
    \/ ~t.versions[v].public
    \/ \E r \in DOMAIN pages : r[1] = v

\* SeededWhole and MinedWhole, as the transaction t sees the tables.
WholeIn(t, pair) ==
    LET url == SourceUrl(pair)
        v == t.extractions[url].version
    IN /\ url \in DOMAIN t.extractions /\ url \in DOMAIN store
       /\ t.extractions[url].zip = store[url]
       /\ v \in DOMAIN t.versions
       /\ t.versions[v].url = url /\ t.versions[v].dtcg = SeededBundle(pair)
       /\ pair.asset.html # NoHtml =>
              v \in DOMAIN t.components /\ t.components[v] = ComponentOf(pair.asset.html)
       /\ IndexedIn(t, v)

MinedIn(t, synthetic) ==
    \E v \in DOMAIN t.versions \cap DOMAIN t.components :
        /\ t.versions[v].url = synthetic.url /\ t.versions[v].dtcg = synthetic.dtcg
        /\ t.components[v] = synthetic.component
        /\ IndexedIn(t, v)

\* The pairs the script has still to seed, and those it is done with.
AllOf(batches) == UNION {ToSet(batch) : batch \in ToSet(batches)}

Todo == ToSet(op.todo) \cup AllOf(op.later)

Done == {pair \in Pairs : /\ Usable(pair) /\ pair.system.slug \in op.scope
                          /\ pair \notin Todo}

\* The systems whose atoms it has still to mine.
ToMine == IF op.pc \in {"asset", "put", "mining"} THEN op.seen ELSE {}

Going == op.pc \in {"asset", "put", "mining", "draining"} \/ op.result = "ok"

ScriptIInv ==
    /\ IsList(op.todo) /\ IsList(op.later)
    /\ \A batch \in ToSet(op.later) : IsList(batch)
    /\ Todo \subseteq Pairs
    /\ op.batch \in Nat /\ op.failed \in BOOLEAN
    /\ op.pc \in {"idle", "mining", "draining"} => op.todo = <<>>
    /\ op.pc \in {"idle", "draining"} => op.later = <<>> /\ ~op.failed
    /\ op.pc = "mining" => op.batch = 0
    /\ op.result = "ok" => op.pc = "idle"
    /\ op.pc = "put" => LET url == SourceUrl(Head(op.todo)) IN
           op.todo # <<>> /\ url \in DOMAIN store /\ store[url] = runs
    /\ ~op.failed /\ op.batch = 0 => txn = NoTxn

SeedIInv ==
    Going /\ ~op.failed =>
        \A pair \in Done :
            /\ WholeIn(txn, pair)
            /\ \/ pair.system.slug \in ToMine
               \/ \A synthetic \in ToSet(MinedSynthetics(pair.system)) : MinedIn(txn, synthetic)

\* A list with a function of each element in its place.
LEMMA MappedList ==
    ASSUME NEW s, IsList(s), NEW t, t = [i \in DOMAIN s |-> t[i]]
    PROVE  IsList(t) /\ ToSet(t) = {t[i] : i \in DOMAIN s}
<1>1. Len(s) \in Nat /\ DOMAIN s = 1..Len(s) BY ListIsSeq
<1>2. DOMAIN t = DOMAIN s OBVIOUS
<1>3. t \in Seq({t[i] : i \in DOMAIN s}) BY <1>1
<1> QED BY <1>2, <1>3, SeqIsList DEF ToSet

\* The pairs of a list of systems.
LEMMA IterList ==
    ASSUME NEW systems, IsList(systems), \A s \in DOMAIN systems : IsList(systems[s].assets)
    PROVE  /\ IsList(IterAssets(systems))
           /\ \A pair : pair \in ToSet(IterAssets(systems)) <=>
                 \E s \in DOMAIN systems : \E a \in ToSet(systems[s].assets) :
                     pair = [system |-> systems[s], asset |-> a]
<1> DEFINE part(s) == [a \in DOMAIN systems[s].assets |->
                          [system |-> systems[s], asset |-> systems[s].assets[a]]]
           parts == [s \in DOMAIN systems |-> part(s)]
<1>1. ASSUME NEW s \in DOMAIN systems
      PROVE  /\ IsList(parts[s])
             /\ ToSet(parts[s]) = {[system |-> systems[s], asset |-> a] :
                                      a \in ToSet(systems[s].assets)}
  <2> DEFINE t == part(s)
  <2>1. t = [i \in DOMAIN systems[s].assets |-> t[i]] OBVIOUS
  <2>2. \A i \in DOMAIN systems[s].assets :
            t[i] = [system |-> systems[s], asset |-> systems[s].assets[i]]
    OBVIOUS
  <2>3. parts[s] = t OBVIOUS
  <2> HIDE DEF t, parts
  <2>4. IsList(t) /\ ToSet(t) = {t[i] : i \in DOMAIN systems[s].assets}
    BY <2>1, MappedList
  <2>5. {t[i] : i \in DOMAIN systems[s].assets}
            = {[system |-> systems[s], asset |-> a] : a \in ToSet(systems[s].assets)}
    BY <2>2 DEF ToSet
  <2> QED BY <2>3, <2>4, <2>5
<1>2. parts = [s \in DOMAIN systems |-> parts[s]] OBVIOUS
<1>3. IterAssets(systems) = FlattenSeq(parts) BY DEF IterAssets
<1> HIDE DEF parts
<1>4. IsList(parts) BY <1>2, MappedList
<1>5. DOMAIN parts = DOMAIN systems BY <1>2
<1>6. /\ IsList(IterAssets(systems))
      /\ ToSet(IterAssets(systems)) = UNION {ToSet(parts[s]) : s \in DOMAIN parts}
  BY <1>1, <1>3, <1>4, <1>5, FlattenList
<1> QED BY <1>1, <1>5, <1>6

\* The pairs of the corpus.
LEMMA PairsOfCorpus ==
    ASSUME disk \in DOMAIN Corpora
    PROVE  /\ IsList(IterAssets(corpus))
           /\ \A pair : pair \in Pairs <=>
                 \E s \in DOMAIN corpus : \E a \in ToSet(corpus[s].assets) :
                     pair = [system |-> corpus[s], asset |-> a]
<1>1. IsList(corpus) /\ \A s \in DOMAIN corpus : IsList(corpus[s].assets)
  BY CorpusIsCorpus DEF IsCorpus
<1> QED BY <1>1, IterList DEF Pairs

\* An asset is known by its url.
LEMMA UrlOfPair ==
    ASSUME disk \in DOMAIN Corpora, NEW x \in Pairs, NEW y \in Pairs,
           SourceUrl(x) = SourceUrl(y)
    PROVE  x = y
<1>1. PICK s \in DOMAIN corpus : \E a \in ToSet(corpus[s].assets) :
         x = [system |-> corpus[s], asset |-> a]
  BY PairsOfCorpus
<1>2. PICK a \in ToSet(corpus[s].assets) : x = [system |-> corpus[s], asset |-> a]
  BY <1>1
<1>3. PICK z \in DOMAIN corpus : \E b \in ToSet(corpus[z].assets) :
         y = [system |-> corpus[z], asset |-> b]
  BY PairsOfCorpus
<1>4. PICK b \in ToSet(corpus[z].assets) : y = [system |-> corpus[z], asset |-> b]
  BY <1>3
<1>5. corpus[s].slug = corpus[z].slug /\ a.class = b.class /\ a.slug = b.slug
  BY <1>2, <1>4 DEF SourceUrl
<1>6. s = z BY <1>5, CorpusIsCorpus DEF IsCorpus
<1>7. a = b BY <1>5, <1>6, CorpusIsCorpus DEF IsCorpus
<1> QED BY <1>2, <1>4, <1>6, <1>7

\* So is an atom.
LEMMA SyntheticOf ==
    ASSUME NEW system
    PROVE  \A x \in ToSet(MinedSynthetics(system)) :
              /\ x.url.system = system.slug /\ x.url.mined
              /\ \A y \in ToSet(MinedSynthetics(system)) : x.url = y.url => x = y
<1> DEFINE ms == MinedSynthetics(system)
           open == Among(MineableClasses, {i \in DOMAIN MineableClasses :
                    LET c == MineableClasses[i] IN
                    c \notin StandaloneClasses(system) /\ WholesYielding(system, c) # <<>>})
           whole(c) == WholesYielding(system, c)[1]
           mined(c) == MineAtom(whole(c).html, c)
           atom(c) == [url |-> [system |-> system.slug, class |-> c,
                                slug |-> whole(c).slug, mined |-> TRUE],
                       dtcg |-> [class |-> c, slug |-> whole(c).slug, tags |-> {},
                                 applicable |-> whole(c).applicable, tier |-> system.tier,
                                 category |-> system.category,
                                 principles |-> system.principles,
                                 tokens |-> whole(c).tokens, mined |-> TRUE],
                       component |-> [kind |-> "component", html |-> mined(c).html,
                                      css |-> mined(c).css, states |-> mined(c).states,
                                      fontLinks |-> <<>>]]
<1>1. ms = [i \in DOMAIN open |-> atom(open[i])] BY DEF MinedSynthetics
<1> HIDE DEF ms, open
<1>2. ASSUME NEW x \in ToSet(ms) PROVE \E c : x = atom(c)
  BY <1>1 DEF ToSet
<1>3. \A c : /\ atom(c).url.system = system.slug /\ atom(c).url.mined
             /\ atom(c).url.class = c
  OBVIOUS
<1> HIDE DEF atom
<1> SUFFICES ASSUME NEW x \in ToSet(ms)
             PROVE  /\ x.url.system = system.slug /\ x.url.mined
                    /\ \A y \in ToSet(ms) : x.url = y.url => x = y
  BY DEF ms
<1>4. PICK c : x = atom(c) BY <1>2
<1>5. ASSUME NEW y \in ToSet(ms), x.url = y.url PROVE x = y
  <2>1. PICK d : y = atom(d) BY <1>2
  <2>2. c = d
    <3>1. x.url.class = c /\ y.url.class = d BY <1>3, <1>4, <2>1
    <3> QED BY <1>5, <3>1
  <2> QED BY <1>4, <2>1, <2>2
<1> QED BY <1>3, <1>4, <1>5

\* An atom of the corpus is known by its url.
LEMMA UrlOfSynthetic ==
    ASSUME disk \in DOMAIN Corpora, NEW x \in Synthetics, NEW y \in Synthetics, x.url = y.url
    PROVE  x = y
<1>1. PICK s \in DOMAIN corpus : x \in ToSet(MinedSynthetics(corpus[s])) BY DEF Synthetics
<1>2. PICK z \in DOMAIN corpus : y \in ToSet(MinedSynthetics(corpus[z])) BY DEF Synthetics
<1>3. corpus[s].slug = corpus[z].slug BY <1>1, <1>2, SyntheticOf
<1>4. s = z BY <1>3, CorpusIsCorpus DEF IsCorpus
<1> QED BY <1>1, <1>2, <1>4, SyntheticOf

\* No atom has the url of an asset.
LEMMA UrlsApart ==
    ASSUME NEW x \in Synthetics, NEW pair
    PROVE  x.url # SourceUrl(pair)
<1>1. x.url.mined BY SyntheticOf DEF Synthetics
<1>2. SourceUrl(pair).mined = FALSE BY DEF SourceUrl
<1> QED BY <1>1, <1>2

\* The transaction u has what t has, and a version v of the url.
Adds(t, u, v, url) ==
    /\ \A x \in DOMAIN t.versions : x \in DOMAIN u.versions /\ u.versions[x] = t.versions[x]
    /\ v \in DOMAIN u.versions /\ u.versions[v].url = url
    /\ \A x \in DOMAIN t.components \ {v} :
          x \in DOMAIN u.components /\ u.components[x] = t.components[x]
    /\ \A x \in DOMAIN t.extractions \ {url} :
          x \in DOMAIN u.extractions /\ u.extractions[x] = t.extractions[x]
    /\ ToSet(t.jobs) \subseteq ToSet(u.jobs)
    /\ Live(v) \/ v \in ToSet(u.jobs)

\* What is there of another url stays.
LEMMA AddsKeeps ==
    ASSUME NEW t, NEW u, NEW v, NEW url, Adds(t, u, v, url)
    PROVE  /\ \A pair : SourceUrl(pair) # url /\ WholeIn(t, pair) => WholeIn(u, pair)
           /\ \A x : x.url # url /\ MinedIn(t, x) => MinedIn(u, x)
<1>1. \A x \in DOMAIN t.versions : IndexedIn(t, x) => IndexedIn(u, x)
  BY DEF Adds, IndexedIn
<1>2. ASSUME NEW pair, SourceUrl(pair) # url, WholeIn(t, pair) PROVE WholeIn(u, pair)
  <2> DEFINE own == SourceUrl(pair)
             x == t.extractions[own].version
  <2>1. own \in DOMAIN u.extractions /\ u.extractions[own] = t.extractions[own]
    BY <1>2 DEF Adds, WholeIn
  <2>2. x \in DOMAIN t.versions /\ t.versions[x].url = own BY <1>2 DEF WholeIn
  <2>3. x \in DOMAIN u.versions /\ u.versions[x] = t.versions[x] BY <2>2 DEF Adds
  <2>4. x # v BY <1>2, <2>2, <2>3 DEF Adds
  <2>5. x \in DOMAIN t.components => x \in DOMAIN u.components /\ u.components[x] = t.components[x]
    BY <2>4 DEF Adds
  <2>6. IndexedIn(u, x) BY <1>1, <1>2, <2>2 DEF WholeIn
  <2> HIDE DEF own
  <2> QED BY <1>2, <2>1, <2>3, <2>5, <2>6 DEF WholeIn, own
<1>3. ASSUME NEW x, x.url # url, MinedIn(t, x) PROVE MinedIn(u, x)
  <2>1. PICK w \in DOMAIN t.versions \cap DOMAIN t.components :
           /\ t.versions[w].url = x.url /\ t.versions[w].dtcg = x.dtcg
           /\ t.components[w] = x.component
           /\ IndexedIn(t, w)
    BY <1>3 DEF MinedIn
  <2>2. w \in DOMAIN u.versions /\ u.versions[w] = t.versions[w] BY <2>1 DEF Adds
  <2>3. w # v BY <1>3, <2>1, <2>2 DEF Adds
  <2>4. w \in DOMAIN u.components /\ u.components[w] = t.components[w] BY <2>1, <2>3 DEF Adds
  <2>5. IndexedIn(u, w) BY <1>1, <2>1
  <2> QED BY <2>1, <2>2, <2>4, <2>5 DEF MinedIn
<1> QED BY <1>2, <1>3

\* upsert_extraction makes its pair whole, given its zip in the object store.
LEMMA ExtractionAdds ==
    ASSUME NEW t, IsTxn(t), runs \in Nat, NEW pair
    PROVE  LET u == UpsertExtraction(t, pair, runs)
               url == SourceUrl(pair)
           IN /\ \E v : Adds(t, u, v, url)
              /\ url \in DOMAIN store /\ store[url] = runs => WholeIn(u, pair)
<1> DEFINE u == UpsertExtraction(t, pair, runs)
           url == SourceUrl(pair)
           got == InsertOrReuse(t, url, SeededBundle(pair), "bootstrap")
           v == got.id
<1>1. /\ u.versions = got.versions /\ u.jobs = Enqueue(t, v)
      /\ u.components = IF pair.asset.html = NoHtml THEN t.components
                        ELSE Put(t.components, v, ComponentOf(pair.asset.html))
      /\ u.extractions = Put(t.extractions, url, [version |-> v, zip |-> runs])
  BY DEF UpsertExtraction, InsertComponent
<1>2. /\ \A x \in DOMAIN t.versions : x \in DOMAIN got.versions /\ got.versions[x] = t.versions[x]
      /\ v \in DOMAIN got.versions
      /\ got.versions[v].url = url /\ got.versions[v].dtcg = SeededBundle(pair)
  BY InsertRow DEF IsTxn
<1> HIDE DEF u, url, got, v
<1>3. /\ ToSet(t.jobs) \subseteq ToSet(u.jobs)
      /\ Live(v) \/ v \in ToSet(u.jobs)
  BY <1>1, EnqueueType DEF IsTxn
<1>4. /\ \A x \in DOMAIN t.components \ {v} :
            x \in DOMAIN u.components /\ u.components[x] = t.components[x]
      /\ pair.asset.html # NoHtml =>
            v \in DOMAIN u.components /\ u.components[v] = ComponentOf(pair.asset.html)
  BY <1>1 DEF Put
<1>5. /\ \A x \in DOMAIN t.extractions \ {url} :
            x \in DOMAIN u.extractions /\ u.extractions[x] = t.extractions[x]
      /\ url \in DOMAIN u.extractions
      /\ u.extractions[url].version = v /\ u.extractions[url].zip = runs
  BY <1>1 DEF Put
<1>6. Adds(t, u, v, url) BY <1>1, <1>2, <1>3, <1>4, <1>5 DEF Adds
<1>7. ASSUME url \in DOMAIN store, store[url] = runs PROVE WholeIn(u, pair)
  <2>1. IndexedIn(u, v) BY <1>3 DEF IndexedIn
  <2> QED BY <1>1, <1>2, <1>4, <1>5, <1>7, <2>1 DEF WholeIn, url
<1> QED BY <1>6, <1>7 DEF u, url

\* So does the upsert of a mined atom.
LEMMA MinedAdds ==
    ASSUME NEW t, IsTxn(t), runs \in Nat, NEW synthetic
    PROVE  LET u == UpsertMined(t, synthetic)
           IN (\E v : Adds(t, u, v, synthetic.url)) /\ MinedIn(u, synthetic)
<1> DEFINE u == UpsertMined(t, synthetic)
           got == InsertOrReuse(t, synthetic.url, synthetic.dtcg, "mined")
           v == got.id
<1>1. /\ u.versions = got.versions /\ u.jobs = Enqueue(t, v)
      /\ u.components = Put(t.components, v, synthetic.component)
      /\ u.extractions = t.extractions
  <2>1. DOMAIN t = {"versions", "components", "extractions", "jobs"} BY DEF IsTxn
  <2>2. u = [t EXCEPT !.versions = got.versions,
                      !.components = InsertComponent(t, v, synthetic.component),
                      !.jobs = Enqueue(t, v)]
    BY DEF UpsertMined
  <2> HIDE DEF u, got, v
  <2> QED BY <2>1, <2>2 DEF InsertComponent
<1>2. /\ \A x \in DOMAIN t.versions : x \in DOMAIN got.versions /\ got.versions[x] = t.versions[x]
      /\ v \in DOMAIN got.versions
      /\ got.versions[v].url = synthetic.url /\ got.versions[v].dtcg = synthetic.dtcg
  BY InsertRow DEF IsTxn
<1> HIDE DEF u, got, v
<1>3. /\ ToSet(t.jobs) \subseteq ToSet(u.jobs)
      /\ Live(v) \/ v \in ToSet(u.jobs)
  BY <1>1, EnqueueType DEF IsTxn
<1>4. /\ \A x \in DOMAIN t.components \ {v} :
            x \in DOMAIN u.components /\ u.components[x] = t.components[x]
      /\ v \in DOMAIN u.components /\ u.components[v] = synthetic.component
  BY <1>1 DEF Put
<1>5. Adds(t, u, v, synthetic.url) BY <1>1, <1>2, <1>3, <1>4 DEF Adds
<1>6. MinedIn(u, synthetic)
  <2>1. IndexedIn(u, v) BY <1>3 DEF IndexedIn
  <2> QED BY <1>1, <1>2, <1>4, <2>1 DEF MinedIn
<1> QED BY <1>5, <1>6 DEF u

\* Mining keeps what is whole and makes the atoms of its systems so.
LEMMA MineMakes ==
    ASSUME disk \in DOMAIN Corpora, NEW t, IsTxn(t), runs \in Nat, NEW systems
    PROVE  LET u == FoldLeft(UpsertMined, t, MinedOf(systems)) IN
           /\ \A pair : WholeIn(t, pair) => WholeIn(u, pair)
           /\ \A x \in Synthetics : MinedIn(t, x) \/ x \in ToSet(MinedOf(systems)) => MinedIn(u, x)
<1> DEFINE ds == MinedOf(systems)
           f == MinedFold(t, ds)
           n == Len(ds)
           V == {k \in Nat : k <= n =>
                    /\ IsTxn(f[1..k])
                    /\ \A pair : WholeIn(t, pair) => WholeIn(f[1..k], pair)
                    /\ \A x \in Synthetics :
                          MinedIn(t, x) \/ (\E i \in 1..k : x = ds[i]) => MinedIn(f[1..k], x)}
<1>1. IsList(ds) /\ n \in Nat /\ DOMAIN ds = 1..n BY MinedOfList, ListIsSeq
<1>2. /\ f[1..0] = t
      /\ \A k \in 1..n : f[1..k] = UpsertMined(f[1..(k - 1)], ds[k])
      /\ FoldLeft(UpsertMined, t, ds) = f[1..n]
  BY <1>1, MinedSolves
<1>3. \A i \in 1..n : ds[i] \in Synthetics
  <2>1. \A x \in ToSet(ds) : x \in Synthetics BY MinedOfList DEF Synthetics
  <2> HIDE DEF ds
  <2> QED BY <1>1, <2>1 DEF ToSet
<1> HIDE DEF f, ds
<1>4. 0 \in V BY <1>2
<1>5. ASSUME NEW k \in Nat, k \in V PROVE k + 1 \in V
  <2> SUFFICES ASSUME k + 1 <= n
               PROVE  /\ IsTxn(f[1..(k + 1)])
                      /\ \A pair : WholeIn(t, pair) => WholeIn(f[1..(k + 1)], pair)
                      /\ \A x \in Synthetics :
                            MinedIn(t, x) \/ (\E i \in 1..(k + 1) : x = ds[i])
                                => MinedIn(f[1..(k + 1)], x)
    OBVIOUS
  <2>1. k <= n /\ k + 1 \in 1..n /\ (k + 1) - 1 = k BY <1>1
  <2> DEFINE g == f[1..k]
             h == f[1..(k + 1)]
             y == ds[k + 1]
  <2>2. /\ IsTxn(g)
        /\ \A pair : WholeIn(t, pair) => WholeIn(g, pair)
        /\ \A x \in Synthetics :
              MinedIn(t, x) \/ (\E i \in 1..k : x = ds[i]) => MinedIn(g, x)
    BY <1>5, <2>1
  <2>3. h = UpsertMined(g, y) /\ y \in Synthetics BY <1>2, <1>3, <2>1
  <2> HIDE DEF g, h, y
  <2>4. IsTxn(h) BY <2>2, <2>3, MinedType
  <2>5. PICK v : Adds(g, h, v, y.url) BY <2>2, <2>3, MinedAdds
  <2>6. MinedIn(h, y) BY <2>2, <2>3, MinedAdds
  <2>7. \A pair : WholeIn(g, pair) => WholeIn(h, pair) BY <2>3, <2>5, AddsKeeps, UrlsApart
  <2>8. ASSUME NEW x \in Synthetics, MinedIn(g, x) \/ x = y PROVE MinedIn(h, x)
    <3>1. x.url = y.url => x = y BY <2>3, UrlOfSynthetic
    <3> QED BY <2>5, <2>6, <2>8, <3>1, AddsKeeps
  <2>9. ASSUME NEW x \in Synthetics, MinedIn(t, x) \/ (\E i \in 1..(k + 1) : x = ds[i])
        PROVE  MinedIn(h, x)
    <3>1. MinedIn(g, x) \/ x = y
      <4>1. \A i \in 1..(k + 1) : i \in 1..k \/ i = k + 1 OBVIOUS
      <4> QED BY <2>2, <2>9, <4>1 DEF y
    <3> QED BY <2>8, <3>1
  <2> QED BY <2>2, <2>4, <2>7, <2>9 DEF h
<1> HIDE DEF V
<1>6. n \in V BY <1>1, <1>4, <1>5, NatSet
<1>7. /\ \A pair : WholeIn(t, pair) => WholeIn(f[1..n], pair)
      /\ \A x \in Synthetics :
            MinedIn(t, x) \/ (\E i \in 1..n : x = ds[i]) => MinedIn(f[1..n], x)
  BY <1>1, <1>6 DEF V
<1>8. \A x \in ToSet(ds) : \E i \in 1..n : x = ds[i] BY <1>1 DEF ToSet
<1> QED BY <1>2, <1>7, <1>8 DEF ds

-----------------------------------------------------------------------------
(* The script and what it has still to do. *)

\* A script at rest has nothing to do.
LEMMA RestingScript ==
    ASSUME Types', NEW result, NEW scope, op' = [Idle(result) EXCEPT !.scope = scope]
    PROVE  /\ ScriptIInv' /\ op'.pc = "idle" /\ op'.result = result /\ op'.scope = scope
           /\ ~op'.failed /\ Todo' = {}
<1>1. /\ op'.pc = "idle" /\ op'.todo = <<>> /\ op'.later = <<>> /\ op'.batch = 0
      /\ op'.failed = FALSE /\ op'.result = result /\ op'.scope = scope
  BY DEF Idle
<1>2. IsList(<<>>) /\ ToSet(<<>>) = {} BY DEF IsList, ToSet
<1>3. txn' = NoTxn' BY <1>1 DEF Types
<1>4. Todo' = {} BY <1>1, <1>2 DEF Todo, AllOf
<1>5. IsList(op'.todo) /\ IsList(op'.later) /\ \A batch \in ToSet(op'.later) : IsList(batch)
  BY <1>1, <1>2
<1>6. op'.failed \in BOOLEAN /\ ~op'.failed
  <2>1. op'.failed = FALSE BY <1>1
  <2> QED BY <2>1, Zenon
<1>7. ScriptIInv' BY <1>1, <1>3, <1>4, <1>5, <1>6 DEF ScriptIInv
<1> QED BY <1>1, <1>4, <1>6, <1>7

\* A script at rest that succeeded at nothing has no scope.
LEMMA IdleScope ==
    \A result : Idle(result) = [Idle(result) EXCEPT !.scope = {}]
<1> SUFFICES ASSUME NEW result PROVE Idle(result) = [Idle(result) EXCEPT !.scope = {}]
  OBVIOUS
<1> DEFINE i == Idle(result)
<1>1. i = [x \in DOMAIN i |-> i[x]] /\ i.scope = {} BY DEF Idle
<1> HIDE DEF i
<1> QED BY <1>1 DEF i

\* A script starts with all batches to do.
LEMMA StartScript ==
    ASSUME Types, Types', op.pc \in {"idle", "deleted"}, UNCHANGED <<disk, tables, txn>>,
           NEW kind, NEW brand, NEW systems, NEW batches,
           IsList(batches), batches # <<>>,
           \A batch \in ToSet(batches) : IsList(batch) /\ ToSet(batch) \subseteq Pairs,
           Start(kind, brand, systems, batches)
    PROVE  /\ ScriptIInv' /\ Todo' = AllOf(batches)
           /\ op'.scope = {s.slug : s \in ToSet(systems)}
<1>1. /\ op'.pc = "asset" /\ op'.todo = Head(batches) /\ op'.later = Tail(batches)
      /\ op'.batch = 0 /\ op'.failed = FALSE /\ op'.result = "running"
      /\ op'.scope = {s.slug : s \in ToSet(systems)}
  <2> DEFINE scope == {s.slug : s \in ToSet(systems)}
  <2>1. op' = [Idle("running") EXCEPT !.pc = "asset", !.kind = kind, !.brand = brand,
                                  !.todo = Head(batches), !.later = Tail(batches),
                                  !.scope = scope]
    BY DEF Start
  <2> HIDE DEF scope
  <2>2. /\ op'.pc = "asset" /\ op'.todo = Head(batches) /\ op'.later = Tail(batches)
        /\ op'.batch = 0 /\ op'.failed = FALSE /\ op'.result = "running"
        /\ op'.scope = scope
    BY <2>1 DEF Idle
  <2> QED BY <2>2 DEF scope
<1>2. IsList(Tail(batches)) /\ ToSet(batches) = {Head(batches)} \cup ToSet(Tail(batches))
  BY TailList
<1>3. Todo' = AllOf(batches) BY <1>1, <1>2 DEF Todo, AllOf
<1>4. Pairs' = Pairs BY DEF Pairs, corpus
<1>5. Todo' \subseteq Pairs' BY <1>3, <1>4 DEF AllOf
<1>6. (txn = NoTxn)' BY DEF Types, NoTxn, tables
<1>7. /\ IsList(op'.todo) /\ IsList(op'.later)
      /\ \A batch \in ToSet(op'.later) : IsList(batch)
  BY <1>1, <1>2
<1>8. op'.failed \in BOOLEAN
  <2>1. op'.failed = FALSE BY <1>1
  <2> QED BY <2>1, Zenon
<1>9. ScriptIInv' BY <1>1, <1>5, <1>6, <1>7, <1>8 DEF ScriptIInv
<1> QED BY <1>1, <1>3, <1>9

\* The pairs of the systems told, system by system.
LEMMA BatchesOf ==
    ASSUME disk \in DOMAIN Corpora, NEW systems, IsList(systems), systems # <<>>
    PROVE  /\ IsList(PairsOf(systems)) /\ PairsOf(systems) # <<>>
           /\ \A batch \in ToSet(PairsOf(systems)) : IsList(batch) /\ ToSet(batch) \subseteq Pairs
           /\ \A pair \in Pairs : pair.system.slug \in {s.slug : s \in ToSet(systems)} =>
                 pair \in AllOf(PairsOf(systems))
<1> DEFINE all == IterAssets(corpus)
           of(slug) == FilterAssets(all, slug)
           batches == PairsOf(systems)
<1>1. IsList(all) /\ ToSet(all) = Pairs BY PairsOfCorpus DEF Pairs
<1> HIDE DEF all
<1>2. ASSUME NEW slug
      PROVE  IsList(of(slug)) /\ ToSet(of(slug)) = {pair \in Pairs : pair.system.slug = slug}
  <2> DEFINE I == {i \in DOMAIN all : all[i].system.slug = slug}
  <2>1. of(slug) = Among(all, I) BY DEF FilterAssets
  <2>2. {all[i] : i \in DOMAIN all \cap I} = {pair \in Pairs : pair.system.slug = slug}
    BY <1>1 DEF ToSet
  <2> HIDE DEF I, of
  <2> QED BY <1>1, <2>1, <2>2, AmongList
<1>3. batches = [i \in DOMAIN systems |-> of(systems[i].slug)] BY DEF PairsOf, all
<1> HIDE DEF of, batches
<1>4. IsList(batches) /\ ToSet(batches) = {batches[i] : i \in DOMAIN systems}
  <2>1. batches = [i \in DOMAIN systems |-> batches[i]] BY <1>3
  <2> QED BY <2>1, MappedList
<1>5. batches # <<>>
  <2>1. 1 \in DOMAIN systems BY TailList
  <2>2. DOMAIN batches = DOMAIN systems BY <1>3
  <2> QED BY <2>1, <2>2
<1>6. \A batch \in ToSet(batches) : IsList(batch) /\ ToSet(batch) \subseteq Pairs
  BY <1>2, <1>3, <1>4
<1>7. ASSUME NEW pair \in Pairs, NEW s \in ToSet(systems), pair.system.slug = s.slug
      PROVE  pair \in AllOf(batches)
  <2>1. PICK i \in DOMAIN systems : s = systems[i] BY DEF ToSet
  <2>2. pair \in ToSet(batches[i]) BY <1>2, <1>3, <1>7, <2>1
  <2> QED BY <1>4, <2>2 DEF AllOf
<1> QED BY <1>4, <1>5, <1>6, <1>7 DEF batches

\* The scripts' first steps.
LEMMA ScriptStarts ==
    ASSUME Types, Types', StartSeed \/ StartBootstrap \/ (BootstrapSingle /\ op'.pc = "asset")
    PROVE  ScriptIInv' /\ Done' = {}
<1>0. disk \in DOMAIN Corpora /\ UNCHANGED <<disk, tables, txn>> /\ op.pc \in {"idle", "deleted"}
  BY DEF Types, StartSeed, StartBootstrap, BootstrapSingle
<1>1. Pairs' = Pairs BY <1>0 DEF Pairs, corpus
<1>2. IsList(RealSystems)
  BY <1>0, CorpusIsCorpus, AmongList DEF RealSystems, IsCorpus
<1>3. CASE StartSeed
  <2> DEFINE batches == <<IterAssets(corpus)>>
  <2>1. IsList(batches) /\ batches # <<>> /\ ToSet(batches) = {IterAssets(corpus)}
    BY DEF IsList, ToSet
  <2>2. IsList(IterAssets(corpus)) BY <1>0, PairsOfCorpus
  <2>3. Start("seed", "none", corpus, batches) BY <1>3 DEF StartSeed
  <2>4. AllOf(batches) = Pairs BY <2>1 DEF AllOf, Pairs
  <2>5. \A batch \in ToSet(batches) : IsList(batch) /\ ToSet(batch) \subseteq Pairs
    BY <2>1, <2>2 DEF Pairs
  <2> HIDE DEF batches
  <2>6. ScriptIInv' /\ Todo' = Pairs BY <1>0, <2>1, <2>3, <2>4, <2>5, StartScript
  <2> QED BY <1>1, <2>6 DEF Done
<1>4. ASSUME NEW kind, NEW brand, NEW systems, IsList(systems), systems # <<>>,
             Start(kind, brand, systems, PairsOf(systems))
      PROVE  ScriptIInv' /\ Done' = {}
  <2> DEFINE batches == PairsOf(systems)
  <2>1. /\ IsList(batches) /\ batches # <<>>
        /\ \A batch \in ToSet(batches) : IsList(batch) /\ ToSet(batch) \subseteq Pairs
        /\ \A pair \in Pairs : pair.system.slug \in {s.slug : s \in ToSet(systems)} =>
              pair \in AllOf(batches)
    BY <1>0, <1>4, BatchesOf
  <2>2. Start(kind, brand, systems, batches) BY <1>4
  <2> HIDE DEF batches
  <2>3. /\ ScriptIInv' /\ Todo' = AllOf(batches)
        /\ op'.scope = {s.slug : s \in ToSet(systems)}
    BY <1>0, <2>1, <2>2, StartScript
  <2> QED BY <1>1, <2>1, <2>3 DEF Done
<1>5. CASE StartBootstrap BY <1>2, <1>4, <1>5 DEF StartBootstrap
<1>6. CASE BootstrapSingle /\ op'.pc = "asset"
  <2> DEFINE known == Among(RealSystems, {s \in DOMAIN RealSystems :
                                      RealSystems[s].slug = op.brand})
  <2>1. known # <<>> /\ Start("refresh", op.brand, known, PairsOf(known))
    BY <1>6, IdleFields DEF BootstrapSingle
  <2>2. IsList(known) BY <1>2, AmongList
  <2> HIDE DEF known
  <2> QED BY <1>4, <2>1, <2>2
<1> QED BY <1>3, <1>5, <1>6

\* The head of the batch is done.
LEMMA TailTodo ==
    ASSUME ScriptIInv, op.todo # <<>>, op'.todo = Tail(op.todo), op'.later = op.later
    PROVE  IsList(op'.todo) /\ Todo = {Head(op.todo)} \cup Todo'
<1>1. IsList(Tail(op.todo)) /\ ToSet(op.todo) = {Head(op.todo)} \cup ToSet(Tail(op.todo))
  BY TailList DEF ScriptIInv
<1> QED BY <1>1 DEF Todo

\* After a brand the next one's batch is taken up, or the script ends.
LEMMA AfterScript ==
    ASSUME Types, Types', ScriptIInv, op.pc \in {"asset", "mining"},
           NEW failed, failed \in BOOLEAN, AfterBrand(failed), UNCHANGED disk,
           failed \/ (~op.failed /\ op.todo = <<>> /\ txn' = NoTxn')
    PROVE  /\ ScriptIInv'
           /\ Going' /\ ~op'.failed =>
                 /\ ~failed /\ ToMine' = {} /\ op'.scope = op.scope /\ Todo' = Todo
<1>0. DOMAIN op = OpFields /\ op.result # "ok" /\ Pairs' = Pairs /\ Todo \subseteq Pairs
  BY DEF Types, ScriptIInv, Pairs, corpus
<1>1. CASE op.later # <<>>
  <2>1. /\ op'.pc = "asset" /\ op'.todo = Head(op.later) /\ op'.later = Tail(op.later)
        /\ op'.batch = 0 /\ op'.seen = {} /\ op'.failed = failed /\ op'.scope = op.scope
        /\ op'.result = op.result
    BY <1>0, <1>1 DEF AfterBrand, OpFields
  <2>2. IsList(Tail(op.later)) /\ ToSet(op.later) = {Head(op.later)} \cup ToSet(Tail(op.later))
    BY <1>1, TailList DEF ScriptIInv
  <2>3. /\ IsList(op'.todo) /\ IsList(op'.later)
        /\ \A batch \in ToSet(op'.later) : IsList(batch)
    BY <2>1, <2>2 DEF ScriptIInv
  <2>4. Todo' = AllOf(op.later) BY <2>1, <2>2 DEF Todo, AllOf
  <2>5. Todo' \subseteq Pairs' BY <1>0, <2>4 DEF Todo
  <2>6. ~failed => Todo' = Todo
    <3>1. ToSet(<<>>) = {} BY DEF ToSet
    <3> QED BY <2>4, <3>1 DEF Todo
  <2>7. op'.failed \in BOOLEAN BY <2>1
  <2>8. ~op'.failed => ~failed BY <2>1, Zenon
  <2>9. ScriptIInv' BY <1>0, <2>1, <2>3, <2>5, <2>7, <2>8 DEF ScriptIInv
  <2>10. ToMine' = {} BY <2>1 DEF ToMine
  <2> QED BY <2>1, <2>6, <2>8, <2>9, <2>10
<1>2. CASE op.later = <<>> /\ failed
  <2>1. op' = Idle("failed") BY <1>2 DEF AfterBrand
  <2>2. op' = [Idle("failed") EXCEPT !.scope = {}] BY <2>1, IdleScope
  <2>3. ScriptIInv' /\ op'.pc = "idle" /\ op'.result = "failed" BY <2>2, RestingScript
  <2> QED BY <2>3 DEF Going
<1>3. CASE op.later = <<>> /\ ~failed
  <2>1. ~op.failed /\ op.todo = <<>> /\ txn' = NoTxn' BY <1>3
  <2>2. ToSet(<<>>) = {} BY DEF ToSet
  <2>3. Todo = {} BY <1>3, <2>1, <2>2 DEF Todo, AllOf
  <2>4. CASE op.kind = "refresh"
    <3>1. op' = [op EXCEPT !.pc = "draining"] BY <1>3, <2>4 DEF AfterBrand
    <3>2. /\ op'.pc = "draining" /\ op'.todo = op.todo /\ op'.later = op.later
          /\ op'.batch = op.batch /\ op'.failed = op.failed /\ op'.scope = op.scope
          /\ op'.result = op.result
      BY <1>0, <3>1 DEF OpFields
    <3>3. Todo' = Todo BY <3>2 DEF Todo
    <3>4. ToMine' = {} BY <3>2 DEF ToMine
    <3>5. op'.failed \in BOOLEAN BY <3>2 DEF ScriptIInv
    <3>6. ~op'.failed BY <2>1, <3>2, Zenon
    <3>7. /\ IsList(op'.todo) /\ IsList(op'.later) /\ op'.batch \in Nat
          /\ \A batch \in ToSet(op'.later) : IsList(batch)
      BY <3>2 DEF ScriptIInv
    <3>8. ScriptIInv' BY <1>0, <1>3, <2>1, <3>2, <3>3, <3>5, <3>6, <3>7 DEF ScriptIInv
    <3> QED BY <1>3, <3>2, <3>3, <3>4, <3>8
  <2>5. CASE op.kind # "refresh"
    <3>1. op' = [Idle("ok") EXCEPT !.scope = op.scope] BY <1>3, <2>5 DEF AfterBrand, Succeed
    <3>2. ScriptIInv' /\ op'.pc = "idle" /\ op'.scope = op.scope /\ Todo' = {}
      BY <3>1, RestingScript
    <3>3. ToMine' = {} BY <3>2 DEF ToMine
    <3> QED BY <1>3, <2>3, <3>2, <3>3
  <2> QED BY <2>4, <2>5
<1> QED BY <1>1, <1>2, <1>3

\* At first there is nothing to do.
LEMMA ScriptInit == Init => ScriptIInv
<1> SUFFICES ASSUME Init PROVE ScriptIInv
  OBVIOUS
<1>1. /\ op.pc = "idle" /\ op.todo = <<>> /\ op.later = <<>> /\ op.batch = 0
      /\ op.failed = FALSE /\ op.result = "none" /\ txn = NoTxn
  BY DEF Init, Idle
<1>2. IsList(<<>>) /\ ToSet(<<>>) = {} BY DEF IsList, ToSet
<1>3. Todo = {} BY <1>1, <1>2 DEF Todo, AllOf
<1>4. op.failed \in BOOLEAN /\ ~op.failed
  <2>1. op.failed = FALSE BY <1>1
  <2> QED BY <2>1, Zenon
<1> QED BY <1>1, <1>2, <1>3, <1>4 DEF ScriptIInv

\* A script's step that neither starts nor ends it.
LEMMA GoingScript ==
    ASSUME Types, ScriptIInv, UNCHANGED disk,
           op.pc \in {"asset", "put"}, op'.pc \in {"asset", "put", "mining"},
           op'.todo = op.todo \/ (op.todo # <<>> /\ op'.todo = Tail(op.todo)),
           op'.later = op.later, op'.failed = op.failed, op'.result = op.result,
           op'.batch \in Nat,
           op'.pc = "mining" => op.todo = <<>> /\ op'.batch = 0,
           op'.pc = "put" => /\ op'.todo # <<>>
                             /\ SourceUrl(Head(op'.todo)) \in DOMAIN store'
                             /\ store'[SourceUrl(Head(op'.todo))] = runs',
           ~op.failed /\ op'.batch = 0 => txn' = NoTxn'
    PROVE  ScriptIInv'
<1>1. IsList(op'.todo) /\ Todo' \subseteq Todo BY TailTodo DEF ScriptIInv, Todo
<1>2. Pairs' = Pairs BY DEF Pairs, corpus
<1>3. Todo' \subseteq Pairs' BY <1>1, <1>2 DEF ScriptIInv
<1>4. op'.failed \in BOOLEAN BY DEF ScriptIInv
<1>5. ~op'.failed => ~op.failed BY Zenon
<1>6. IsList(op'.later) /\ \A batch \in ToSet(op'.later) : IsList(batch) BY DEF ScriptIInv
<1>7. op'.result # "ok" BY DEF ScriptIInv
<1>8. op'.pc = "mining" => op'.todo = <<>> OBVIOUS
<1> QED BY <1>1, <1>3, <1>4, <1>5, <1>6, <1>7, <1>8 DEF ScriptIInv

\* What an asset's steps do to the script.
LEMMA AssetFields ==
    ASSUME Types
    PROVE  /\ SkipAsset => /\ op'.pc = "asset" /\ op'.todo = Tail(op.todo) /\ op'.later = op.later
                           /\ op'.failed = op.failed /\ op'.result = op.result
                           /\ op'.batch = op.batch /\ op'.seen = op.seen /\ op'.scope = op.scope
           /\ PutZip => /\ op'.pc = "put" /\ op'.todo = op.todo /\ op'.later = op.later
                        /\ op'.failed = op.failed /\ op'.result = op.result
                        /\ op'.batch = op.batch /\ op'.seen = op.seen /\ op'.scope = op.scope
           /\ SeedAsset => /\ op'.pc = "asset" /\ op'.todo = Tail(op.todo)
                           /\ op'.later = op.later
                           /\ op'.failed = op.failed /\ op'.result = op.result
                           /\ op'.batch = IF op.batch + 1 >= BatchSize THEN 0 ELSE op.batch + 1
                           /\ op'.seen = op.seen \cup {Head(op.todo).system.slug}
                           /\ op'.scope = op.scope
           /\ EndAssets => /\ op'.pc = "mining" /\ op'.todo = op.todo /\ op'.later = op.later
                           /\ op'.failed = op.failed /\ op'.result = op.result
                           /\ op'.batch = 0 /\ op'.seen = op.seen /\ op'.scope = op.scope
<1>0. DOMAIN op = OpFields BY DEF Types
<1>1. ASSUME SkipAsset
      PROVE  /\ op'.pc = "asset" /\ op'.todo = Tail(op.todo) /\ op'.later = op.later
             /\ op'.failed = op.failed /\ op'.result = op.result
             /\ op'.batch = op.batch /\ op'.seen = op.seen /\ op'.scope = op.scope
  <2>1. op.pc = "asset" /\ op' = [op EXCEPT !.todo = Tail(op.todo)] BY <1>1 DEF SkipAsset
  <2> QED BY <1>0, <2>1 DEF OpFields
<1>2. ASSUME PutZip
      PROVE  /\ op'.pc = "put" /\ op'.todo = op.todo /\ op'.later = op.later
             /\ op'.failed = op.failed /\ op'.result = op.result
             /\ op'.batch = op.batch /\ op'.seen = op.seen /\ op'.scope = op.scope
  BY <1>0, <1>2 DEF PutZip, OpFields
<1>3. ASSUME SeedAsset
      PROVE  /\ op'.pc = "asset" /\ op'.todo = Tail(op.todo) /\ op'.later = op.later
             /\ op'.failed = op.failed /\ op'.result = op.result
             /\ op'.batch = IF op.batch + 1 >= BatchSize THEN 0 ELSE op.batch + 1
             /\ op'.seen = op.seen \cup {Head(op.todo).system.slug}
             /\ op'.scope = op.scope
  <2> DEFINE todo == Tail(op.todo)
             batch == IF op.batch + 1 >= BatchSize THEN 0 ELSE op.batch + 1
             seen == op.seen \cup {Head(op.todo).system.slug}
  <2>1. op' = [op EXCEPT !.pc = "asset", !.todo = todo, !.batch = batch, !.seen = seen]
    BY <1>3 DEF SeedAsset
  <2> HIDE DEF todo, batch, seen
  <2>2. /\ op'.pc = "asset" /\ op'.todo = todo /\ op'.later = op.later
        /\ op'.failed = op.failed /\ op'.result = op.result
        /\ op'.batch = batch /\ op'.seen = seen /\ op'.scope = op.scope
    BY <1>0, <2>1 DEF OpFields
  <2> QED BY <2>2 DEF todo, batch, seen
<1>4. ASSUME EndAssets
      PROVE  /\ op'.pc = "mining" /\ op'.todo = op.todo /\ op'.later = op.later
             /\ op'.failed = op.failed /\ op'.result = op.result
             /\ op'.batch = 0 /\ op'.seen = op.seen /\ op'.scope = op.scope
  BY <1>0, <1>4 DEF EndAssets, OpFields
<1> QED BY <1>1, <1>2, <1>3, <1>4

\* Where the transaction stands after an asset, a batch and the mining.
LEMMA AssetTxn ==
    ASSUME Types, ScriptIInv, SeedAsset \/ EndAssets, ~op.failed, op'.batch = 0
    PROVE  txn' = NoTxn'
<1>1. IsTxn(txn) BY DEF Types
<1>2. CASE SeedAsset
  <2> DEFINE t == UpsertExtraction(txn, Head(op.todo), runs)
  <2>1. IsTxn(t) BY <1>1, ExtractionType DEF Types
  <2>2. op.batch + 1 >= BatchSize
    <3>1. op.batch \in Nat BY DEF ScriptIInv
    <3> QED BY <1>2, <3>1, AssetFields
  <2>3. Commit(t) /\ UNCHANGED <<disk, runs, worker>> BY <1>2, <2>2 DEF SeedAsset
  <2> HIDE DEF t
  <2>4. (txn = NoTxn)' BY <2>1, <2>3, WrittenTypes DEF Written
  <2> QED BY <2>4
<1>3. CASE EndAssets
  <2>1. CASE op.batch > 0
    <3>1. Commit(txn) /\ UNCHANGED <<disk, runs, worker>> BY <1>3, <2>1 DEF EndAssets
    <3>2. (txn = NoTxn)' BY <1>1, <3>1, WrittenTypes DEF Written
    <3> QED BY <3>2
  <2>2. CASE ~(op.batch > 0)
    <3>1. op.batch = 0 BY <2>2 DEF ScriptIInv
    <3>2. txn = NoTxn BY <3>1 DEF ScriptIInv
    <3>3. Keep(txn) BY <1>3, <2>2 DEF EndAssets
    <3> QED BY <3>2, <3>3 DEF Keep, NoTxn, tables
  <2> QED BY <2>1, <2>2
<1> QED BY <1>2, <1>3

\* The mining starts and ends with nothing uncommitted.
LEMMA MineTxn ==
    ASSUME Types, ScriptIInv, Mine, ~op.failed
    PROVE  txn = NoTxn /\ txn' = NoTxn'
<1> DEFINE t == FoldLeft(UpsertMined, txn, MinedOf(op.seen))
<1>1. IsTxn(t) /\ IsTxn(txn) BY MineType DEF Types
<1>2. txn = NoTxn BY DEF Mine, ScriptIInv
<1>3. UNCHANGED <<disk, runs, worker>> BY DEF Mine
<1>4. Commit(t) \/ Keep(txn) \/ Rollback BY DEF Mine
<1> HIDE DEF t
<1>5. CASE Commit(t)
  <2>1. (txn = NoTxn)' BY <1>1, <1>3, <1>5, WrittenTypes DEF Written
  <2> QED BY <1>2, <2>1
<1>6. CASE Keep(txn) \/ Rollback
  BY <1>2, <1>6 DEF Keep, Rollback, NoTxn, tables
<1> QED BY <1>4, <1>5, <1>6

\* Each step keeps ScriptIInv.
LEMMA ScriptStep == Types /\ ScriptIInv /\ [Next]_vars => ScriptIInv'
<1> SUFFICES ASSUME Types, ScriptIInv, [Next]_vars PROVE ScriptIInv'
  OBVIOUS
<1>0. Types' BY TypesStep
<1>a. ASSUME NEW result, op' = Idle(result) PROVE ScriptIInv'
  <2>1. op' = [Idle(result) EXCEPT !.scope = {}] BY <1>a, IdleScope
  <2> QED BY <1>0, <2>1, RestingScript
<1>b. ASSUME UNCHANGED <<disk, store, runs, txn, op>>, NoTxn' = NoTxn PROVE ScriptIInv'
  <2>1. Todo' = Todo /\ Pairs' = Pairs BY <1>b DEF Todo, Pairs, corpus
  <2> QED BY <1>b, <2>1 DEF ScriptIInv
<1>1. CASE Sync BY <1>1, <1>a DEF Sync
<1>2. CASE StartSeed \/ StartBootstrap BY <1>0, <1>2, ScriptStarts
<1>3. ASSUME NEW b \in Brands, DeleteBrandRows(b) PROVE ScriptIInv'
  <2>1. op' = [Idle("running") EXCEPT !.pc = "deleted", !.kind = "refresh", !.brand = b]
    BY <1>3 DEF DeleteBrandRows
  <2>2. /\ op'.pc = "deleted" /\ op'.todo = <<>> /\ op'.later = <<>> /\ op'.batch = 0
        /\ op'.failed = FALSE /\ op'.result = "running"
    BY <2>1 DEF Idle
  <2>3. IsList(<<>>) /\ ToSet(<<>>) = {} BY DEF IsList, ToSet
  <2>4. Todo' = {} BY <2>2, <2>3 DEF Todo, AllOf
  <2>5. op'.failed \in BOOLEAN
    <3>1. op'.failed = FALSE BY <2>2
    <3> QED BY <3>1, Zenon
  <2>6. txn' = NoTxn' BY <1>0, <2>2 DEF Types
  <2> QED BY <2>2, <2>3, <2>4, <2>5, <2>6 DEF ScriptIInv
<1>4. CASE BootstrapSingle
  <2>1. op' = Idle("failed") \/ op'.pc = "asset"
    BY <1>4, StartFields DEF BootstrapSingle
  <2> QED BY <1>0, <1>4, <1>a, <2>1, ScriptStarts
<1>5. CASE SkipAsset
  <2>1. /\ UNCHANGED <<disk, tables, txn>> /\ op.pc = "asset" /\ op.todo # <<>>
    BY <1>5 DEF SkipAsset
  <2>2. op.batch = 0 /\ ~op.failed => txn' = NoTxn' BY <2>1 DEF ScriptIInv, NoTxn, tables
  <2>3. op.batch \in Nat BY DEF ScriptIInv
  <2> QED BY <1>5, <2>1, <2>2, <2>3, AssetFields, GoingScript
<1>6. CASE PutZip
  <2>1. /\ UNCHANGED <<disk, tables, runs, txn>> /\ op.pc = "asset" /\ op.todo # <<>>
        /\ store' = Put(store, SourceUrl(Head(op.todo)), runs)
    BY <1>6 DEF PutZip
  <2>2. op.batch = 0 /\ ~op.failed => txn' = NoTxn' BY <2>1 DEF ScriptIInv, NoTxn, tables
  <2>3. LET url == SourceUrl(Head(op.todo)) IN url \in DOMAIN store' /\ store'[url] = runs
    BY <2>1 DEF Put
  <2>4. op.batch \in Nat BY DEF ScriptIInv
  <2>5. /\ op'.pc = "put" /\ op'.todo = op.todo /\ op'.later = op.later
        /\ op'.failed = op.failed /\ op'.result = op.result /\ op'.batch = op.batch
    BY <1>6, AssetFields
  <2>6. /\ op'.todo # <<>>
        /\ SourceUrl(Head(op'.todo)) \in DOMAIN store'
        /\ store'[SourceUrl(Head(op'.todo))] = runs'
    BY <2>1, <2>3, <2>5
  <2>7. UNCHANGED disk /\ op.pc \in {"asset", "put"} BY <2>1
  <2>8. ~op.failed /\ op'.batch = 0 => txn' = NoTxn' BY <2>2, <2>5
  <2>9. op'.batch \in Nat BY <2>4, <2>5
  <2> QED BY <2>5, <2>6, <2>7, <2>8, <2>9, GoingScript
<1>7. CASE SeedAsset
  <2>1. disk' = disk /\ op.pc = "put" /\ op.todo # <<>> BY <1>7 DEF SeedAsset, ScriptIInv
  <2>2. ~op.failed /\ op'.batch = 0 => txn' = NoTxn' BY <1>7, AssetTxn
  <2>3. op'.batch \in Nat
    <3>1. op.batch \in Nat BY DEF ScriptIInv
    <3> QED BY <1>7, <3>1, AssetFields
  <2> QED BY <1>7, <2>1, <2>2, <2>3, AssetFields, GoingScript
<1>8. CASE EndAssets
  <2>1. disk' = disk /\ op.pc = "asset" /\ op.todo = <<>> BY <1>8 DEF EndAssets
  <2>2. ~op.failed /\ op'.batch = 0 => txn' = NoTxn' BY <1>8, AssetTxn
  <2> QED BY <1>8, <2>1, <2>2, AssetFields, GoingScript
<1>9. CASE Mine
  <2>1. op.pc = "mining" /\ AfterBrand(op.failed) /\ disk' = disk BY <1>9 DEF Mine
  <2>2. op.failed \in BOOLEAN /\ op.todo = <<>> BY <2>1 DEF ScriptIInv
  <2>3. op.failed \/ (~op.failed /\ txn' = NoTxn') BY <1>9, MineTxn
  <2> QED BY <1>0, <2>1, <2>2, <2>3, AfterScript
<1>10. CASE SeedFails
  <2>1. op.pc = "asset" /\ AfterBrand(TRUE) /\ disk' = disk BY <1>10 DEF SeedFails
  <2> QED BY <1>0, <2>1, AfterScript
<1>11. CASE Crash BY <1>11, <1>a DEF Crash
<1>12. CASE EndRefresh BY <1>0, <1>12, RestingScript DEF EndRefresh, Succeed
<1>13. CASE SuppressSeedBrands BY <1>13, <1>a DEF SuppressSeedBrands
<1>14. CASE ReconcileAliases BY <1>14, <1>a DEF ReconcileAliases
<1>15. CASE StartJob \/ WriteJob \/ LoseJob
  <2>1. UNCHANGED <<disk, tables, store, runs, txn, op>>
    BY <1>15, Zenon DEF StartJob, WriteJob, LoseJob
  <2> QED BY <1>b, <2>1 DEF NoTxn, tables
<1>16. CASE UNCHANGED vars BY <1>16, <1>b DEF vars, NoTxn, tables
<1> QED
  BY <1>1, <1>2, <1>3, <1>4, <1>5, <1>6, <1>7, <1>8, <1>9, <1>10, <1>11, <1>12,
     <1>13, <1>14, <1>15, <1>16 DEF Next, Operate, Script, Drain

-----------------------------------------------------------------------------
(* What is whole stays whole. *)

\* It does while its version stays indexed and its zip stays in the store.
LEMMA CarriedWhole ==
    ASSUME NEW t, txn'.versions = t.versions, txn'.components = t.components,
           txn'.extractions = t.extractions,
           \A v \in DOMAIN t.versions : IndexedIn(t, v) => IndexedIn(txn, v)'
    PROVE  /\ \A pair : /\ WholeIn(t, pair)
                        /\ SourceUrl(pair) \in DOMAIN store'
                        /\ store'[SourceUrl(pair)] = store[SourceUrl(pair)]
                        => WholeIn(txn, pair)'
           /\ \A x : MinedIn(t, x) => MinedIn(txn, x)'
<1>1. ASSUME NEW pair, WholeIn(t, pair), SourceUrl(pair) \in DOMAIN store',
             store'[SourceUrl(pair)] = store[SourceUrl(pair)]
      PROVE  WholeIn(txn, pair)'
  <2>1. LET v == t.extractions[SourceUrl(pair)].version
        IN v \in DOMAIN t.versions /\ IndexedIn(t, v)
    BY <1>1 DEF WholeIn
  <2> QED BY <1>1, <2>1 DEF WholeIn
<1>2. ASSUME NEW x, MinedIn(t, x) PROVE MinedIn(txn, x)'
  BY <1>2 DEF MinedIn
<1> QED BY <1>1, <1>2

\* The transaction t, committed or not.
LEMMA WrittenKeeps ==
    ASSUME Types, NEW t, IsTxn(t), Commit(t) \/ Keep(t) \/ (Rollback /\ t = NoTxn),
           UNCHANGED <<disk, store, library, runs, worker>>
    PROVE  /\ \A pair : WholeIn(t, pair) => WholeIn(txn, pair)'
           /\ \A x : MinedIn(t, x) => MinedIn(txn, x)'
<1>1. /\ txn'.versions = t.versions /\ txn'.components = t.components
      /\ txn'.extractions = t.extractions
      /\ \/ queue' = queue \o t.jobs
         \/ queue' = queue /\ txn'.jobs = t.jobs
  <2>1. CASE Commit(t)
    <3>1. queue' = queue \o t.jobs /\ txn' = [t EXCEPT !.jobs = <<>>] BY <2>1 DEF Commit
    <3>2. DOMAIN t = {"versions", "components", "extractions", "jobs"} BY DEF IsTxn
    <3> QED BY <3>1, <3>2
  <2>2. CASE Keep(t) \/ (Rollback /\ t = NoTxn) BY <2>2 DEF Keep, Rollback
  <2> QED BY <2>1, <2>2
<1>2. /\ ToSet(queue) \subseteq ToSet(queue')
      /\ ToSet(t.jobs) \subseteq ToSet(queue') \cup ToSet(txn'.jobs)
  <2>1. CASE queue' = queue \o t.jobs
    <3>1. IsList(queue) /\ IsList(t.jobs) BY DEF Types, IsTxn
    <3>2. ToSet(queue') = ToSet(queue) \cup ToSet(t.jobs) BY <2>1, <3>1, ConcatList
    <3> QED BY <3>2
  <2>2. CASE queue' = queue /\ txn'.jobs = t.jobs BY <2>2
  <2> QED BY <1>1, <2>1, <2>2
<1>3. \A v \in DOMAIN t.versions : IndexedIn(t, v) => IndexedIn(txn, v)'
  BY <1>1, <1>2 DEF IndexedIn, Live, library
<1> QED BY <1>1, <1>3, CarriedWhole DEF WholeIn

\* The indexer at its work.
LEMMA DrainKeeps ==
    ASSUME Types, StartJob \/ WriteJob \/ LoseJob
    PROVE  /\ \A pair : WholeIn(txn, pair) => WholeIn(txn, pair)'
           /\ \A x : MinedIn(txn, x) => MinedIn(txn, x)'
<1>0. UNCHANGED <<disk, tables, store, txn, op, runs>>
  BY Zenon DEF StartJob, WriteJob, LoseJob
<1>1. ASSUME NEW v \in DOMAIN txn.versions, IndexedIn(txn, v) PROVE IndexedIn(txn, v)'
  <2>0. v # 0
    <3>1. DOMAIN txn.versions = 1..Len(txn.versions) /\ Len(txn.versions) \in Nat
      BY ListIsSeq DEF Types, IsTxn, Versions
    <3> QED BY <3>1
  <2>1. CASE StartJob
    <3> DEFINE h == Head(queue)
    <3>1. /\ worker.version = 0 /\ queue # <<>> /\ queue' = Tail(queue)
          /\ UNCHANGED <<pages, canonical>>
      BY <2>1 DEF StartJob, library
    <3>2. ToSet(queue) = {h} \cup ToSet(queue') BY <3>1, TailList DEF Types
    <3>3. CASE versions[h].public
      <4>1. worker'.version = h /\ worker'.lost = FALSE BY <2>1, <3>3 DEF StartJob
      <4>2. ~worker'.lost BY <4>1, Zenon
      <4> QED BY <1>0, <1>1, <2>0, <3>1, <3>2, <4>1, <4>2 DEF IndexedIn, Live
    <3>4. CASE ~versions[h].public
      <4>1. h \in DOMAIN versions BY <3>2 DEF Types
      <4>2. txn.versions[h] = versions[h] BY <4>1 DEF Types, IsTxn
      <4> QED BY <1>0, <1>1, <2>0, <3>1, <3>2, <3>4, <4>2 DEF IndexedIn, Live
    <3> QED BY <3>3, <3>4
  <2>2. CASE WriteJob
    <3>1. PICK classes :
             classes # {} /\ DOMAIN pages' = DOMAIN pages \cup ({worker.version} \X classes)
      BY <2>2, JobRows
    <3>2. queue' = queue BY <2>2, JobRows
    <3>3. CASE v = worker.version
      <4>1. PICK c : c \in classes BY <3>1
      <4>2. <<v, c>> \in DOMAIN pages' /\ <<v, c>>[1] = v BY <3>1, <3>3, <4>1
      <4> QED BY <4>2 DEF IndexedIn
    <3>4. CASE v # worker.version
      <4>1. \A r \in DOMAIN pages : r \in DOMAIN pages' BY <3>1
      <4> QED BY <1>0, <1>1, <3>2, <3>4, <4>1 DEF IndexedIn, Live
    <3> QED BY <3>3, <3>4
  <2>3. CASE LoseJob
    <3>1. worker.lost /\ UNCHANGED <<queue, pages, canonical>> BY <2>3 DEF LoseJob, library
    <3> QED BY <1>0, <1>1, <3>1 DEF IndexedIn, Live
  <2> QED BY <2>1, <2>2, <2>3
<1> QED BY <1>0, <1>1, CarriedWhole DEF WholeIn

\* A step that gets nothing done and breaks nothing keeps SeedIInv.
LEMMA SeedCarried ==
    ASSUME SeedIInv,
           Going' /\ ~op'.failed => /\ Going /\ ~op.failed
                                    /\ Done' \subseteq Done /\ ToMine \subseteq ToMine',
           \A pair \in Done : WholeIn(txn, pair) => WholeIn(txn, pair)',
           \A x : MinedIn(txn, x) => MinedIn(txn, x)'
    PROVE  SeedIInv'
BY DEF SeedIInv

\* The atoms of the system of a pair are mined with it.
LEMMA PairSynthetics ==
    ASSUME disk \in DOMAIN Corpora, NEW pair \in Pairs
    PROVE  /\ ToSet(MinedSynthetics(pair.system)) \subseteq Synthetics
           /\ \A systems : pair.system.slug \in systems =>
                 ToSet(MinedSynthetics(pair.system)) \subseteq ToSet(MinedOf(systems))
<1>1. PICK s \in DOMAIN corpus : pair.system = corpus[s] BY PairsOfCorpus
<1> QED BY <1>1, MinedOfList DEF Synthetics

\* A zip for the next asset leaves those of the others alone.
LEMMA SeedPut == Types /\ ScriptIInv /\ SeedIInv /\ PutZip => SeedIInv'
<1> SUFFICES ASSUME Types, ScriptIInv, SeedIInv, PutZip PROVE SeedIInv'
  OBVIOUS
<1> DEFINE head == Head(op.todo)
           url == SourceUrl(head)
<1>1. /\ UNCHANGED <<disk, tables, queue, library, txn, runs, worker>>
      /\ op.pc = "asset" /\ op.todo # <<>> /\ store' = Put(store, url, runs)
  BY DEF PutZip
<1>2. /\ op'.pc = "put" /\ op'.todo = op.todo /\ op'.later = op.later
      /\ op'.failed = op.failed /\ op'.seen = op.seen /\ op'.scope = op.scope
  BY AssetFields
<1>3. head \in Todo /\ head \in Pairs
  <2>1. head \in ToSet(op.todo) BY <1>1, TailList DEF ScriptIInv
  <2> QED BY <2>1 DEF ScriptIInv, Todo
<1>4. Done' = Done
  <2>1. Todo' = Todo /\ Pairs' = Pairs BY <1>1, <1>2 DEF Todo, Pairs, corpus
  <2> QED BY <1>2, <2>1 DEF Done
<1>5. ToMine' = ToMine BY <1>1, <1>2 DEF ToMine
<1>6. \A v : IndexedIn(txn, v) => IndexedIn(txn, v)' BY <1>1 DEF IndexedIn, Live, library
<1>7. \A pair \in Done : SourceUrl(pair) # url
  BY <1>3, UrlOfPair DEF Done, Types
<1>8. \A x \in DOMAIN store \ {url} : x \in DOMAIN store' /\ store'[x] = store[x]
  BY <1>1 DEF Put
<1> HIDE DEF url, head
<1>9. /\ \A pair : /\ WholeIn(txn, pair)
                   /\ SourceUrl(pair) \in DOMAIN store'
                   /\ store'[SourceUrl(pair)] = store[SourceUrl(pair)]
                   => WholeIn(txn, pair)'
      /\ \A x : MinedIn(txn, x) => MinedIn(txn, x)'
  BY <1>1, <1>6, CarriedWhole
<1>10. ASSUME NEW pair \in Done, WholeIn(txn, pair) PROVE WholeIn(txn, pair)'
  <2>1. SourceUrl(pair) \in DOMAIN store BY <1>10 DEF WholeIn
  <2> QED BY <1>7, <1>8, <1>9, <1>10, <2>1
<1>11. ~op'.failed => ~op.failed BY <1>2, Zenon
<1>12. Going BY <1>1 DEF Going
<1> QED BY <1>4, <1>5, <1>9, <1>10, <1>11, <1>12, SeedCarried

\* The rows of an asset make its pair whole, and leave the others alone.
LEMMA SeedRows == Types /\ ScriptIInv /\ SeedIInv /\ SeedAsset => SeedIInv'
<1> SUFFICES ASSUME Types, ScriptIInv, SeedIInv, SeedAsset PROVE SeedIInv'
  OBVIOUS
<1> DEFINE head == Head(op.todo)
           url == SourceUrl(head)
           t == UpsertExtraction(txn, head, runs)
<1>1. /\ op.pc = "put" /\ UNCHANGED <<disk, store, library, runs, worker>>
      /\ Commit(t) \/ Keep(t)
  BY DEF SeedAsset
<1>2. /\ op'.pc = "asset" /\ op'.todo = Tail(op.todo) /\ op'.later = op.later
      /\ op'.failed = op.failed /\ op'.seen = op.seen \cup {head.system.slug}
      /\ op'.scope = op.scope
  BY AssetFields
<1>3. op.todo # <<>> /\ url \in DOMAIN store /\ store[url] = runs
  BY <1>1 DEF ScriptIInv
<1>4. Todo = {head} \cup Todo' BY <1>2, <1>3, TailTodo
<1>5. Done' \subseteq Done \cup {head}
  <2>1. Pairs' = Pairs BY <1>1 DEF Pairs, corpus
  <2> QED BY <1>2, <1>4, <2>1 DEF Done
<1>6. ToMine' = ToMine \cup {head.system.slug} BY <1>1, <1>2 DEF ToMine
<1>7. IsTxn(txn) /\ IsTxn(t) /\ runs \in Nat /\ disk \in DOMAIN Corpora
  BY ExtractionType DEF Types
<1>8. PICK v : Adds(txn, t, v, url) BY <1>7, ExtractionAdds
<1>9. WholeIn(t, head) BY <1>3, <1>7, ExtractionAdds
<1> HIDE DEF t
<1>10. /\ \A pair : WholeIn(t, pair) => WholeIn(txn, pair)'
       /\ \A x : MinedIn(t, x) => MinedIn(txn, x)'
  BY <1>1, <1>7, WrittenKeeps
<1>11. \A pair \in Done : SourceUrl(pair) # url
  BY <1>4, <1>7, UrlOfPair DEF Done, ScriptIInv
<1>12. \A x \in Synthetics : x.url # url BY UrlsApart
<1> HIDE DEF url, head
<1>13. ASSUME NEW pair \in Done, WholeIn(txn, pair) PROVE WholeIn(txn, pair)'
  BY <1>8, <1>10, <1>11, <1>13, AddsKeeps
<1>14. ASSUME NEW x \in Synthetics, MinedIn(txn, x) PROVE MinedIn(txn, x)'
  BY <1>8, <1>10, <1>12, <1>14, AddsKeeps
<1> SUFFICES ASSUME ~op'.failed, NEW pair \in Done'
             PROVE  /\ WholeIn(txn, pair)'
                    /\ \/ pair.system.slug \in ToMine'
                       \/ \A synthetic \in ToSet(MinedSynthetics(pair.system)) :
                             MinedIn(txn, synthetic)'
  BY DEF SeedIInv
<1>15. CASE pair = head BY <1>6, <1>9, <1>10, <1>15
<1>16. CASE pair # head
  <2>1. pair \in Done /\ pair \in Pairs BY <1>5, <1>16 DEF Done
  <2>2. ~op.failed /\ Going
    <3>1. ~op.failed BY <1>2, Zenon
    <3> QED BY <1>1, <3>1 DEF Going
  <2>3. /\ WholeIn(txn, pair)
        /\ \/ pair.system.slug \in ToMine
           \/ \A synthetic \in ToSet(MinedSynthetics(pair.system)) : MinedIn(txn, synthetic)
    BY <2>1, <2>2 DEF SeedIInv
  <2>4. \A x \in ToSet(MinedSynthetics(pair.system)) : x \in Synthetics
    BY <1>7, <2>1, PairSynthetics
  <2> QED BY <1>6, <1>13, <1>14, <2>1, <2>3, <2>4
<1> QED BY <1>15, <1>16

\* The end of the assets commits what is left of the last batch.
LEMMA SeedEnd == Types /\ ScriptIInv /\ SeedIInv /\ EndAssets => SeedIInv'
<1> SUFFICES ASSUME Types, ScriptIInv, SeedIInv, EndAssets PROVE SeedIInv'
  OBVIOUS
<1>1. /\ op.pc = "asset" /\ UNCHANGED <<disk, store, library, runs, worker>>
      /\ Commit(txn) \/ Keep(txn)
  BY DEF EndAssets
<1>2. /\ op'.pc = "mining" /\ op'.todo = op.todo /\ op'.later = op.later
      /\ op'.failed = op.failed /\ op'.seen = op.seen /\ op'.scope = op.scope
  BY AssetFields
<1>3. Done' = Done
  <2>1. Todo' = Todo /\ Pairs' = Pairs BY <1>1, <1>2 DEF Todo, Pairs, corpus
  <2> QED BY <1>2, <2>1 DEF Done
<1>4. ToMine' = ToMine BY <1>1, <1>2 DEF ToMine
<1>5. /\ \A pair : WholeIn(txn, pair) => WholeIn(txn, pair)'
      /\ \A x : MinedIn(txn, x) => MinedIn(txn, x)'
  <2>1. IsTxn(txn) BY DEF Types
  <2> QED BY <1>1, <2>1, WrittenKeeps
<1>6. ~op'.failed => ~op.failed BY <1>2, Zenon
<1>7. Going BY <1>1 DEF Going
<1> QED BY <1>3, <1>4, <1>5, <1>6, <1>7, SeedCarried

\* The mining makes the atoms of the systems seen, and leaves the rest alone.
LEMMA SeedMined == Types /\ ScriptIInv /\ SeedIInv /\ Mine => SeedIInv'
<1> SUFFICES ASSUME Types, ScriptIInv, SeedIInv, Mine PROVE SeedIInv'
  OBVIOUS
<1> DEFINE mined == MinedOf(op.seen)
           fold == FoldLeft(UpsertMined, txn, mined)
           t == IF mined # <<>> THEN fold ELSE txn
<1>1. /\ op.pc = "mining" /\ AfterBrand(op.failed)
      /\ UNCHANGED <<disk, store, library, runs, worker>>
      /\ IF mined # <<>> THEN Commit(fold) ELSE Keep(txn) \/ Rollback
  BY DEF Mine
<1>2. op.failed \in BOOLEAN /\ op.todo = <<>> BY <1>1 DEF ScriptIInv
<1>3. Types' BY TypesStep DEF Next, Script
<1>4. IsTxn(txn) /\ IsTxn(fold) /\ runs \in Nat /\ disk \in DOMAIN Corpora
  BY MineType DEF Types
<1>5. op.failed \/ (~op.failed /\ op.todo = <<>> /\ txn' = NoTxn') BY <1>2, MineTxn
<1>6. Going' /\ ~op'.failed =>
         ~op.failed /\ ToMine' = {} /\ op'.scope = op.scope /\ Todo' = Todo
  BY <1>1, <1>2, <1>3, <1>5, AfterScript
<1> SUFFICES ASSUME Going', ~op'.failed, NEW pair \in Done'
             PROVE  /\ WholeIn(txn, pair)'
                    /\ \A synthetic \in ToSet(MinedSynthetics(pair.system)) :
                          MinedIn(txn, synthetic)'
  BY DEF SeedIInv
<1>7. pair \in Done /\ pair \in Pairs
  <2>1. Pairs' = Pairs BY <1>1 DEF Pairs, corpus
  <2> QED BY <1>6, <2>1 DEF Done
<1>8. ~op.failed /\ Going /\ ToMine = op.seen /\ txn = NoTxn
  BY <1>1, <1>6, MineTxn DEF Going, ToMine
<1>9. /\ WholeIn(txn, pair)
      /\ \/ pair.system.slug \in op.seen
         \/ \A synthetic \in ToSet(MinedSynthetics(pair.system)) : MinedIn(txn, synthetic)
  BY <1>7, <1>8 DEF SeedIInv
<1>10. \A synthetic \in ToSet(MinedSynthetics(pair.system)) :
          /\ synthetic \in Synthetics
          /\ MinedIn(txn, synthetic) \/ synthetic \in ToSet(mined)
  BY <1>4, <1>7, <1>9, PairSynthetics
<1>11. /\ WholeIn(t, pair)
       /\ \A x \in Synthetics : MinedIn(txn, x) \/ x \in ToSet(mined) => MinedIn(t, x)
  <2>1. CASE mined # <<>> BY <1>4, <1>9, <2>1, MineMakes
  <2>2. CASE mined = <<>>
    <3>1. ToSet(mined) = {} BY <2>2 DEF ToSet
    <3>2. t = txn BY <2>2
    <3> HIDE DEF t, mined
    <3> QED BY <1>9, <3>1, <3>2
  <2> QED BY <2>1, <2>2
<1>12. /\ WholeIn(t, pair) => WholeIn(txn, pair)'
       /\ \A x : MinedIn(t, x) => MinedIn(txn, x)'
  <2>1. IsTxn(t) BY <1>4
  <2>2. Commit(t) \/ Keep(t) \/ (Rollback /\ t = NoTxn) BY <1>1, <1>8
  <2> HIDE DEF t
  <2> QED BY <1>1, <2>1, <2>2, WrittenKeeps
<1> QED BY <1>10, <1>11, <1>12

\* No script has run.
LEMMA SeedInit == Init => SeedIInv
<1> SUFFICES ASSUME Init PROVE ~Going
  BY DEF SeedIInv
<1>1. op.pc = "idle" /\ op.result = "none" BY DEF Init, Idle
<1> QED BY <1>1 DEF Going

\* Each step keeps SeedIInv.
LEMMA SeedStep == Types /\ ScriptIInv /\ SeedIInv /\ [Next]_vars => SeedIInv'
<1> SUFFICES ASSUME Types, ScriptIInv, SeedIInv, [Next]_vars PROVE SeedIInv'
  OBVIOUS
<1>0. Types' BY TypesStep
<1>a. ASSUME NEW result, result # "ok", op' = Idle(result) PROVE SeedIInv'
  <2>1. op'.pc = "idle" /\ op'.result = result BY <1>a DEF Idle
  <2> QED BY <1>a, <2>1 DEF SeedIInv, Going
<1>b. ASSUME UNCHANGED <<tables, store, queue, library, txn, worker>>,
             Going' /\ ~op'.failed => /\ Going /\ ~op.failed
                                      /\ Done' \subseteq Done /\ ToMine \subseteq ToMine'
      PROVE  SeedIInv'
  <2>1. \A v : IndexedIn(txn, v) => IndexedIn(txn, v)' BY <1>b DEF IndexedIn, Live, library
  <2>2. /\ \A pair : /\ WholeIn(txn, pair)
                     /\ SourceUrl(pair) \in DOMAIN store'
                     /\ store'[SourceUrl(pair)] = store[SourceUrl(pair)]
                     => WholeIn(txn, pair)'
        /\ \A x : MinedIn(txn, x) => MinedIn(txn, x)'
    BY <1>b, <2>1, CarriedWhole
  <2>3. \A pair : WholeIn(txn, pair) => WholeIn(txn, pair)' BY <1>b, <2>2 DEF WholeIn
  <2> QED BY <1>b, <2>2, <2>3, SeedCarried
<1>1. CASE Sync BY <1>1, <1>a DEF Sync
<1>2. CASE StartSeed \/ StartBootstrap
  BY <1>0, <1>2, ScriptStarts DEF SeedIInv
<1>3. ASSUME NEW b \in Brands, DeleteBrandRows(b) PROVE SeedIInv'
  <2>1. op' = [Idle("running") EXCEPT !.pc = "deleted", !.kind = "refresh", !.brand = b]
    BY <1>3 DEF DeleteBrandRows
  <2>2. op'.pc = "deleted" /\ op'.result = "running" BY <2>1 DEF Idle
  <2> QED BY <2>2 DEF SeedIInv, Going
<1>4. CASE BootstrapSingle
  <2>1. op' = Idle("failed") \/ op'.pc = "asset"
    BY <1>4, StartFields DEF BootstrapSingle
  <2>2. CASE op' = Idle("failed") BY <1>a, <2>2
  <2>3. CASE op'.pc = "asset" BY <1>0, <1>4, <2>3, ScriptStarts DEF SeedIInv
  <2> QED BY <2>1, <2>2, <2>3
<1>5. CASE SkipAsset
  <2> DEFINE head == Head(op.todo)
  <2>1. /\ UNCHANGED <<disk, tables, store, queue, library, runs, txn, worker>>
        /\ op.pc = "asset" /\ op.todo # <<>>
        /\ ~Usable(head)
    BY <1>5 DEF SkipAsset, Usable
  <2>2. /\ op'.pc = "asset" /\ op'.todo = Tail(op.todo) /\ op'.later = op.later
        /\ op'.failed = op.failed /\ op'.seen = op.seen /\ op'.scope = op.scope
    BY <1>5, AssetFields
  <2>3. Todo = {head} \cup Todo' BY <2>1, <2>2, TailTodo
  <2>4. Pairs' = Pairs BY <2>1 DEF Pairs, corpus
  <2> HIDE DEF head
  <2>5. Done' \subseteq Done BY <2>1, <2>2, <2>3, <2>4 DEF Done
  <2>6. ToMine' = ToMine BY <2>1, <2>2 DEF ToMine
  <2>7. ~op'.failed => ~op.failed BY <2>2, Zenon
  <2>8. Going BY <2>1 DEF Going
  <2> QED BY <1>b, <2>1, <2>5, <2>6, <2>7, <2>8
<1>6. CASE PutZip BY <1>6, SeedPut
<1>7. CASE SeedAsset BY <1>7, SeedRows
<1>8. CASE EndAssets BY <1>8, SeedEnd
<1>9. CASE Mine BY <1>9, SeedMined
<1>10. CASE SeedFails
  <2>1. op.pc = "asset" /\ AfterBrand(TRUE) /\ disk' = disk BY <1>10 DEF SeedFails
  <2>2. ~(Going' /\ ~op'.failed) BY <1>0, <2>1, AfterScript
  <2> QED BY <2>2 DEF SeedIInv
<1>11. CASE Crash BY <1>11, <1>a DEF Crash
<1>12. CASE EndRefresh
  <2>1. /\ op.pc = "draining" /\ op' = [Idle("ok") EXCEPT !.scope = op.scope]
        /\ UNCHANGED <<disk, tables, store, queue, library, runs, txn, worker>>
    BY <1>12 DEF EndRefresh, Succeed
  <2>2. op'.scope = op.scope /\ Todo' = {} BY <1>0, <2>1, RestingScript
  <2>3. op.todo = <<>> /\ op.later = <<>> /\ ~op.failed BY <2>1 DEF ScriptIInv
  <2>4. Todo = {}
    <3>1. ToSet(<<>>) = {} BY DEF ToSet
    <3> QED BY <2>3, <3>1 DEF Todo, AllOf
  <2>5. Pairs' = Pairs BY <2>1 DEF Pairs, corpus
  <2>6. Done' = Done BY <2>2, <2>4, <2>5 DEF Done
  <2>7. ToMine = {} /\ Going BY <2>1 DEF ToMine, Going
  <2> QED BY <1>b, <2>1, <2>3, <2>6, <2>7
<1>13. CASE SuppressSeedBrands BY <1>13, <1>a DEF SuppressSeedBrands
<1>14. CASE ReconcileAliases BY <1>14, <1>a DEF ReconcileAliases
<1>15. CASE StartJob \/ WriteJob \/ LoseJob
  <2>1. UNCHANGED <<disk, op>> BY <1>15, Zenon DEF StartJob, WriteJob, LoseJob
  <2>2. /\ \A pair : WholeIn(txn, pair) => WholeIn(txn, pair)'
        /\ \A x : MinedIn(txn, x) => MinedIn(txn, x)'
    BY <1>15, DrainKeeps
  <2>3. Going' = Going /\ Done' = Done /\ ToMine' = ToMine
    BY <2>1 DEF Going, Done, ToMine, Todo, Pairs, corpus
  <2> QED BY <2>1, <2>2, <2>3, SeedCarried
<1>16. CASE UNCHANGED vars
  <2>1. UNCHANGED <<disk, tables, store, queue, library, txn, op, runs, worker>>
    BY <1>16 DEF vars
  <2>2. Going' = Going /\ Done' = Done /\ ToMine' = ToMine
    BY <2>1 DEF Going, Done, ToMine, Todo, Pairs, corpus
  <2> QED BY <1>b, <2>1, <2>2
<1> QED
  BY <1>1, <1>2, <1>3, <1>4, <1>5, <1>6, <1>7, <1>8, <1>9, <1>10, <1>11, <1>12,
     <1>13, <1>14, <1>15, <1>16 DEF Next, Operate, Script, Drain

\* With nothing to do and nothing uncommitted, SeedIInv says that the tables are whole.
LEMMA SeedShown == Types /\ ScriptIInv /\ SeedIInv => SeededIsWhole
<1> SUFFICES ASSUME Types, ScriptIInv, SeedIInv, op.result = "ok"
             PROVE  /\ \A pair \in Pairs :
                          pair.system.slug \in op.scope /\ Usable(pair) => SeededWhole(pair)
                    /\ \A s \in DOMAIN corpus : corpus[s].slug \in op.scope =>
                          \A synthetic \in ToSet(MinedSynthetics(corpus[s])) :
                             (\E pair \in ToSet(IterAssets(<<corpus[s]>>)) : Usable(pair))
                                => MinedWhole(synthetic)
  BY DEF SeededIsWhole, Pairs
<1>1. op.pc = "idle" /\ op.todo = <<>> /\ op.later = <<>> /\ ~op.failed
  BY DEF ScriptIInv
<1>2. txn = NoTxn BY <1>1 DEF Types
<1>3. /\ txn.versions = versions /\ txn.components = components
      /\ txn.extractions = extractions /\ ToSet(txn.jobs) = {}
  BY <1>2 DEF NoTxn, ToSet
<1>4. Todo = {}
  <2>1. ToSet(<<>>) = {} BY DEF ToSet
  <2> QED BY <1>1, <2>1 DEF Todo, AllOf
<1>5. ASSUME NEW pair \in Pairs, pair.system.slug \in op.scope, Usable(pair)
      PROVE  /\ WholeIn(txn, pair)
             /\ \A synthetic \in ToSet(MinedSynthetics(pair.system)) : MinedIn(txn, synthetic)
  <2>1. pair \in Done BY <1>4, <1>5 DEF Done
  <2>2. Going /\ ToMine = {} BY <1>1 DEF Going, ToMine
  <2> QED BY <1>1, <2>1, <2>2 DEF SeedIInv
<1>6. \A v : IndexedIn(txn, v) => Live(v) \/ ~versions[v].public \/ \E r \in DOMAIN pages : r[1] = v
  BY <1>3 DEF IndexedIn
<1>7. ASSUME NEW pair \in Pairs, pair.system.slug \in op.scope, Usable(pair)
      PROVE  SeededWhole(pair)
  BY <1>3, <1>5, <1>6, <1>7 DEF SeededWhole, WholeIn
<1>8. ASSUME NEW s \in DOMAIN corpus, corpus[s].slug \in op.scope,
             NEW synthetic \in ToSet(MinedSynthetics(corpus[s])),
             NEW pair \in ToSet(IterAssets(<<corpus[s]>>)), Usable(pair)
      PROVE  MinedWhole(synthetic)
  <2> DEFINE one == <<corpus[s]>>
  <2>0. disk \in DOMAIN Corpora BY DEF Types
  <2>1. IsList(one) /\ DOMAIN one = {1} /\ one[1] = corpus[s] BY DEF IsList
  <2>2. IsList(corpus[s].assets) BY <2>0, CorpusIsCorpus DEF IsCorpus
  <2>3. pair \in ToSet(IterAssets(one)) BY <1>8
  <2> HIDE DEF one
  <2>4. \E a \in ToSet(corpus[s].assets) : pair = [system |-> corpus[s], asset |-> a]
    BY <2>1, <2>2, <2>3, IterList
  <2>5. pair \in Pairs /\ pair.system = corpus[s] BY <2>0, <2>4, PairsOfCorpus
  <2>6. MinedIn(txn, synthetic) BY <1>5, <1>8, <2>5
  <2> QED BY <1>3, <1>6, <2>6 DEF MinedIn, MinedWhole
<1> QED BY <1>7, <1>8

\* Whatever crashed, failed or was left uncommitted before, a script that reported
\* success left every usable asset of its scope whole, with its mined atoms.
THEOREM SeededHolds == Spec => []SeededIsWhole
<1>1. Init => Types /\ ScriptIInv /\ SeedIInv BY TypesInit, ScriptInit, SeedInit
<1>2. Types /\ ScriptIInv /\ SeedIInv /\ [Next]_vars => (Types /\ ScriptIInv /\ SeedIInv)'
  BY TypesStep, ScriptStep, SeedStep
<1>3. Types /\ ScriptIInv /\ SeedIInv => SeededIsWhole BY SeedShown
<1> QED BY <1>1, <1>2, <1>3, PTL DEF Spec
=============================================================================
