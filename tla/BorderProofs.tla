----------------------------- MODULE BorderProofs -----------------------------
(***************************************************************************)
(* Theorems about Border: for every web, host, configuration and view, and *)
(* (last) every text that is read in pieces or searched.                   *)
(***************************************************************************)
EXTENDS Border, TLAPS, SequenceTheorems, FiniteSetTheorems, WellFoundedInduction

-----------------------------------------------------------------------------
(***************************************************************************)
(* Paths.                                                                  *)
(***************************************************************************)

\* A sequence of anything is a path.
LEMMA SequenceIsPath ==
  ASSUME NEW S, NEW p \in Seq(S)
  PROVE  Path(p)
<1>1. Len(p) \in Nat /\ p = [i \in 1 .. Len(p) |-> p[i]] /\ DOMAIN p = 1 .. Len(p)
  BY LenProperties
<1>2. \A i \in 1 .. Len(p) : p[i] \in Range(p)
  BY <1>1 DEF Range
<1>3. p \in [1 .. Len(p) -> Range(p)]
  BY <1>1, <1>2
<1>4. \A R, n, q : n \in Nat /\ q \in [1 .. n -> R] => q \in Seq(R)
  OBVIOUS
<1> QED BY <1>1, <1>3, <1>4 DEF Path

\* The shape of a path.
LEMMA PathShape ==
  ASSUME NEW p, Path(p)
  PROVE  /\ Len(p) \in Nat /\ DOMAIN p = 1 .. Len(p) /\ p = [i \in 1 .. Len(p) |-> p[i]]
         /\ p \in Seq(Range(p))
  BY LenProperties DEF Path

\* Paths of paths: a name more, one after the other, a piece.
LEMMA PathAppend ==
  ASSUME NEW p, Path(p), NEW x
  PROVE  Path(Append(p, x))
<1>1. p \in Seq(Range(p) \cup {x})
  BY SeqMonotonic DEF Path
<1>2. Append(p, x) \in Seq(Range(p) \cup {x})
  BY <1>1, AppendProperties
<1> QED BY <1>2, SequenceIsPath

\* A path below another begins with it.
LEMMA PathConcat ==
  ASSUME NEW p, Path(p), NEW q, Path(q)
  PROVE  Path(p \o q) /\ IsPrefix(p, p \o q)
<1> DEFINE S == Range(p) \cup Range(q)
<1>1. p \in Seq(S) /\ q \in Seq(S)
  BY SeqMonotonic DEF Path
<1> HIDE DEF S
<1>2. p \o q \in Seq(S)
  BY <1>1, ConcatProperties
<1>3. Len(p) \in Nat /\ Len(q) \in Nat /\ Len(p \o q) = Len(p) + Len(q)
  BY <1>1, ConcatProperties
<1>4. SubSeq(p \o q, 1, Len(p)) = SubSeq(p, 1, Len(p))
  BY <1>1, <1>3
<1>5. IsPrefix(p, p \o q)
  BY <1>3, <1>4 DEF IsPrefix
<1> QED BY <1>2, <1>5, SequenceIsPath

\* A piece of a path is one.
LEMMA PathPiece ==
  ASSUME NEW p, Path(p), NEW m \in Nat, m >= 1, NEW n \in Int, n <= Len(p)
  PROVE  Path(SubSeq(p, m, n))
<1>1. p \in Seq(Range(p)) /\ Len(p) \in Nat
  BY PathShape
<1>2. SubSeq(p, m, n) \in Seq(Range(p))
  <2>1. \A i \in m .. n : p[i] \in Range(p)
    BY <1>1
  <2>2. m \in Int /\ n \in Int
    OBVIOUS
  <2> QED BY <2>1, <2>2, SubSeqProperties
<1> QED BY <1>2, SequenceIsPath

\* What a beginning of a path is, name by name.
LEMMA PrefixNames ==
  ASSUME NEW p, Path(p), NEW q, Path(q)
  PROVE  IsPrefix(p, q) <=> Len(p) <= Len(q) /\ \A i \in 1 .. Len(p) : p[i] = q[i]
<1>1. Len(p) \in Nat /\ Len(q) \in Nat /\ p \in Seq(Range(p)) /\ q \in Seq(Range(q))
  BY PathShape
<1>2. SubSeq(p, 1, Len(p)) = p
  BY <1>1, SubSeqFull
<1>3. ASSUME Len(p) <= Len(q)
      PROVE  SubSeq(q, 1, Len(p)) = p <=> \A i \in 1 .. Len(p) : p[i] = q[i]
  <2>1. /\ SubSeq(q, 1, Len(p)) = [i \in 1 .. Len(p) |-> q[i]]
    BY <1>1, <1>3
  <2>2. p = [i \in 1 .. Len(p) |-> p[i]]
    BY PathShape
  <2> QED BY <2>1, <2>2
<1> QED BY <1>2, <1>3 DEF IsPrefix

\* A path begins with itself.
LEMMA PrefixReflexive ==
  ASSUME NEW p, Path(p)
  PROVE  IsPrefix(p, p)
  BY PathShape, PrefixNames

\* The beginning of a beginning.
LEMMA PrefixTransitive ==
  ASSUME NEW p, Path(p), NEW q, Path(q), NEW r, Path(r), IsPrefix(p, q), IsPrefix(q, r)
  PROVE  IsPrefix(p, r)
<1>1. Len(p) \in Nat /\ Len(q) \in Nat /\ Len(r) \in Nat
  BY PathShape
<1>2. /\ Len(p) <= Len(q) /\ \A i \in 1 .. Len(p) : p[i] = q[i]
      /\ Len(q) <= Len(r) /\ \A i \in 1 .. Len(q) : q[i] = r[i]
  BY PrefixNames
<1>3. Len(p) <= Len(r) /\ \A i \in 1 .. Len(p) : p[i] = r[i]
  BY <1>1, <1>2
<1> QED BY <1>3, PrefixNames

-----------------------------------------------------------------------------
(***************************************************************************)
(* Recursion over a sequence.  The round n makes of a value x the value    *)
(* step[n][x].                                                             *)
(***************************************************************************)
Rounds(X, start, step, N, f) ==
  /\ f \in [0 .. N -> X]
  /\ f[0] = start
  /\ \A n \in 1 .. N : f[n] = step[n][f[n - 1]]

\* A set of naturals that is not empty has a least element.
LEMMA LeastNatural ==
  ASSUME NEW S \in SUBSET Nat, S /= {}
  PROVE  \E m \in S : \A n \in S : m <= n
<1> DEFINE R == {p \in Nat \X Nat : p[1] < p[2]}
<1>1. R = OpToRel(<, Nat)
  BY DEF OpToRel
<1>2. IsWellFoundedOn(R, Nat)
  BY <1>1, NatLessThanWellFounded
<1>3. PICK m \in S : \A n \in S : <<n, m>> \notin R
  BY <1>2, WFMin
<1>4. ASSUME NEW n \in S PROVE m <= n
  <2>1. m \in Nat /\ n \in Nat /\ <<n, m>> \in Nat \X Nat
    OBVIOUS
  <2>2. ~ (n < m)
    BY <1>3, <2>1
  <2> QED BY <2>1, <2>2
<1> QED BY <1>4

\* There is one function for any number of rounds.
LEMMA RoundsExist ==
  ASSUME NEW N \in Nat, NEW X, NEW start \in X, NEW step,
         \A n \in 1 .. N, x \in X : step[n][x] \in X
  PROVE  \E f : Rounds(X, start, step, N, f)
<1> DEFINE bad == {m \in 0 .. N : ~ \E f : Rounds(X, start, step, m, f)}
<1>1. SUFFICES ASSUME bad /= {} PROVE FALSE
  OBVIOUS
<1>2. PICK m \in bad : \A j \in bad : m <= j
  <2>1. bad \in SUBSET Nat
    OBVIOUS
  <2> HIDE DEF bad
  <2> QED BY <1>1, <2>1, LeastNatural
<1>3. m /= 0
  <2> DEFINE f == [j \in 0 .. 0 |-> start]
  <2>1. f \in [0 .. 0 -> X] /\ f[0] = start
    OBVIOUS
  <2>2. Rounds(X, start, step, 0, f)
    BY <2>1 DEF Rounds
  <2> QED BY <1>2, <2>2
<1>4. m \in 1 .. N /\ m - 1 \in 0 .. N /\ m - 1 \notin bad
  BY <1>2, <1>3
<1>5. PICK f : Rounds(X, start, step, m - 1, f)
  BY <1>4
<1> DEFINE g == [j \in 0 .. m |-> IF j < m THEN f[j] ELSE step[m][f[m - 1]]]
<1>6. /\ f \in [0 .. m - 1 -> X] /\ f[0] = start
      /\ \A n \in 1 .. m - 1 : f[n] = step[n][f[n - 1]]
  BY <1>5 DEF Rounds
<1>7. f[m - 1] \in X /\ step[m][f[m - 1]] \in X
  BY <1>4, <1>6
<1>8. g \in [0 .. m -> X] /\ g[0] = start
  BY <1>4, <1>6, <1>7
<1>9. ASSUME NEW n \in 1 .. m PROVE g[n] = step[n][g[n - 1]]
  <2>1. g[n - 1] = f[n - 1]
    BY <1>4
  <2>2. CASE n = m
    BY <1>4, <2>1, <2>2
  <2>3. CASE n < m
    <3>1. g[n] = f[n] /\ n \in 1 .. m - 1
      BY <1>4, <2>3
    <3> QED BY <1>6, <2>1, <3>1
  <2> QED BY <1>4, <2>2, <2>3
<1>10. Rounds(X, start, step, m, g)
  BY <1>8, <1>9 DEF Rounds
<1> QED BY <1>2, <1>10

\* What holds at first and is kept by every round holds in the end; `good` is the set
\* of the rounds where it holds.
LEMMA RoundsReach ==
  ASSUME NEW N \in Nat, NEW good, 0 \in good,
         \A n \in 1 .. N : n - 1 \in good => n \in good
  PROVE  \A n \in 0 .. N : n \in good
<1> DEFINE bad == {n \in 0 .. N : n \notin good}
<1>1. SUFFICES ASSUME bad /= {} PROVE FALSE
  OBVIOUS
<1>2. PICK m \in bad : \A j \in bad : m <= j
  <2>1. bad \in SUBSET Nat
    OBVIOUS
  <2> HIDE DEF bad
  <2> QED BY <1>1, <2>1, LeastNatural
<1>3. m \in 1 .. N /\ m - 1 \in 0 .. N /\ m - 1 \notin bad
  BY <1>2
<1> QED BY <1>2, <1>3

\* Resolving a path gives a path, and the same one if it has no "..".
LEMMA ResolveFacts ==
  ASSUME NEW path, Path(path)
  PROVE  /\ Path(Resolve(path))
         /\ Up \notin Range(path) => Resolve(path) = path
<1> DEFINE N == Len(path)
           X == Seq(Range(path))
           step == [n \in 1 .. N |-> [x \in X |-> Into(x, path[n])]]
           Is(f) == f = [n \in 0 .. N |-> IF n = 0 THEN <<>> ELSE Into(f[n - 1], path[n])]
           at == CHOOSE f : Is(f)
<1>1. N \in Nat /\ path \in X /\ \A n \in 1 .. N : path[n] \in Range(path)
  BY PathShape DEF Range
<1>2. \A n \in 1 .. N, x \in X : Into(x, path[n]) \in X
  <2> SUFFICES ASSUME NEW n \in 1 .. N, NEW x \in X PROVE Into(x, path[n]) \in X
    OBVIOUS
  <2>1. Append(x, path[n]) \in X
    BY <1>1
  <2>2. Front(x) \in X
    <3>1. Len(x) \in Nat /\ \A i \in 1 .. Len(x) - 1 : x[i] \in Range(path)
      OBVIOUS
    <3>2. 1 \in Int /\ Len(x) - 1 \in Int
      BY <3>1
    <3> QED BY <3>1, <3>2, SubSeqProperties DEF Front
  <2> QED BY <2>1, <2>2 DEF Into
<1>3. <<>> \in X
  OBVIOUS
<1>4. \A n \in 1 .. N, x \in X : step[n][x] = Into(x, path[n])
  OBVIOUS
<1> HIDE DEF X, step, N
<1>5. PICK f : Rounds(X, <<>>, step, N, f)
  BY <1>1, <1>2, <1>3, <1>4, RoundsExist
<1>6. Is(f)
  <2>1. f = [n \in 0 .. N |-> f[n]] /\ f[0] = <<>>
    BY <1>5 DEF Rounds
  <2>2. \A n \in 0 .. N : n /= 0 => f[n] = Into(f[n - 1], path[n])
    <3> SUFFICES ASSUME NEW n \in 0 .. N, n /= 0 PROVE f[n] = Into(f[n - 1], path[n])
      OBVIOUS
    <3>1. n \in 1 .. N /\ n - 1 \in 0 .. N
      BY <1>1
    <3>2. f[n - 1] \in X /\ f[n] = step[n][f[n - 1]]
      BY <1>5, <3>1 DEF Rounds
    <3> QED BY <1>4, <3>1, <3>2
  <2> QED BY <2>1, <2>2
<1>7. Is(at)
  BY <1>6
<1>8. Resolve(path) = at[N]
  BY DEF Resolve, N
<1> HIDE DEF at
<1>9. at[0] = <<>> /\ \A n \in 1 .. N : at[n] = Into(at[n - 1], path[n])
  BY <1>1, <1>7
<1>10. at[N] \in X
  <2> DEFINE good == {n \in 0 .. N : at[n] \in X}
  <2>1. 0 \in good
    BY <1>1, <1>3, <1>9
  <2>2. \A n \in 1 .. N : n - 1 \in good => n \in good
    BY <1>1, <1>2, <1>9
  <2>3. \A n \in 0 .. N : n \in good
    <3> HIDE DEF good
    <3> QED BY <1>1, <2>1, <2>2, RoundsReach
  <2> QED BY <1>1, <2>3
<1>11. ASSUME Up \notin Range(path) PROVE at[N] = path
  <2> DEFINE good == {n \in 0 .. N : at[n] = SubSeq(path, 1, n)}
  <2>1. 0 \in good
    <3>1. SubSeq(path, 1, 0) = <<>>
      BY SubSeqEmpty
    <3>2. 0 \in 0 .. N
      BY <1>1
    <3>3. at[0] = SubSeq(path, 1, 0)
      BY <1>9, <3>1, Zenon
    <3> QED BY <3>2, <3>3, Zenon
  <2>2. ASSUME NEW n \in 1 .. N, n - 1 \in good PROVE n \in good
    <3>1. path[n] /= Up /\ at[n - 1] = SubSeq(path, 1, n - 1)
      BY <1>1, <1>11, <2>2
    <3>2. at[n] = Append(SubSeq(path, 1, n - 1), path[n])
      BY <1>9, <3>1 DEF Into
    <3>3. SubSeq(path, 1, n) = Append(SubSeq(path, 1, n - 1), path[n])
      BY <1>1 DEF X, N
    <3> QED BY <1>1, <3>2, <3>3
  <2>3. \A n \in 0 .. N : n \in good
    <3> HIDE DEF good
    <3> QED BY <1>1, <2>1, <2>2, RoundsReach
  <2>4. at[N] = SubSeq(path, 1, N)
    BY <1>1, <2>3
  <2> QED BY <1>1, <2>4, SubSeqFull DEF N, X
<1> QED BY <1>8, <1>10, <1>11, SequenceIsPath DEF X
-----------------------------------------------------------------------------
(***************************************************************************)
(* The inductive invariant: all keys and places are paths, a fetch has a   *)
(* page in hand that there is, and overlays and links only lead where      *)
(* mount_allowlist has let them, or a command has led them.                *)
(***************************************************************************)
Opened(lists, targets, p) ==
  \/ {} \in lists \/ \E prefix \in UNION lists : IsPrefix(prefix, p)
  \/ \E to \in targets : IsPrefix(to, p)
OpenTo(p) == Opened(admitted, strayed, p)
Keyed(files) == \A key \in DOMAIN files : Path(key)
Led(places) == \A key \in DOMAIN places : Path(key) /\ Path(places[key]) /\ OpenTo(places[key])
Fetches == [page : WebPages, domains : Domains, call : 1 .. MaxCalls]

LineInv == Path(line) /\ now \in DOMAIN line /\ \A i \in DOMAIN line : Keyed(line[i])
FetchingInv == calls \in 0 .. MaxCalls /\ fetching \in [Fetchers -> Fetches \cup {Idle}]
SettingsInv ==
  /\ config \in [domains : Domains, mounts : Mounts]
  /\ admitted \subseteq Mounts /\ config.mounts \in admitted
  /\ temp \in TempDirs
DiskInv ==
  /\ Keyed(host) /\ Keyed(synced) /\ Led(overlays) /\ Led(links)
  /\ \A to \in strayed : Path(to)
IInv == LineInv /\ FetchingInv /\ SettingsInv /\ DiskInv

-----------------------------------------------------------------------------
(***************************************************************************)
(* What a fetch saves.                                                     *)
(***************************************************************************)
Raw(url) == IF url.name = NoName THEN Plain(<<"asset">>, "") ELSE url.name
Numbered(url, n) == [Raw(url) EXCEPT !.more = Append(Raw(url).more, n)]
NamesFor(url) == {Raw(url)} \cup {Numbered(url, n) : n \in Nat}

\* Numbers make different names.
LEMMA NumbersDiffer ==
  ASSUME NEW url, NamedUrl(url), NEW m \in Nat, NEW n \in Nat,
         Numbered(url, m) = Numbered(url, n)
  PROVE  m = n
<1> DEFINE more == Raw(url).more
<1>1. Raw(url) \in [stem : {Raw(url).stem}, more : Seq(Nat), ext : {Raw(url).ext}]
  <2>1. CASE url.name = NoName
    <3>1. Raw(url) = [stem |-> <<"asset">>, more |-> <<>>, ext |-> ""] /\ <<>> \in Seq(Nat)
      BY <2>1 DEF Raw, Plain
    <3>2. \A r, a, b, c : r = [stem |-> a, more |-> b, ext |-> c] /\ b \in Seq(Nat)
                            => r \in [stem : {r.stem}, more : Seq(Nat), ext : {r.ext}]
      OBVIOUS
    <3> QED BY <3>1, <3>2
  <2>2. CASE url.name /= NoName
    BY <2>2 DEF Raw, NamedUrl
  <2> QED BY <2>1, <2>2
<1>2. more \in Seq(Nat) /\ Numbered(url, m).more = Append(more, m)
      /\ Numbered(url, n).more = Append(more, n)
  BY <1>1 DEF Numbered
<1>3. Append(more, m) = Append(more, n)
  BY <1>2
<1> HIDE DEF more
<1>4. Append(more, m)[Len(more) + 1] = m /\ Append(more, n)[Len(more) + 1] = n
  BY <1>2, AppendProperties
<1> QED BY <1>3, <1>4

\* An asset gets a name that none of its bundle has.
LEMMA AssetNameFacts ==
  ASSUME NEW url, NamedUrl(url), NEW used, IsFiniteSet(used)
  PROVE  /\ AssetFilename(url, used) \notin used
         /\ AssetFilename(url, used) \in NamesFor(url)
<1> DEFINE c == Cardinality(used)
           free == {n \in 2 .. c + 2 : Numbered(url, n) \notin used}
           f == [n \in 2 .. c + 2 |-> Numbered(url, n)]
<1>1. c \in Nat
  BY FS_CardinalityType
<1>2. ASSUME free = {} PROVE FALSE
  <2>1. \A n \in 2 .. c + 2 : Numbered(url, n) \in used
    BY <1>2
  <2>2. f \in [2 .. c + 2 -> used]
    BY <2>1
  <2>3. \A m, n \in 2 .. c + 2 : f[m] = f[n] => m = n
    BY <1>1, NumbersDiffer
  <2>4. f \in Injection(2 .. c + 2, used)
    BY <2>2, <2>3 DEF Injection, IsInjective
  <2>5. Cardinality(2 .. c + 2) <= c
    <3> HIDE DEF f
    <3> QED BY <2>4, FS_Injection
  <2>6. Cardinality(2 .. c + 2) = c + 1
    <3>1. 2 \in Int /\ c + 2 \in Int /\ ~(2 > c + 2) /\ (c + 2) - 2 + 1 = c + 1
      BY <1>1
    <3> HIDE DEF c
    <3> QED BY <3>1, FS_Interval
  <2> QED BY <1>1, <2>5, <2>6
<1>3. \E n \in free : \A m \in free : n <= m
  <2>1. free \in SUBSET Nat
    BY <1>1
  <2> HIDE DEF free
  <2> QED BY <1>2, <2>1, LeastNatural
<1>4. AssetFilename(url, used) =
        IF Raw(url) \notin used THEN Raw(url)
        ELSE Numbered(url, CHOOSE n \in free : \A m \in free : n <= m)
  BY DEF AssetFilename, Raw, Numbered
<1> DEFINE least == CHOOSE n \in free : \A m \in free : n <= m
<1>5. least \in free
  BY <1>3
<1>6. least \in Nat /\ Numbered(url, least) \notin used
  BY <1>1, <1>5
<1> HIDE DEF least
<1>7. AssetFilename(url, used) = IF Raw(url) \notin used THEN Raw(url) ELSE Numbered(url, least)
  BY <1>4 DEF least
<1> QED BY <1>6, <1>7 DEF NamesFor

\* What a sequence holds once there is one thing more at its end.
LEMMA AppendRange ==
  ASSUME NEW S, NEW s \in Seq(S), NEW x
  PROVE  Range(Append(s, x)) = Range(s) \cup {x}
<1>1. Len(s) \in Nat /\ DOMAIN s = 1 .. Len(s)
  BY LenProperties
<1>2. /\ DOMAIN Append(s, x) = 1 .. Len(s) + 1
      /\ Append(s, x)[Len(s) + 1] = x
      /\ \A i \in 1 .. Len(s) : Append(s, x)[i] = s[i]
  <2>1. s \in Seq(S \cup {x})
    BY SeqMonotonic
  <2> QED BY <1>1, <2>1, AppendProperties
<1>3. ASSUME NEW y \in Range(Append(s, x)) PROVE y \in Range(s) \cup {x}
  <2>1. PICK i \in 1 .. Len(s) + 1 : Append(s, x)[i] = y
    BY <1>2 DEF Range
  <2>2. CASE i = Len(s) + 1
    BY <1>2, <2>1, <2>2
  <2>3. CASE i /= Len(s) + 1
    <3>1. i \in 1 .. Len(s)
      BY <1>1, <2>1, <2>3
    <3> QED BY <1>1, <1>2, <2>1, <3>1 DEF Range
  <2> QED BY <2>2, <2>3
<1>4. ASSUME NEW y \in Range(s) PROVE y \in Range(Append(s, x))
  <2>1. PICK i \in 1 .. Len(s) : s[i] = y
    BY <1>1 DEF Range
  <2>2. i \in 1 .. Len(s) + 1
    BY <1>1
  <2> QED BY <1>2, <2>1, <2>2 DEF Range
<1>5. x \in Range(Append(s, x))
  <2>1. Len(s) + 1 \in 1 .. Len(s) + 1
    BY <1>1
  <2> QED BY <1>2, <2>1 DEF Range
<1> QED BY <1>3, <1>4, <1>5

\* The assets of one kind: after those there are, the URLs of all the elements of that
\* kind that have one.
Chosen(elements, tag) == {el.url : el \in {e \in Range(elements) : e.tag = tag /\ e.url /= NoUrl}}
LEMMA SelectedFacts ==
  ASSUME NEW U, NEW urls \in Seq(U), NEW elements, Path(elements), NEW tag,
         \A el \in Range(elements) : el.url = NoUrl \/ el.url \in U
  PROVE  /\ Selected(urls, elements, tag) \in Seq(U)
         /\ Range(Selected(urls, elements, tag)) = Range(urls) \cup Chosen(elements, tag)
<1> DEFINE N == Len(elements)
           X == Seq(U)
           step == [n \in 1 .. N |-> [x \in X |-> Discovered(x, elements[n], tag)]]
           Is(f) == f = [n \in 0 .. N |-> IF n = 0 THEN urls
                                          ELSE Discovered(f[n - 1], elements[n], tag)]
           at == CHOOSE f : Is(f)
           takes(n) == elements[n].tag = tag /\ elements[n].url /= NoUrl
           taken(n) == {elements[i].url : i \in {j \in 1 .. n : takes(j)}}
<1>1. /\ N \in Nat /\ DOMAIN elements = 1 .. N
      /\ \A n \in 1 .. N : elements[n] \in Range(elements)
  BY PathShape DEF Range
<1>2. \A n \in 1 .. N, x \in X :
        /\ Discovered(x, elements[n], tag) \in X
        /\ Range(Discovered(x, elements[n], tag)) =
             Range(x) \cup IF takes(n) THEN {elements[n].url} ELSE {}
  <2> SUFFICES ASSUME NEW n \in 1 .. N, NEW x \in X
               PROVE  /\ Discovered(x, elements[n], tag) \in X
                      /\ Range(Discovered(x, elements[n], tag)) =
                           Range(x) \cup IF takes(n) THEN {elements[n].url} ELSE {}
    OBVIOUS
  <2>1. CASE takes(n) /\ elements[n].url \notin Range(x)
    <3>1. Discovered(x, elements[n], tag) = Append(x, elements[n].url) /\ elements[n].url \in U
      BY <1>1, <2>1 DEF Discovered
    <3>2. Range(Append(x, elements[n].url)) = Range(x) \cup {elements[n].url}
      BY AppendRange
    <3> QED BY <2>1, <3>1, <3>2, AppendProperties
  <2>2. CASE ~(takes(n) /\ elements[n].url \notin Range(x))
    <3>1. Discovered(x, elements[n], tag) = x
      BY <2>2 DEF Discovered
    <3> QED BY <2>2, <3>1
  <2> QED BY <2>1, <2>2
<1>3. urls \in X /\ \A n \in 1 .. N, x \in X : step[n][x] = Discovered(x, elements[n], tag)
  OBVIOUS
<1> HIDE DEF X, step, N
<1>4. PICK f : Rounds(X, urls, step, N, f)
  <2>1. \A n \in 1 .. N, x \in X : step[n][x] \in X
    BY <1>2, <1>3
  <2> QED BY <1>1, <1>3, <2>1, RoundsExist
<1>5. Is(f)
  <2>1. f = [n \in 0 .. N |-> f[n]] /\ f[0] = urls
    BY <1>4 DEF Rounds
  <2>2. \A n \in 0 .. N : n /= 0 => f[n] = Discovered(f[n - 1], elements[n], tag)
    <3> SUFFICES ASSUME NEW n \in 0 .. N, n /= 0
                 PROVE  f[n] = Discovered(f[n - 1], elements[n], tag)
      OBVIOUS
    <3>1. n \in 1 .. N /\ n - 1 \in 0 .. N
      BY <1>1
    <3>2. f[n - 1] \in X /\ f[n] = step[n][f[n - 1]]
      BY <1>4, <3>1 DEF Rounds
    <3> QED BY <1>3, <3>1, <3>2
  <2> QED BY <2>1, <2>2
<1>6. Is(at)
  BY <1>5
<1>7. Selected(urls, elements, tag) = at[N]
  BY DEF Selected, N
<1> HIDE DEF at
<1>8. at[0] = urls /\ \A n \in 1 .. N : at[n] = Discovered(at[n - 1], elements[n], tag)
  BY <1>1, <1>6
<1>9. at[N] \in X /\ Range(at[N]) = Range(urls) \cup taken(N)
  <2> DEFINE good == {n \in 0 .. N : at[n] \in X /\ Range(at[n]) = Range(urls) \cup taken(n)}
  <2>1. 0 \in good
    <3>1. taken(0) = {}
      OBVIOUS
    <3> HIDE DEF taken
    <3> QED BY <1>1, <1>3, <1>8, <3>1
  <2>2. ASSUME NEW n \in 1 .. N, n - 1 \in good PROVE n \in good
    <3>1. taken(n) = taken(n - 1) \cup IF takes(n) THEN {elements[n].url} ELSE {}
      <4>1. 1 .. n = (1 .. n - 1) \cup {n}
        BY <1>1
      <4> HIDE DEF takes
      <4> QED BY <4>1
    <3>2. at[n - 1] \in X /\ Range(at[n - 1]) = Range(urls) \cup taken(n - 1)
      BY <2>2
    <3>3. /\ Discovered(at[n - 1], elements[n], tag) \in X
          /\ Range(Discovered(at[n - 1], elements[n], tag)) =
               Range(at[n - 1]) \cup IF takes(n) THEN {elements[n].url} ELSE {}
      BY <1>2, <3>2
    <3> HIDE DEF taken, takes
    <3> QED BY <1>1, <1>8, <3>1, <3>2, <3>3
  <2>3. \A n \in 0 .. N : n \in good
    <3> HIDE DEF good
    <3> QED BY <1>1, <2>1, <2>2, RoundsReach
  <2>4. N \in good
    <3> HIDE DEF good
    <3> QED BY <1>1, <2>3
  <2> HIDE DEF taken
  <2> QED BY <2>4
<1>10. taken(N) = Chosen(elements, tag)
  <2>1. \A el \in Range(elements) : \E i \in 1 .. N : elements[i] = el
    BY <1>1 DEF Range
  <2> QED BY <1>1, <2>1 DEF Chosen
<1> QED BY <1>7, <1>9, <1>10 DEF X

\* The assets of a page are those of its elements that are stylesheets, scripts or
\* images and have a URL.
Urls(page) == {el.url : el \in Range(page.elements)} \ {NoUrl}
Wanted(page) ==
  {el.url : el \in {e \in Range(page.elements) : page.html /\ e.tag /= "other" /\ e.url /= NoUrl}}
LEMMA AssetsFacts ==
  ASSUME NEW page \in WebPages
  PROVE  /\ Assets(page) \in Seq(Urls(page)) /\ Range(Assets(page)) = Wanted(page)
         /\ \A url \in Urls(page) : NamedUrl(url)
<1> DEFINE U == Urls(page)
           els == page.elements
           sheets == Selected(<<>>, els, "stylesheet")
           scripts == Selected(sheets, els, "script")
           images == Selected(scripts, els, "img")
<1>1. /\ Path(els) /\ page.html \in BOOLEAN
      /\ \A el \in Range(els) : /\ el.tag \in {"stylesheet", "script", "img", "other"}
                                /\ el.url = NoUrl \/ el.url \in U
                                /\ el.url = NoUrl \/ NamedUrl(el.url)
  BY BorderAssumption DEF Path, Urls
<1>2. \A el \in Range(els) : el.url = NoUrl \/ el.url \in U
  BY <1>1
<1>3. <<>> \in Seq(U) /\ Range(<<>>) = {}
  BY DEF Range
<1> HIDE DEF U, els
<1>4. sheets \in Seq(U) /\ Range(sheets) = Chosen(els, "stylesheet")
  <2> DEFINE none == <<>>
  <2>1. sheets = Selected(none, els, "stylesheet") /\ none \in Seq(U) /\ Range(none) = {}
    BY <1>3
  <2>2. Path(els) /\ none \in Seq(U)
    BY <1>1, <1>3
  <2> HIDE DEF none, sheets, scripts, images
  <2>3. /\ Selected(none, els, "stylesheet") \in Seq(U)
        /\ Range(Selected(none, els, "stylesheet")) = Range(none) \cup Chosen(els, "stylesheet")
    BY <1>2, <2>2, SelectedFacts
  <2> QED BY <2>1, <2>3
<1>5. scripts \in Seq(U) /\ Range(scripts) = Range(sheets) \cup Chosen(els, "script")
  <2> HIDE DEF sheets
  <2> QED BY <1>1, <1>2, <1>4, SelectedFacts
<1>6. images \in Seq(U) /\ Range(images) = Range(scripts) \cup Chosen(els, "img")
  <2> HIDE DEF scripts
  <2> QED BY <1>1, <1>2, <1>5, SelectedFacts
<1>7. DiscoverAssetUrls(els) = images
  BY DEF DiscoverAssetUrls
<1> HIDE DEF images, scripts, sheets
<1>8. CASE page.html
  <2>1. Assets(page) = images
    BY <1>7, <1>8 DEF Assets, els
  <2>2. Chosen(els, "stylesheet") \cup Chosen(els, "script") \cup Chosen(els, "img")
          = {el.url : el \in {e \in Range(els) : e.tag /= "other" /\ e.url /= NoUrl}}
    BY <1>1 DEF Chosen
  <2>3. Wanted(page) = {el.url : el \in {e \in Range(els) : e.tag /= "other" /\ e.url /= NoUrl}}
    BY <1>8 DEF Wanted, els
  <2>4. Range(images) = Wanted(page)
    BY <1>4, <1>5, <1>6, <2>2, <2>3
  <2> QED BY <1>1, <1>6, <2>1, <2>4 DEF U, els, Urls
<1>9. CASE ~page.html
  <2>1. Assets(page) = <<>> /\ Wanted(page) = {}
    BY <1>9 DEF Assets, Wanted
  <2> QED BY <1>1, <1>3, <2>1 DEF U, els, Urls
<1> QED BY <1>1, <1>8, <1>9

\* What has become of the assets seen so far: each is fetched, skipped or failed, and
\* the fetched ones have names of their own, none of them the page's or the manifest's.
Names(page) == UsedNames(page) \cup UNION {NamesFor(url) : url \in Urls(page)}
Got(page) ==
  [used : {S \in SUBSET Names(page) : IsFiniteSet(S)},
   fetched : Seq([url : Urls(page), name : Names(page)]),
   skipped : SUBSET Urls(page), failed : SUBSET Urls(page)]
Sorted(page, got, seen) ==
  /\ UsedNames(page) \subseteq got.used
  /\ \A i \in DOMAIN got.fetched :
       /\ got.fetched[i].name \in got.used \ UsedNames(page)
       /\ \A j \in DOMAIN got.fetched : got.fetched[j].name = got.fetched[i].name => j = i
  /\ {got.fetched[i].url : i \in DOMAIN got.fetched} \cup got.skipped \cup got.failed = seen

\* One asset more.
LEMMA FetchAssetFacts ==
  ASSUME NEW page \in WebPages, NEW got \in Got(page), NEW url \in Urls(page),
         NEW allowlist, NEW failing
  PROVE  /\ FetchAsset(got, url, allowlist, failing) \in Got(page)
         /\ \A seen : Sorted(page, got, seen)
                        => Sorted(page, FetchAsset(got, url, allowlist, failing), seen \cup {url})
<1> DEFINE name == AssetFilename(url, got.used)
           item == [url |-> url, name |-> name]
           next == FetchAsset(got, url, allowlist, failing)
<1>1. /\ got.used \in SUBSET Names(page) /\ IsFiniteSet(got.used)
      /\ got.fetched \in Seq([url : Urls(page), name : Names(page)])
      /\ got.skipped \in SUBSET Urls(page) /\ got.failed \in SUBSET Urls(page)
  BY DEF Got
<1>2. name \notin got.used /\ name \in Names(page)
  <2>1. NamedUrl(url)
    BY AssetsFacts
  <2> QED BY <1>1, <2>1, AssetNameFacts DEF Names
<1>3. CASE DomainAllowed(allowlist, url.host) /\ url \notin failing
  <2>1. next = [got EXCEPT !.used = @ \cup {name}, !.fetched = Append(@, item)]
    BY <1>3 DEF FetchAsset
  <2>2. IsFiniteSet(got.used \cup {name})
    BY <1>1, FS_AddElement
  <2>3. item \in [url : Urls(page), name : Names(page)] /\ item.url = url /\ item.name = name
    BY <1>2
  <2> HIDE DEF item, name
  <2>4. Append(got.fetched, item) \in Seq([url : Urls(page), name : Names(page)])
    BY <1>1, <2>3, AppendProperties
  <2>5. /\ next.used = got.used \cup {name} /\ next.fetched = Append(got.fetched, item)
        /\ next.skipped = got.skipped /\ next.failed = got.failed
    BY <2>1 DEF Got
  <2>6. next \in Got(page)
    BY <1>1, <1>2, <2>1, <2>2, <2>4 DEF Got
  <2>7. /\ Len(got.fetched) \in Nat /\ DOMAIN got.fetched = 1 .. Len(got.fetched)
        /\ DOMAIN next.fetched = 1 .. Len(got.fetched) + 1
        /\ next.fetched[Len(got.fetched) + 1] = item
        /\ \A i \in 1 .. Len(got.fetched) : next.fetched[i] = got.fetched[i]
    BY <1>1, <2>3, <2>5, AppendProperties, LenProperties
  <2>8. DOMAIN next.fetched = DOMAIN got.fetched \cup {Len(got.fetched) + 1}
    BY <2>7
  <2> DEFINE k == Len(got.fetched) + 1
             D == DOMAIN got.fetched
  <2>9. /\ DOMAIN next.fetched = D \cup {k} /\ k \notin D /\ next.fetched[k] = item
        /\ \A i \in D : next.fetched[i] = got.fetched[i]
    BY <2>7, <2>8
  <2> HIDE DEF next, k, D
  <2>10. ASSUME NEW seen, Sorted(page, got, seen)
         PROVE  Sorted(page, next, seen \cup {url})
    <3>1. /\ UsedNames(page) \subseteq got.used
          /\ \A i \in D : /\ got.fetched[i].name \in got.used \ UsedNames(page)
                          /\ \A j \in D : got.fetched[j].name = got.fetched[i].name => j = i
          /\ {got.fetched[i].url : i \in D} \cup got.skipped \cup got.failed = seen
      BY <2>10 DEF Sorted, D
    <3>2. \A i \in D \cup {k} :
            /\ next.fetched[i].name \in next.used \ UsedNames(page)
            /\ \A j \in D \cup {k} : next.fetched[j].name = next.fetched[i].name => j = i
      BY <1>2, <2>3, <2>5, <2>9, <3>1
    <3>3. {next.fetched[i].url : i \in D \cup {k}} = {got.fetched[i].url : i \in D} \cup {url}
      BY <2>3, <2>9
    <3> QED BY <2>5, <2>9, <3>1, <3>2, <3>3 DEF Sorted
  <2> QED BY <2>6, <2>10 DEF next
<1>4. CASE ~DomainAllowed(allowlist, url.host) \/ url \in failing
  <2>1. \E s \in SUBSET Urls(page), f \in SUBSET Urls(page) :
          /\ next = [used |-> got.used, fetched |-> got.fetched, skipped |-> s, failed |-> f]
          /\ s \cup f = got.skipped \cup got.failed \cup {url}
    <3>1. got = [used |-> got.used, fetched |-> got.fetched,
                 skipped |-> got.skipped, failed |-> got.failed]
      BY DEF Got
    <3>2. CASE ~DomainAllowed(allowlist, url.host)
      <4>1. next = [got EXCEPT !.skipped = @ \cup {url}]
        BY <3>2 DEF FetchAsset
      <4>2. next = [used |-> got.used, fetched |-> got.fetched,
                    skipped |-> got.skipped \cup {url}, failed |-> got.failed]
        BY <3>1, <4>1
      <4>3. /\ got.skipped \cup {url} \in SUBSET Urls(page)
            /\ (got.skipped \cup {url}) \cup got.failed = got.skipped \cup got.failed \cup {url}
        BY <1>1
      <4> DEFINE skipped == got.skipped \cup {url}
      <4> HIDE DEF next, skipped
      <4> QED BY <1>1, <4>2, <4>3 DEF skipped
    <3>3. CASE DomainAllowed(allowlist, url.host) /\ url \in failing
      <4>1. next = [got EXCEPT !.failed = @ \cup {url}]
        BY <3>3 DEF FetchAsset
      <4>2. next = [used |-> got.used, fetched |-> got.fetched,
                    skipped |-> got.skipped, failed |-> got.failed \cup {url}]
        BY <3>1, <4>1
      <4>3. /\ got.failed \cup {url} \in SUBSET Urls(page)
            /\ got.skipped \cup (got.failed \cup {url}) = got.skipped \cup got.failed \cup {url}
        BY <1>1
      <4> DEFINE failed == got.failed \cup {url}
      <4> HIDE DEF next, failed
      <4> QED BY <1>1, <4>2, <4>3 DEF failed
    <3> QED BY <1>4, <3>2, <3>3
  <2>2. PICK s \in SUBSET Urls(page), f \in SUBSET Urls(page) :
          /\ next = [used |-> got.used, fetched |-> got.fetched, skipped |-> s, failed |-> f]
          /\ s \cup f = got.skipped \cup got.failed \cup {url}
    BY <2>1
  <2> HIDE DEF next
  <2>3. /\ next.used = got.used /\ next.fetched = got.fetched
        /\ next.skipped = s /\ next.failed = f /\ next \in Got(page)
    BY <1>1, <2>2 DEF Got
  <2>4. ASSUME NEW seen, Sorted(page, got, seen)
        PROVE  Sorted(page, next, seen \cup {url})
    BY <2>2, <2>3, <2>4 DEF Sorted
  <2> QED BY <2>3, <2>4 DEF next
<1> QED BY <1>3, <1>4

\* All of them.
LEMMA AssetsOfFacts ==
  ASSUME NEW page \in WebPages, NEW allowlist, NEW failing
  PROVE  /\ AssetsOf(page, allowlist, failing) \in Got(page)
         /\ Sorted(page, AssetsOf(page, allowlist, failing), Wanted(page))
<1> DEFINE urls == Assets(page)
           N == Len(urls)
           X == Got(page)
           start == NoAssets(page)
           step == [n \in 1 .. N |-> [x \in X |-> FetchAsset(x, urls[n], allowlist, failing)]]
           Is(f) == f = [n \in 0 .. N |-> IF n = 0 THEN start
                                          ELSE FetchAsset(f[n - 1], urls[n], allowlist, failing)]
           got == CHOOSE f : Is(f)
           seen(n) == {urls[i] : i \in 1 .. n}
<1>1. /\ urls \in Seq(Urls(page)) /\ Range(urls) = Wanted(page)
      /\ N \in Nat /\ DOMAIN urls = 1 .. N
      /\ \A n \in 1 .. N : urls[n] \in Urls(page)
  BY AssetsFacts, LenProperties
<1>2. start \in X /\ Sorted(page, start, {})
  <2>1. IsFiniteSet(UsedNames(page)) /\ UsedNames(page) \in SUBSET Names(page)
    <3>1. IsFiniteSet({PageName(page)} \cup {Manifest})
      BY FS_Singleton, FS_AddElement
    <3>2. UsedNames(page) = {PageName(page)} \cup {Manifest}
      BY DEF UsedNames
    <3> QED BY <3>1, <3>2 DEF Names
  <2>2. start \in X
    BY <2>1 DEF NoAssets, Got
  <2>3. /\ start.used = UsedNames(page) /\ DOMAIN start.fetched = {}
        /\ start.skipped = {} /\ start.failed = {}
    BY DEF NoAssets
  <2> HIDE DEF start
  <2> QED BY <2>2, <2>3 DEF Sorted
<1>3. \A n \in 1 .. N, x \in X :
        /\ FetchAsset(x, urls[n], allowlist, failing) \in X
        /\ \A s : Sorted(page, x, s)
                    => Sorted(page, FetchAsset(x, urls[n], allowlist, failing), s \cup {urls[n]})
  BY <1>1, FetchAssetFacts
<1>4. \A n \in 1 .. N, x \in X : step[n][x] = FetchAsset(x, urls[n], allowlist, failing)
  OBVIOUS
<1>5. AssetsOf(page, allowlist, failing) = got[N]
  BY DEF AssetsOf
<1> HIDE DEF X, step, N, start, urls
<1>6. PICK f : Rounds(X, start, step, N, f)
  <2>1. \A n \in 1 .. N, x \in X : step[n][x] \in X
    BY <1>3, <1>4
  <2> QED BY <1>1, <1>2, <2>1, RoundsExist
<1>7. Is(f)
  <2>1. f = [n \in 0 .. N |-> f[n]] /\ f[0] = start
    BY <1>6 DEF Rounds
  <2>2. \A n \in 0 .. N : n /= 0 => f[n] = FetchAsset(f[n - 1], urls[n], allowlist, failing)
    <3> SUFFICES ASSUME NEW n \in 0 .. N, n /= 0
                 PROVE  f[n] = FetchAsset(f[n - 1], urls[n], allowlist, failing)
      OBVIOUS
    <3>1. n \in 1 .. N /\ n - 1 \in 0 .. N
      BY <1>1
    <3>2. f[n - 1] \in X /\ f[n] = step[n][f[n - 1]]
      BY <1>6, <3>1 DEF Rounds
    <3> QED BY <1>4, <3>1, <3>2
  <2> QED BY <2>1, <2>2
<1>8. Is(got)
  BY <1>7
<1> HIDE DEF got
<1>9. /\ got[0] = start
      /\ \A n \in 1 .. N : got[n] = FetchAsset(got[n - 1], urls[n], allowlist, failing)
  BY <1>1, <1>8
<1> DEFINE good == {n \in 0 .. N : got[n] \in X /\ Sorted(page, got[n], seen(n))}
<1>10. 0 \in good
  <2>1. seen(0) = {}
    OBVIOUS
  <2> HIDE DEF seen
  <2>2. got[0] \in X /\ Sorted(page, got[0], seen(0))
    BY <1>2, <1>9, <2>1, Zenon
  <2>3. 0 \in 0 .. N
    BY <1>1
  <2> QED BY <2>2, <2>3, Zenon
<1>11. ASSUME NEW n \in 1 .. N, n - 1 \in good PROVE n \in good
  <2>1. seen(n) = seen(n - 1) \cup {urls[n]}
    <3>1. 1 .. n = (1 .. n - 1) \cup {n}
      BY <1>1
    <3> QED BY <3>1
  <2>2. got[n - 1] \in X /\ Sorted(page, got[n - 1], seen(n - 1))
    BY <1>11
  <2> HIDE DEF seen
  <2> QED BY <1>1, <1>3, <1>9, <2>1, <2>2
<1>12. seen(N) = Wanted(page)
  BY <1>1 DEF Range
<1>13. N \in good
  <2> HIDE DEF good
  <2> QED BY <1>1, <1>10, <1>11, RoundsReach
<1> HIDE DEF seen
<1> QED BY <1>5, <1>12, <1>13 DEF X

\* A path with a name more, and that name.
LEMMA AppendNames ==
  ASSUME NEW p, Path(p), NEW x, NEW y
  PROVE  /\ Append(p, x) = Append(p, y) => x = y
         /\ Len(Append(p, x)) = Len(p) + 1 /\ Append(p, x)[Len(p) + 1] = x
         /\ \A i \in 1 .. Len(p) : Append(p, x)[i] = p[i]
<1>1. p \in Seq(Range(p) \cup {x, y}) /\ Len(p) \in Nat
  BY SeqMonotonic, PathShape DEF Path
<1> QED BY <1>1, AppendProperties

\* A set of indices that is not empty has a greatest element.
LEMMA GreatestIndex ==
  ASSUME NEW N \in Nat, NEW S \in SUBSET (1 .. N), S /= {}
  PROVE  \E m \in S : \A n \in S : n <= m
<1> DEFINE D == {N - m : m \in S}
<1>1. D \in SUBSET Nat /\ D /= {}
  <2>1. \A m \in S : m \in 1 .. N
    OBVIOUS
  <2>2. \A m \in S : N - m \in Nat
    BY <2>1
  <2>3. \E m \in S : N - m \in D
    OBVIOUS
  <2> QED BY <2>2, <2>3
<1>2. PICK d \in D : \A e \in D : d <= e
  <2> HIDE DEF D
  <2> QED BY <1>1, LeastNatural
<1>3. PICK m \in S : d = N - m
  BY <1>2
<1>4. ASSUME NEW n \in S PROVE n <= m
  <2>1. N - m <= N - n
    BY <1>2, <1>3
  <2>2. m \in 1 .. N /\ n \in 1 .. N
    OBVIOUS
  <2> QED BY <2>1, <2>2
<1> QED BY <1>4

\* Of the files of a bundle, those stay that no later one has the path of.
LEMMA WrittenFacts ==
  ASSUME NEW b, Path(b)
  PROVE  /\ \A n \in DOMAIN b :
              (\A m \in DOMAIN b : b[m][1] = b[n][1] => m <= n)
                => b[n][1] \in DOMAIN Written(b) /\ Written(b)[b[n][1]] = b[n][2]
         /\ \A key \in DOMAIN Written(b) :
              \E n \in DOMAIN b : b[n][1] = key /\ Written(b)[key] = b[n][2]
<1> DEFINE at(key) == {n \in DOMAIN b : b[n][1] = key}
           last(key) == CHOOSE n \in at(key) : \A m \in at(key) : m <= n
<1>1. Len(b) \in Nat /\ DOMAIN b = 1 .. Len(b)
  BY PathShape
<1>2. /\ DOMAIN Written(b) = {file[1] : file \in Range(b)}
      /\ \A key \in DOMAIN Written(b) : Written(b)[key] = b[last(key)][2]
  BY DEF Written
<1>3. \A key \in DOMAIN Written(b) : \E n \in DOMAIN b : b[n][1] = key
  BY <1>2 DEF Range
<1>4. \A n \in DOMAIN b : b[n][1] \in DOMAIN Written(b)
  BY <1>2 DEF Range
<1> HIDE DEF Written
<1>5. ASSUME NEW n \in DOMAIN b, \A m \in DOMAIN b : b[m][1] = b[n][1] => m <= n
      PROVE  last(b[n][1]) = n
  <2>1. n \in at(b[n][1]) /\ \A m \in at(b[n][1]) : m <= n
    BY <1>5
  <2>2. last(b[n][1]) \in at(b[n][1]) /\ n <= last(b[n][1])
    BY <2>1
  <2> QED BY <1>1, <2>1, <2>2
<1>6. ASSUME NEW key \in DOMAIN Written(b) PROVE last(key) \in at(key)
  <2>1. at(key) \in SUBSET (1 .. Len(b)) /\ at(key) /= {}
    BY <1>1, <1>3
  <2>2. \E n \in at(key) : \A m \in at(key) : m <= n
    <3> HIDE DEF at
    <3> QED BY <1>1, <2>1, GreatestIndex
  <2> QED BY <2>2
<1> HIDE DEF last
<1>7. ASSUME NEW n \in DOMAIN b, \A m \in DOMAIN b : b[m][1] = b[n][1] => m <= n
      PROVE  b[n][1] \in DOMAIN Written(b) /\ Written(b)[b[n][1]] = b[n][2]
  BY <1>2, <1>4, <1>5, <1>7
<1>8. ASSUME NEW key \in DOMAIN Written(b)
      PROVE  \E n \in DOMAIN b : b[n][1] = key /\ Written(b)[key] = b[n][2]
  <2>1. last(key) \in DOMAIN b /\ b[last(key)][1] = key
    BY <1>6
  <2> QED BY <1>2, <2>1
<1> QED BY <1>7, <1>8

\* The files of a bundle: the page, the assets that were fetched, the manifest.
Told(page, got, call) ==
  [kind |-> "manifest", source |-> page, call |-> call,
   saved_to |-> Append(BundleDir(page.url), PageName(page)),
   assets |-> {[url |-> got.fetched[n].url,
                saved_to |-> Append(BundleDir(page.url), got.fetched[n].name)]
                 : n \in DOMAIN got.fetched},
   skipped |-> got.skipped, failed |-> got.failed]
Fetched(page, got, call) ==
  [n \in DOMAIN got.fetched |->
     <<Append(BundleDir(page.url), got.fetched[n].name), Body(got.fetched[n].url, call)>>]
LEMMA BundleFiles ==
  ASSUME NEW page \in WebPages, NEW allowlist, NEW failing, NEW call,
         NEW got, got = AssetsOf(page, allowlist, failing),
         NEW b, b = Bundle(page, allowlist, failing, call)
  PROVE  /\ Path(BundleDir(page.url)) /\ Path(b)
         /\ Len(got.fetched) \in Nat /\ DOMAIN got.fetched = 1 .. Len(got.fetched)
         /\ DOMAIN b = 1 .. Len(got.fetched) + 2
         /\ b[1] = <<Append(BundleDir(page.url), PageName(page)), Body(page.url, call)>>
         /\ \A n \in 1 .. Len(got.fetched) : b[n + 1] = Fetched(page, got, call)[n]
         /\ b[Len(got.fetched) + 2] =
              <<Append(BundleDir(page.url), Manifest), Told(page, got, call)>>
<1> DEFINE dir == BundleDir(page.url)
           k == Len(got.fetched)
           saved == Fetched(page, got, call)
           first == <<Append(dir, PageName(page)), Body(page.url, call)>>
           last == <<Append(dir, Manifest), Told(page, got, call)>>
           S == {first, last} \cup Range(saved)
<1>1. Path(dir)
  <2> DEFINE T == {Downloads, Plain(page.url.host, ""), Slug(page.url.name)}
             start == <<Downloads, Plain(page.url.host, "")>>
             end == IF page.url.name = NoName THEN <<>> ELSE <<Slug(page.url.name)>>
  <2>1. start \in Seq(T) /\ end \in Seq(T)
    <3>1. \A x, y, z : /\ <<x, y>> \in Seq({x, y, z}) /\ <<z>> \in Seq({x, y, z})
                       /\ <<>> \in Seq({x, y, z})
      OBVIOUS
    <3> QED BY <3>1, Zenon
  <2>2. dir = start \o end
    BY DEF BundleDir
  <2> HIDE DEF T, start, end, dir
  <2>3. start \o end \in Seq(T)
    BY <2>1, ConcatProperties
  <2> QED BY <2>2, <2>3, SequenceIsPath
<1>2. k \in Nat /\ DOMAIN got.fetched = 1 .. k
  <2>1. got \in Got(page)
    BY AssetsOfFacts
  <2>2. got.fetched \in Seq([url : Urls(page), name : Names(page)])
    BY <2>1 DEF Got
  <2> QED BY <2>2, LenProperties
<1>3. b = (<<first>> \o saved) \o <<last>>
  BY DEF Bundle, Fetched, Told
<1>4. DOMAIN saved = 1 .. k /\ saved = [n \in 1 .. k |-> saved[n]]
  BY <1>2 DEF Fetched
<1> HIDE DEF dir, k, saved, first, last
<1>5. saved \in Seq(S) /\ Len(saved) = k
  <2>1. \A n \in 1 .. k : saved[n] \in S
    BY <1>4 DEF Range
  <2> HIDE DEF S
  <2>2. saved \in [1 .. k -> S]
    BY <1>4, <2>1
  <2>3. \A n, s : n \in Nat /\ s \in [1 .. n -> S] => s \in Seq(S) /\ Len(s) = n
    OBVIOUS
  <2> QED BY <1>2, <2>2, <2>3
<1>6. <<first>> \in Seq(S) /\ <<last>> \in Seq(S)
  OBVIOUS
<1> HIDE DEF S
<1> DEFINE head == <<first>> \o saved
<1>7. /\ head \in Seq(S) /\ Len(head) = k + 1 /\ head[1] = first
      /\ \A n \in 1 .. k : head[n + 1] = saved[n]
  <2>1. Len(<<first>>) = 1 /\ <<first>>[1] = first
    OBVIOUS
  <2> DEFINE one == <<first>>
  <2> HIDE DEF one
  <2>2. /\ one \o saved \in Seq(S) /\ Len(one \o saved) = Len(one) + Len(saved)
        /\ \A i \in 1 .. Len(one) + Len(saved) :
             (one \o saved)[i] = IF i <= Len(one) THEN one[i] ELSE saved[i - Len(one)]
    BY <1>5, <1>6, ConcatProperties DEF one
  <2>3. Len(one) = 1 /\ one[1] = first /\ head = one \o saved
    BY <2>1 DEF one
  <2> HIDE DEF head
  <2>4. \A n \in 1 .. k : n + 1 \in 1 .. 1 + k /\ ~(n + 1 <= 1) /\ (n + 1) - 1 = n
    BY <1>2
  <2>5. 1 \in 1 .. 1 + k /\ 1 + k = k + 1
    BY <1>2
  <2> QED BY <1>5, <2>2, <2>3, <2>4, <2>5
<1> HIDE DEF head
<1>8. /\ b \in Seq(S) /\ Len(b) = k + 2 /\ b[k + 2] = last
      /\ \A n \in 1 .. k + 1 : b[n] = head[n]
  <2>1. Len(<<last>>) = 1 /\ <<last>>[1] = last
    OBVIOUS
  <2> DEFINE one == <<last>>
  <2> HIDE DEF one
  <2>2. /\ head \o one \in Seq(S) /\ Len(head \o one) = Len(head) + Len(one)
        /\ \A i \in 1 .. Len(head) + Len(one) :
             (head \o one)[i] = IF i <= Len(head) THEN head[i] ELSE one[i - Len(head)]
    BY <1>6, <1>7, ConcatProperties DEF one
  <2>3. Len(one) = 1 /\ one[1] = last /\ b = head \o one
    BY <1>3, <2>1 DEF one, head
  <2>4. \A n \in 1 .. k + 1 : n \in 1 .. (k + 1) + 1 /\ n <= k + 1
    BY <1>2
  <2>5. k + 2 \in 1 .. (k + 1) + 1 /\ ~(k + 2 <= k + 1) /\ (k + 2) - (k + 1) = 1
        /\ (k + 1) + 1 = k + 2
    BY <1>2
  <2> QED BY <1>7, <2>2, <2>3, <2>4, <2>5
<1>9. DOMAIN b = 1 .. k + 2 /\ Path(b)
  BY <1>8, SequenceIsPath, LenProperties
<1>10. b[1] = first /\ \A n \in 1 .. k : b[n + 1] = saved[n]
  <2>1. 1 \in 1 .. k + 1 /\ \A n \in 1 .. k : n + 1 \in 1 .. k + 1
    BY <1>2
  <2> QED BY <1>7, <1>8, <2>1
<1> QED BY <1>1, <1>2, <1>8, <1>9, <1>10 DEF dir, k, saved, first, last

\* Fetched files are all in the bundle's directory; none but the manifest is one, and
\* whatever else the checkpoint holds, it tells the truth.
LEMMA BundleFacts ==
  ASSUME NEW page \in WebPages, NEW allowlist, NEW failing, NEW call, NEW base,
         NEW got, got = AssetsOf(page, allowlist, failing),
         NEW files, files = Written(Bundle(page, allowlist, failing, call)),
         NEW place, place = Append(BundleDir(page.url), Manifest)
  PROVE  /\ Path(BundleDir(page.url))
         /\ \A key \in DOMAIN files : Path(key) /\ \E name : key = Append(BundleDir(page.url), name)
         /\ place \in DOMAIN files /\ files[place] = Told(page, got, call)
         /\ \A key \in DOMAIN files : key /= place => files[key].kind = "body"
         /\ TellsTrue(Merge(base, files), place)
<1> DEFINE dir == BundleDir(page.url)
           k == Len(got.fetched)
           b == Bundle(page, allowlist, failing, call)
           told == Told(page, got, call)
           after == Merge(base, files)
           own == PageName(page)
           name(n) == got.fetched[n].name
           url(n) == got.fetched[n].url
           In(x) == Append(dir, x)
<1>1. /\ Path(dir) /\ Path(b) /\ k \in Nat /\ DOMAIN got.fetched = 1 .. k
      /\ DOMAIN b = 1 .. k + 2
      /\ b[1][1] = In(own) /\ b[1][2] = Body(page.url, call)
      /\ b[k + 2][1] = place /\ b[k + 2][2] = told
  BY BundleFiles
<1>2. ASSUME NEW n \in 1 .. k PROVE b[n + 1][1] = In(name(n)) /\ b[n + 1][2] = Body(url(n), call)
  <2>1. b[n + 1] = Fetched(page, got, call)[n]
    BY BundleFiles
  <2>2. Fetched(page, got, call)[n] = <<In(name(n)), Body(url(n), call)>>
    BY <1>1 DEF Fetched
  <2> HIDE DEF b
  <2> QED BY <2>1, <2>2
<1>3. /\ \A n \in 1 .. k : name(n) /= own /\ name(n) /= Manifest
      /\ \A m, n \in 1 .. k : name(m) = name(n) => m = n
      /\ {url(n) : n \in 1 .. k} \cup got.skipped \cup got.failed = Wanted(page)
  <2>1. Sorted(page, got, Wanted(page)) /\ DOMAIN got.fetched = 1 .. k
    BY <1>1, AssetsOfFacts
  <2> HIDE DEF k
  <2> QED BY <2>1 DEF Sorted, UsedNames
<1>4. files = Written(b) /\ place = In(Manifest)
  OBVIOUS
<1>5. \A x, y : In(x) = In(y) => x = y
  BY <1>1, AppendNames
<1>6. \A x : Path(In(x))
  BY <1>1, PathAppend
<1> HIDE DEF dir, k, b, In, name, url, own
<1>7. /\ \A n \in DOMAIN b : (\A m \in DOMAIN b : b[m][1] = b[n][1] => m <= n)
                               => b[n][1] \in DOMAIN files /\ files[b[n][1]] = b[n][2]
      /\ \A key \in DOMAIN files : \E n \in DOMAIN b : b[n][1] = key /\ files[key] = b[n][2]
  <2>1. Path(b)
    BY <1>1
  <2> QED BY <1>4, <2>1, WrittenFacts
<1>8. \A n \in DOMAIN b : n = 1 \/ n = k + 2 \/ \E i \in 1 .. k : n = i + 1
  <2> SUFFICES ASSUME NEW n \in DOMAIN b, n /= 1, n /= k + 2 PROVE \E i \in 1 .. k : n = i + 1
    OBVIOUS
  <2>1. n - 1 \in 1 .. k /\ n = (n - 1) + 1
    BY <1>1
  <2> QED BY <2>1
<1>9. place \in DOMAIN files /\ files[place] = told
  <2>1. k + 2 \in DOMAIN b /\ \A m \in DOMAIN b : m <= k + 2
    BY <1>1
  <2> HIDE DEF told
  <2> QED BY <1>1, <1>7, <2>1
<1>10. ASSUME own /= Manifest
       PROVE  In(own) \in DOMAIN files /\ files[In(own)] = Body(page.url, call)
  <2>1. 1 \in DOMAIN b
    BY <1>1
  <2>2. ASSUME NEW m \in DOMAIN b, b[m][1] = b[1][1] PROVE m <= 1
    <3>1. CASE m = k + 2
      BY <1>1, <1>4, <1>5, <1>10, <2>2, <3>1
    <3>2. ASSUME NEW i \in 1 .. k, m = i + 1 PROVE FALSE
      <4>1. In(name(i)) = In(own)
        BY <1>1, <1>2, <2>2, <3>2
      <4> QED BY <1>3, <1>5, <4>1
    <3> QED BY <1>8, <3>1, <3>2
  <2> QED BY <1>1, <1>7, <2>1, <2>2
<1>11. ASSUME NEW n \in 1 .. k
       PROVE  In(name(n)) \in DOMAIN files /\ files[In(name(n))] = Body(url(n), call)
  <2>1. n + 1 \in DOMAIN b /\ n \in Nat
    BY <1>1
  <2>2. ASSUME NEW m \in DOMAIN b, b[m][1] = b[n + 1][1] PROVE m <= n + 1
    <3>1. CASE m = 1
      BY <2>1, <3>1
    <3>2. CASE m = k + 2
      <4>1. In(name(n)) = In(Manifest)
        BY <1>1, <1>2, <1>4, <2>2, <3>2
      <4> QED BY <1>3, <1>5, <4>1
    <3>3. ASSUME NEW i \in 1 .. k, m = i + 1 PROVE m <= n + 1
      <4>1. In(name(i)) = In(name(n))
        BY <1>2, <2>2, <3>3
      <4>2. i = n
        BY <1>3, <1>5, <4>1
      <4> QED BY <2>1, <3>3, <4>2
    <3> QED BY <1>8, <3>1, <3>2, <3>3
  <2>3. b[n + 1][1] \in DOMAIN files /\ files[b[n + 1][1]] = b[n + 1][2]
    BY <1>7, <2>1, <2>2
  <2> QED BY <1>2, <2>3
<1>12. ASSUME NEW key \in DOMAIN files
       PROVE  /\ \E x : key = In(x)
              /\ key /= place => files[key].kind = "body"
  <2>1. PICK n \in DOMAIN b : b[n][1] = key /\ files[key] = b[n][2]
    BY <1>7
  <2>2. \A u : Body(u, call).kind = "body"
    BY DEF Body
  <2>3. CASE n = 1
    BY <1>1, <2>1, <2>2, <2>3
  <2>4. CASE n = k + 2
    BY <1>1, <1>4, <2>1, <2>4
  <2>5. ASSUME NEW i \in 1 .. k, n = i + 1
        PROVE  key = In(name(i)) /\ files[key] = Body(url(i), call)
    BY <1>2, <2>1, <2>5
  <2>6. CASE \E i \in 1 .. k : n = i + 1
    BY <2>2, <2>5, <2>6
  <2> QED BY <1>8, <2>3, <2>4, <2>6
<1>13. \A key \in DOMAIN files : Content(after, key) = files[key]
  BY DEF Merge, Content
<1>14. TellsTrue(after, place)
  <2>1. /\ told.saved_to = In(own) /\ told.source = page /\ told.call = call
        /\ told.assets = {[url |-> url(n), saved_to |-> In(name(n))] : n \in 1 .. k}
        /\ told.skipped = got.skipped /\ told.failed = got.failed
    BY <1>1 DEF Told, dir, In, own, name, url
  <2>2. after[place] = told
    BY <1>9 DEF Merge
  <2> HIDE DEF after, told
  <2>3. told.saved_to /= place => Content(after, told.saved_to) = Body(page.url, call)
    BY <1>4, <1>10, <1>13, <2>1
  <2>4. ASSUME NEW asset \in told.assets PROVE Content(after, asset.saved_to) = Body(asset.url, call)
    <3>1. PICK n \in 1 .. k : asset = [url |-> url(n), saved_to |-> In(name(n))]
      BY <2>1, <2>4
    <3>2. asset.url = url(n) /\ asset.saved_to = In(name(n))
      BY <3>1
    <3> QED BY <1>11, <1>13, <3>2
  <2>5. {asset.url : asset \in told.assets} = {url(n) : n \in 1 .. k}
    <3>1. \A n \in 1 .. k : [url |-> url(n), saved_to |-> In(name(n))].url = url(n)
      OBVIOUS
    <3>2. ASSUME NEW n \in 1 .. k PROVE url(n) \in {asset.url : asset \in told.assets}
      <4> DEFINE asset == [url |-> url(n), saved_to |-> In(name(n))]
      <4>1. asset \in told.assets /\ asset.url = url(n)
        BY <2>1
      <4> HIDE DEF asset
      <4> QED BY <4>1
    <3> QED BY <2>1, <3>1, <3>2
  <2> QED BY <1>3, <2>1, <2>2, <2>3, <2>4, <2>5 DEF TellsTrue, Wanted
<1> QED BY <1>1, <1>6, <1>9, <1>12, <1>14 DEF dir, In

-----------------------------------------------------------------------------
(***************************************************************************)
(* What a command may do at a path.                                        *)
(***************************************************************************)
Owned(home, path) == IsPrefix(home, path) \/ IsPrefix(ScratchDir, path)
Listed(existing, extra, path) == \E p \in ReadOnlyPaths(existing, extra) : IsPrefix(p, path)

\* Behind the last of the layers that is over a path.
LEMMA AccessFacts ==
  ASSUME NEW platform \in {"linux", "macos"}, NEW existing, NEW extra, NEW home, NEW path
  PROVE  Access(Layers(platform, existing, extra, home), path) =
           IF platform = "linux" /\ IsPrefix(Tmp, path) THEN "private"
           ELSE IF Owned(home, path) \/ IsPrefix(Tmp, path) THEN "write"
           ELSE IF Listed(existing, extra, path) THEN "read" ELSE "none"
<1> DEFINE layers == Layers(platform, existing, extra, home)
           over == {i \in DOMAIN layers : \E p \in layers[i].paths : IsPrefix(p, path)}
           top == CHOOSE i \in over : \A j \in over : j <= i
           inTmp == IsPrefix(Tmp, path)
           own == Owned(home, path)
           seen == Listed(existing, extra, path)
<1>1. Access(layers, path) = IF over = {} THEN "none" ELSE layers[top].access
  BY DEF Access
<1>2. CASE platform = "linux"
  <2>1. /\ DOMAIN layers = 1 .. 3
        /\ layers[1].access = "read" /\ layers[2].access = "write" /\ layers[3].access = "private"
        /\ layers[1].paths = ReadOnlyPaths(existing, extra)
        /\ layers[2].paths = {home, ScratchDir} /\ layers[3].paths = {Tmp}
    BY <1>2 DEF Layers, BwrapCommand
  <2> HIDE DEF layers
  <2>2. /\ 1 \in over <=> seen
        /\ 2 \in over <=> own
        /\ 3 \in over <=> inTmp
        /\ over \subseteq {1, 2, 3}
    BY <2>1 DEF Owned, Listed
  <2> HIDE DEF over, inTmp, own, seen
  <2>3. \A n \in over : (\A j \in over : j <= n) => top = n
    <3> SUFFICES ASSUME NEW n \in over, \A j \in over : j <= n PROVE top = n
      OBVIOUS
    <3>1. top \in over /\ \A j \in over : j <= top
      OBVIOUS
    <3>2. top <= n /\ n <= top
      BY <3>1
    <3> HIDE DEF top
    <3> QED BY <2>2, <3>1, <3>2
  <2> HIDE DEF top
  <2>4. CASE inTmp
    <3>1. top = 3
      BY <2>2, <2>3, <2>4
    <3> QED BY <1>1, <1>2, <2>1, <2>2, <2>4, <3>1 DEF layers, inTmp
  <2>5. CASE ~inTmp /\ own
    <3>1. top = 2
      BY <2>2, <2>3, <2>5
    <3> QED BY <1>1, <1>2, <2>1, <2>2, <2>5, <3>1 DEF layers, inTmp, own
  <2>6. CASE ~inTmp /\ ~own /\ seen
    <3>1. top = 1
      BY <2>2, <2>3, <2>6
    <3> QED BY <1>1, <1>2, <2>1, <2>2, <2>6, <3>1 DEF layers, inTmp, own, seen
  <2>7. CASE ~inTmp /\ ~own /\ ~seen
    <3>1. over = {}
      BY <2>2, <2>7
    <3> QED BY <1>1, <1>2, <2>7, <3>1 DEF layers, inTmp, own, seen
  <2> QED BY <2>4, <2>5, <2>6, <2>7
<1>3. CASE platform = "macos"
  <2>1. /\ DOMAIN layers = 1 .. 2
        /\ layers[1].access = "read" /\ layers[2].access = "write"
        /\ layers[1].paths = ReadOnlyPaths(existing, extra)
        /\ layers[2].paths = {home, ScratchDir, Tmp}
    BY <1>3 DEF Layers, SbplProfile
  <2> HIDE DEF layers
  <2>2. /\ 1 \in over <=> seen
        /\ 2 \in over <=> own \/ inTmp
        /\ over \subseteq {1, 2}
    BY <2>1 DEF Owned, Listed
  <2> HIDE DEF over, inTmp, own, seen
  <2>3. \A n \in over : (\A j \in over : j <= n) => top = n
    <3> SUFFICES ASSUME NEW n \in over, \A j \in over : j <= n PROVE top = n
      OBVIOUS
    <3>1. top \in over /\ \A j \in over : j <= top
      OBVIOUS
    <3>2. top <= n /\ n <= top
      BY <3>1
    <3> HIDE DEF top
    <3> QED BY <2>2, <3>1, <3>2
  <2> HIDE DEF top
  <2>4. CASE own \/ inTmp
    <3>1. top = 2
      BY <2>2, <2>3, <2>4
    <3> QED BY <1>1, <1>3, <2>1, <2>2, <2>4, <3>1 DEF layers, inTmp, own
  <2>5. CASE ~own /\ ~inTmp /\ seen
    <3>1. top = 1
      BY <2>2, <2>3, <2>5
    <3> QED BY <1>1, <1>3, <2>1, <2>2, <2>5, <3>1 DEF layers, inTmp, own, seen
  <2>6. CASE ~own /\ ~inTmp /\ ~seen
    <3>1. over = {}
      BY <2>2, <2>6
    <3> QED BY <1>1, <1>3, <2>6, <3>1 DEF layers, inTmp, own, seen
  <2> QED BY <2>4, <2>5, <2>6
<1> QED BY <1>2, <1>3

-----------------------------------------------------------------------------
(***************************************************************************)
(* Checkpoints and the host.                                               *)
(***************************************************************************)

\* What mount_allowlist lets in, it lets in with all that is below; what a command
\* links to likewise.
LEMMA OpenBelow ==
  ASSUME SettingsInv, DiskInv, NEW p, Path(p), NEW q, Path(q), OpenTo(p), IsPrefix(p, q)
  PROVE  OpenTo(q)
<1>1. \A prefix \in UNION admitted : Path(prefix)
  BY BorderAssumption DEF SettingsInv
<1>2. \A to \in strayed : Path(to)
  BY DEF DiskInv
<1>3. ASSUME NEW prefix, prefix \in UNION admitted \/ prefix \in strayed, IsPrefix(prefix, p)
      PROVE  IsPrefix(prefix, q)
  <2>1. Path(prefix)
    BY <1>1, <1>2, <1>3
  <2> QED BY <1>3, <2>1, PrefixTransitive
<1> QED BY <1>3 DEF OpenTo, Opened

\* What check_mount_path lets in, without "..".
LEMMA CheckAdmits ==
  ASSUME SettingsInv, NEW p, CheckMountPath(config.mounts, p)
  PROVE  OpenTo(p) /\ Up \notin Range(p)
  BY DEF SettingsInv, CheckMountPath, OpenTo, Opened

\* Files over files.
LEMMA MergeKeyed ==
  ASSUME NEW base, Keyed(base), NEW top, Keyed(top)
  PROVE  Keyed(Merge(base, top))
  BY DEF Keyed, Merge

\* A checkpoint more, in the place of all that come after the present one.
LEMMA PushKeepsLine ==
  ASSUME LineInv, NEW files, Keyed(files), Push(files)
  PROVE  LineInv'
<1> DEFINE kept == SubSeq(line, 1, now)
<1>1. /\ Len(line) \in Nat /\ DOMAIN line = 1 .. Len(line) /\ now \in 1 .. Len(line)
      /\ line \in Seq(Range(line))
  BY PathShape DEF LineInv
<1>2. /\ kept \in Seq(Range(line)) /\ Len(kept) = now
      /\ \A i \in 1 .. now : kept[i] = line[i]
  BY <1>1
<1>3. line' = Append(kept, files) /\ now' = now + 1
  BY DEF Push
<1> HIDE DEF kept
<1>4. Path(kept)
  BY <1>2, SequenceIsPath
<1>5. /\ Path(line') /\ DOMAIN line' = 1 .. now + 1
      /\ \A i \in 1 .. now : line'[i] = kept[i]
      /\ line'[now + 1] = files
  <2>1. Path(Append(kept, files))
    BY <1>4, PathAppend
  <2>2. /\ Len(Append(kept, files)) = now + 1 /\ Append(kept, files)[now + 1] = files
        /\ \A i \in 1 .. now : Append(kept, files)[i] = kept[i]
    BY <1>2, <1>4, AppendNames
  <2> QED BY <1>3, <2>1, <2>2, PathShape
<1>6. \A i \in 1 .. now + 1 : i \in 1 .. now \/ i = now + 1
  BY <1>1
<1>7. \A i \in 1 .. now + 1 : Keyed(line'[i])
  BY <1>1, <1>2, <1>5, <1>6 DEF LineInv
<1>8. now' \in DOMAIN line'
  BY <1>1, <1>3, <1>5
<1>9. \A i \in DOMAIN line' : Keyed(line'[i])
  BY <1>5, <1>7
<1>10. Path(line')
  BY <1>5
<1> QED BY <1>8, <1>9, <1>10 DEF LineInv, Path, Keyed

\* What is seen as changed at a path of the host.
Changed(before, after, p) ==
  Content(before, p) /= Content(after, p) \/ (p \in DOMAIN before /\ p \notin DOMAIN after)

\* Files put change the host only where they are.
LEMMA PutFacts ==
  ASSUME NEW at, Keyed(at), NEW files, Keyed(files)
  PROVE  /\ Keyed(Put(at, files)) /\ DOMAIN at \subseteq DOMAIN Put(at, files)
         /\ \A p : Changed(at, Put(at, files), p) => p \in DOMAIN files
<1> DEFINE made == UNION {StrictPrefixes(p) : p \in DOMAIN files}
           below == [p \in made |-> Dir]
<1>1. \A p \in made : Path(p)
  <2> SUFFICES ASSUME NEW q \in DOMAIN files, NEW p \in StrictPrefixes(q) PROVE Path(p)
    OBVIOUS
  <2>1. PICK n \in 0 .. Len(q) - 1 : p = SubSeq(q, 1, n)
    BY DEF StrictPrefixes
  <2>2. Path(q) /\ Len(q) \in Nat
    BY PathShape DEF Keyed
  <2> QED BY <2>1, <2>2, PathPiece
<1>2. Put(at, files) = Merge(Merge(below, at), files)
  BY DEF Put
<1>3. DOMAIN below = made /\ \A p \in made : below[p] = Dir
  <2> HIDE DEF made
  <2> QED OBVIOUS
<1>4. Keyed(below)
  BY <1>1, <1>3 DEF Keyed
<1> HIDE DEF made, below
<1>5. Keyed(Put(at, files))
  BY <1>2, <1>4, MergeKeyed
<1>6. /\ DOMAIN Put(at, files) = (made \cup DOMAIN at) \cup DOMAIN files
      /\ \A p \in (made \cup DOMAIN at) \ DOMAIN files :
           Put(at, files)[p] = IF p \in DOMAIN at THEN at[p] ELSE Dir
  BY <1>2, <1>3 DEF Merge
<1> HIDE DEF Put
<1>7. ASSUME NEW p, p \notin DOMAIN files PROVE ~Changed(at, Put(at, files), p)
  BY <1>6, <1>7 DEF Changed, Content
<1> QED BY <1>5, <1>6, <1>7

\* Through a link one only gets to where it leads.
LEMMA OnHostFacts ==
  ASSUME IInv, NEW at, Led(at), NEW key, Path(key), LinkOver(at, key) /= {}
  PROVE  Path(OnHost(at, key)) /\ OpenTo(OnHost(at, key))
<1> DEFINE l == CHOOSE l \in LinkOver(at, key) : TRUE
<1>1. l \in DOMAIN at /\ IsPrefix(l, key)
  BY DEF LinkOver
<1> HIDE DEF l
<1>2. Path(l) /\ Path(at[l]) /\ OpenTo(at[l])
  BY <1>1 DEF Led
<1>3. Path(KeyBelow(l, key))
  <2>1. Len(l) \in Nat /\ Len(key) \in Nat
    BY <1>2, PathShape
  <2>2. Len(l) + 1 \in Nat /\ Len(l) + 1 >= 1 /\ Len(key) \in Int /\ Len(key) <= Len(key)
    BY <2>1
  <2> QED BY <2>2, PathPiece DEF KeyBelow
<1>4. OnHost(at, key) = at[l] \o KeyBelow(l, key)
  BY DEF OnHost, l
<1>5. Path(OnHost(at, key)) /\ IsPrefix(at[l], OnHost(at, key))
  BY <1>2, <1>3, <1>4, PathConcat
<1> QED BY <1>2, <1>5, OpenBelow DEF IInv

\* The host as sync_to leaves it, when it has come as far as some removals and writes:
\* only what links lead to has changed, and that mount_allowlist or a command had let
\* in.
LEMMA HostAfterFacts ==
  ASSUME IInv, NEW removed \in SUBSET DOMAIN synced, NEW written \in SUBSET DOMAIN Files
  PROVE  /\ Keyed(HostAfter(removed, written)) /\ Led(LinksAfter(removed))
         /\ \A p : Changed(host, HostAfter(removed, written), p) => OpenTo(p)
<1> DEFINE at == LinksAfter(removed)
           unlinked == {OnHost(links, key) : key \in Beyond(removed)}
           put == [p \in {OnHost(at, key) : key \in Through(at, written)} |->
                     Files[CHOOSE key \in Through(at, written) : OnHost(at, key) = p]]
           left == HostWithout(removed)
           after == HostAfter(removed, written)
<1>1. /\ Keyed(host) /\ Keyed(synced) /\ Keyed(Files) /\ Led(links)
  BY DEF IInv, DiskInv, LineInv, Files
<1>2. Led(at)
  BY <1>1 DEF Led, LinksAfter, Without
<1>3. \A p \in unlinked : OpenTo(p)
  <2> SUFFICES ASSUME NEW key \in Beyond(removed) PROVE OpenTo(OnHost(links, key))
    OBVIOUS
  <2>1. Path(key) /\ LinkOver(links, key) /= {}
    BY <1>1 DEF Beyond, Through, Keyed
  <2> QED BY <1>1, <2>1, OnHostFacts
<1>4. DOMAIN put = {OnHost(at, key) : key \in Through(at, written)}
  OBVIOUS
<1>5. \A p \in DOMAIN put : Path(p) /\ OpenTo(p)
  <2> HIDE DEF put, at
  <2> SUFFICES ASSUME NEW key \in Through(at, written)
               PROVE  Path(OnHost(at, key)) /\ OpenTo(OnHost(at, key))
    BY <1>4
  <2>1. Path(key) /\ LinkOver(at, key) /= {}
    BY <1>1 DEF Through, Keyed
  <2> QED BY <1>2, <2>1, OnHostFacts
<1>6. after = Put(left, put)
  BY DEF HostAfter
<1>7. DOMAIN left = DOMAIN host \ unlinked /\ \A p \in DOMAIN left : left[p] = host[p]
  BY DEF HostWithout, Without
<1> HIDE DEF unlinked, put, after, left, at
<1>8. Keyed(put) /\ Keyed(left)
  BY <1>1, <1>5, <1>7 DEF Keyed
<1>9. /\ Keyed(after) /\ DOMAIN left \subseteq DOMAIN after
      /\ \A p : Changed(left, after, p) => p \in DOMAIN put
  BY <1>6, <1>8, PutFacts
<1>10. ASSUME NEW p, Changed(host, after, p), p \notin unlinked PROVE Changed(left, after, p)
  BY <1>7, <1>10 DEF Changed, Content
<1> QED BY <1>2, <1>3, <1>5, <1>9, <1>10 DEF after, at

-----------------------------------------------------------------------------
(***************************************************************************)
(* Every step keeps the invariant, and changes the host only in bounds.    *)
(***************************************************************************)
InBounds(p) ==
  \/ Admits(p) \/ Own(p) \/ Strayed(p)
  \/ Platform = "macos" /\ IsPrefix(Tmp, p)
Bounded == \A p : Changed(host, host', p) => InBounds(p)

\* A call counted.
LEMMA CountKeeps ==
  ASSUME FetchingInv, Count
  PROVE  calls' \in 1 .. MaxCalls
  BY BorderAssumption DEF FetchingInv, Count

\* Nothing but the session changes.
LEMMA SessionStep ==
  ASSUME IInv, LineInv', FetchingInv', UNCHANGED <<overlays, settings, host, disk>>
  PROVE  IInv' /\ Bounded
<1>1. UNCHANGED <<overlays, config, admitted, temp, host, links, dirs, synced, strayed>>
  BY DEF settings, disk
<1>2. SettingsInv'
  BY <1>1 DEF IInv, SettingsInv
<1>3. DiskInv'
  BY <1>1 DEF IInv, DiskInv, Keyed, Led, OpenTo, Path
<1>4. Bounded
  BY <1>1 DEF Bounded, Changed, Content
<1> QED BY <1>2, <1>3, <1>4 DEF IInv

\* What was open stays so.
LEMMA OpenStays ==
  ASSUME UNCHANGED admitted, strayed \subseteq strayed', NEW p, OpenTo(p)
  PROVE  OpenTo(p)'
  BY DEF OpenTo, Opened

\* A command, or less.
LEMMA CommandStep ==
  ASSUME IInv, LineInv', Keyed(host'), \A p : Changed(host, host', p) => InBounds(p),
         Keyed(synced'), Led(links)', calls' \in 1 .. MaxCalls,
         strayed \subseteq strayed', \A to \in strayed' : Path(to),
         UNCHANGED <<overlays, fetching, settings>>
  PROVE  IInv' /\ Bounded
<1>1. UNCHANGED <<overlays, config, admitted, temp, fetching>>
  BY DEF settings
<1>2. SettingsInv'
  BY <1>1 DEF IInv, SettingsInv
<1>3. FetchingInv'
  BY <1>1, BorderAssumption DEF IInv, FetchingInv
<1>4. \A p : OpenTo(p) => OpenTo(p)'
  BY <1>1, OpenStays
<1>5. Led(overlays)'
  BY <1>1, <1>4 DEF IInv, DiskInv, Led, Path
<1>6. Keyed(host)' /\ Keyed(synced)' /\ (\A to \in strayed : Path(to))'
  BY DEF Keyed, Path
<1>7. DiskInv'
  BY <1>5, <1>6 DEF DiskInv
<1>8. Bounded
  BY DEF Bounded
<1> QED BY <1>2, <1>3, <1>7, <1>8 DEF IInv

\* Nothing of the session, nor what commands have linked to.
LEMMA LinkStep ==
  ASSUME IInv, Keyed(host'), \A p : Changed(host, host', p) => OpenTo(p),
         Keyed(synced'), Led(links'), calls' \in 1 .. MaxCalls,
         UNCHANGED <<session, fetching, settings, strayed>>
  PROVE  IInv' /\ Bounded
<1>1. LineInv' /\ UNCHANGED <<overlays, admitted>>
  BY DEF session, settings, IInv, LineInv, Keyed, Path
<1>2. \A p : Changed(host, host', p) => InBounds(p)
  BY DEF InBounds, OpenTo, Opened, Admits, Strayed
<1>3. Led(links)'
  <2>1. \A p : OpenTo(p) => OpenTo(p)'
    BY <1>1, OpenStays
  <2> QED BY <2>1 DEF Led, Path
<1>4. strayed \subseteq strayed' /\ \A to \in strayed' : Path(to)
  BY DEF IInv, DiskInv
<1> QED BY <1>1, <1>2, <1>3, <1>4, CommandStep

\* Nothing but the host.
LEMMA HostStep ==
  ASSUME IInv, Keyed(host'), \A p : Changed(host, host', p) => OpenTo(p),
         calls' \in 1 .. MaxCalls, UNCHANGED <<session, fetching, settings, disk>>
  PROVE  IInv' /\ Bounded
<1>1. Keyed(synced') /\ Led(links') /\ UNCHANGED strayed
  BY DEF IInv, DiskInv, disk, Keyed, Led
<1> QED BY <1>1, LinkStep

\* Of a push.
LEMMA PushStep ==
  ASSUME IInv, NEW files, Keyed(files), Push(files), Count,
         UNCHANGED <<overlays, fetching, settings, host, disk>>
  PROVE  IInv' /\ Bounded
<1>1. LineInv'
  BY PushKeepsLine DEF IInv
<1>2. FetchingInv'
  BY CountKeeps, BorderAssumption DEF IInv, FetchingInv
<1> QED BY <1>1, <1>2, SessionStep

\* The present checkpoint's keys.
LEMMA PresentFiles ==
  ASSUME IInv
  PROVE  Keyed(Files)
  BY DEF IInv, LineInv, Files

\* A file over the present checkpoint's.
LEMMA OnlyKeyed ==
  ASSUME IInv, NEW key, Path(key), NEW content
  PROVE  Keyed(Merge(Files, Only(key, content)))
<1>1. Keyed(Only(key, content))
  BY DEF Keyed, Only
<1> QED BY <1>1, PresentFiles, MergeKeyed

\* The configuration edited: what was let in before stays known.
LEMMA EditConfigKeepsIInv ==
  ASSUME IInv, EditConfig
  PROVE  IInv' /\ Bounded
<1>1. /\ UNCHANGED <<line, now, overlays, fetching, temp, host, links, dirs, synced, strayed>>
      /\ admitted' = admitted \cup {config'.mounts}
      /\ config' \in [domains : Domains, mounts : Mounts]
      /\ calls' \in 1 .. MaxCalls
  BY CountKeeps DEF IInv, EditConfig, session, disk
<1>2. LineInv'
  BY <1>1 DEF IInv, LineInv, Keyed, Path
<1>3. FetchingInv'
  BY <1>1, BorderAssumption DEF IInv, FetchingInv
<1>4. SettingsInv'
  BY <1>1 DEF IInv, SettingsInv
<1>5. \A p : OpenTo(p) => OpenTo(p)'
  BY <1>1 DEF OpenTo, Opened
<1>6. DiskInv'
  BY <1>1, <1>5 DEF IInv, DiskInv, Keyed, Led, Path
<1>7. Bounded
  BY <1>1 DEF Bounded, Changed, Content
<1> QED BY <1>2, <1>3, <1>4, <1>6, <1>7 DEF IInv

\* Another checkpoint made the present one.
LEMMA RollbackKeepsIInv ==
  ASSUME IInv, Rollback
  PROVE  IInv' /\ Bounded
<1>1. LineInv'
  BY DEF Rollback, IInv, LineInv, Keyed, Path
<1>2. FetchingInv'
  BY CountKeeps, BorderAssumption DEF Rollback, IInv, FetchingInv
<1> QED BY <1>1, <1>2, SessionStep DEF Rollback

\* A file written by a caller.
LEMMA WriteFileKeepsIInv ==
  ASSUME IInv, WriteFile
  PROVE  IInv' /\ Bounded
<1>1. PICK key \in FileNames : Push(Merge(Files, Only(key, [kind |-> "written", call |-> calls'])))
  BY DEF WriteFile
<1>2. Path(key)
  BY BorderAssumption
<1>3. Keyed(Merge(Files, Only(key, [kind |-> "written", call |-> calls'])))
  BY <1>2, OnlyKeyed
<1> QED BY <1>1, <1>3, PushStep DEF WriteFile

\* A text saved, beside its file or elsewhere.
LEMMA ExtractTextKeepsIInv ==
  ASSUME IInv, ExtractText
  PROVE  IInv' /\ Bounded
<1>1. PICK path \in DOMAIN Files :
        \E save_to \in FileNames \cup (IF Last(path).more /= <<>> THEN {}
                                      ELSE {Append(Front(path), TextName(Last(path)))}) :
          Push(Merge(Files, Only(save_to, [kind |-> "text", of |-> path])))
  BY DEF ExtractText
<1>2. PICK save_to \in FileNames \cup {Append(Front(path), TextName(Last(path)))} :
        Push(Merge(Files, Only(save_to, [kind |-> "text", of |-> path])))
  BY <1>1
<1>3. Path(path)
  BY PresentFiles DEF Keyed
<1>4. Path(Front(path))
  <2>1. Len(path) \in Nat
    BY <1>3, PathShape
  <2>2. 1 \in Nat /\ 1 >= 1 /\ Len(path) - 1 \in Int /\ Len(path) - 1 <= Len(path)
    BY <2>1
  <2> QED BY <1>3, <2>2, PathPiece DEF Front
<1>5. Path(save_to)
  <2>1. Path(Append(Front(path), TextName(Last(path))))
    BY <1>4, PathAppend
  <2>2. \A key \in FileNames : Path(key)
    BY BorderAssumption
  <2> QED BY <1>2, <2>1, <2>2
<1>6. Keyed(Merge(Files, Only(save_to, [kind |-> "text", of |-> path])))
  BY <1>5, OnlyKeyed
<1> QED BY <1>2, <1>6, PushStep DEF ExtractText

\* What is installed lies in the manager's own directory.
LEMMA InstalledKeys ==
  ASSUME NEW pm \in PackageManager, NEW specs, NEW key \in DOMAIN Installed(pm, specs)
  PROVE  \E path : /\ Path(path) /\ key = InstallDir(pm) \o path
                   /\ path \in DOMAIN InstallArgv(pm, specs)
<1>1. PICK path \in DOMAIN InstallArgv(pm, specs) : key = InstallDir(pm) \o path
  BY DEF Installed
<1>2. Path(path)
  <2>1. \A x, y, z : <<x, y>> \in Seq({x, y}) /\ <<z>> \in Seq({z})
    OBVIOUS
  <2>2. \A x, y, z : Path(<<x, y>>) /\ Path(<<z>>)
    BY <2>1, SequenceIsPath
  <2>3. path \in {<<spec.package>> : spec \in specs}
                   \cup {<<NodeModules, spec.package>> : spec \in specs} \cup {<<PackageJson>>}
    BY <1>1 DEF InstallArgv
  <2> QED BY <2>2, <2>3
<1> QED BY <1>1, <1>2

\* That directory is a path.
LEMMA InstallDirPath ==
  ASSUME NEW pm
  PROVE  Path(InstallDir(pm))
<1>1. \A x, y : <<x, y>> \in Seq({x, y})
  OBVIOUS
<1> QED BY <1>1, SequenceIsPath DEF InstallDir

\* An install.
LEMMA InstallPackageKeepsIInv ==
  ASSUME IInv, InstallPackage
  PROVE  IInv' /\ Bounded
<1>1. PICK asked \in PackageRequests :
        /\ asked.manager \in PackageManager
        /\ \/ Push(Merge(Files, Installed(asked.manager, asked.specs)))
           \/ Push(Files)
  BY DEF InstallPackage, MayInstall
<1>2. Keyed(Installed(asked.manager, asked.specs))
  <2> SUFFICES ASSUME NEW key \in DOMAIN Installed(asked.manager, asked.specs) PROVE Path(key)
    BY DEF Keyed
  <2>1. PICK path : Path(path) /\ key = InstallDir(asked.manager) \o path
    BY <1>1, InstalledKeys
  <2>2. Path(InstallDir(asked.manager))
    BY InstallDirPath
  <2> HIDE DEF Path
  <2> QED BY <2>1, <2>2, PathConcat
<1>3. Keyed(Merge(Files, Installed(asked.manager, asked.specs))) /\ Keyed(Files)
  BY <1>2, PresentFiles, MergeKeyed
<1> QED BY <1>1, <1>3, PushStep DEF InstallPackage

\* A fetch begun: it has a page in hand.
LEMMA BeginFetchKeepsIInv ==
  ASSUME IInv, NEW f \in Fetchers, BeginFetch(f)
  PROVE  IInv' /\ Bounded
<1>1. /\ calls' \in 1 .. MaxCalls /\ config.domains \in Domains
      /\ UNCHANGED <<line, now, overlays, settings, host, disk>>
  BY CountKeeps DEF IInv, SettingsInv, BeginFetch, session
<1>2. PICK page \in WebPages :
        fetching' = [fetching EXCEPT ![f] =
                       [page |-> page, domains |-> config.domains, call |-> calls']]
  BY DEF BeginFetch
<1> DEFINE hand == [page |-> page, domains |-> config.domains, call |-> calls']
<1>3. hand \in Fetches
  BY <1>1 DEF Fetches
<1> HIDE DEF hand
<1>4. FetchingInv'
  <2>1. fetching' = [fetching EXCEPT ![f] = hand]
    BY <1>2 DEF hand
  <2>2. fetching' \in [Fetchers -> Fetches \cup {Idle}]
    BY <1>3, <2>1 DEF IInv, FetchingInv
  <2>3. calls' \in 0 .. MaxCalls
    BY <1>1, BorderAssumption
  <2> QED BY <2>2, <2>3 DEF FetchingInv, Fetches
<1>5. LineInv'
  BY <1>1 DEF IInv, LineInv, Keyed, Path
<1> QED BY <1>1, <1>4, <1>5, SessionStep

\* What a fetch has in hand.
LEMMA InHand ==
  ASSUME IInv, NEW f \in Fetchers, fetching[f] /= Idle
  PROVE  fetching[f].page \in WebPages
<1>1. fetching[f] \in Fetches
  BY DEF IInv, FetchingInv
<1> QED BY <1>1 DEF Fetches

\* The files of a bundle lie on paths.
LEMMA BundleKeyed ==
  ASSUME NEW page \in WebPages, NEW allowlist, NEW failing, NEW call
  PROVE  Keyed(Written(Bundle(page, allowlist, failing, call)))
<1> DEFINE got == AssetsOf(page, allowlist, failing)
           files == Written(Bundle(page, allowlist, failing, call))
           place == Append(BundleDir(page.url), Manifest)
           all == /\ Path(BundleDir(page.url))
                  /\ \A key \in DOMAIN files : Path(key) /\ \E name : key = Append(BundleDir(page.url), name)
                  /\ place \in DOMAIN files /\ files[place] = Told(page, got, call)
                  /\ \A key \in DOMAIN files : key /= place => files[key].kind = "body"
                  /\ TellsTrue(Merge(Files, files), place)
<1>1. all
  BY BundleFacts
<1> HIDE DEF got, files, place
<1>2. Keyed(files)
  BY <1>1 DEF Keyed
<1> QED BY <1>2 DEF files

\* Its end, with a checkpoint.
LEMMA FetchDoneKeepsIInv ==
  ASSUME IInv, NEW f \in Fetchers, FetchDone(f)
  PROVE  IInv' /\ Bounded
<1> DEFINE at == fetching[f]
<1>1. PICK failing \in SUBSET Range(Assets(at.page)) :
        Push(Merge(Files, Written(Bundle(at.page, at.domains, failing, at.call))))
  BY DEF FetchDone
<1>2. at.page \in WebPages
  BY InHand DEF FetchDone
<1> HIDE DEF at
<1>3. Keyed(Written(Bundle(at.page, at.domains, failing, at.call)))
  BY <1>2, BundleKeyed
<1>4. Keyed(Merge(Files, Written(Bundle(at.page, at.domains, failing, at.call))))
  BY <1>3, PresentFiles, MergeKeyed
<1>5. LineInv'
  BY <1>1, <1>4, PushKeepsLine DEF IInv
<1>6. FetchingInv'
  BY DEF IInv, FetchingInv, FetchDone, Fetches
<1> QED BY <1>5, <1>6, SessionStep DEF FetchDone

\* Its end without one.
LEMMA FetchFailsKeepsIInv ==
  ASSUME IInv, NEW f \in Fetchers, FetchFails(f)
  PROVE  IInv' /\ Bounded
<1>1. LineInv'
  BY DEF FetchFails, IInv, LineInv, Keyed, Path, session
<1>2. FetchingInv'
  BY DEF IInv, FetchingInv, FetchFails, Fetches
<1>3. UNCHANGED <<overlays, settings, host, disk>>
  BY DEF FetchFails, session
<1> QED BY <1>1, <1>2, <1>3, SessionStep

\* What lies below a path of the host: it, with a piece more.
LEMMA BelowFacts ==
  ASSUME Keyed(host), NEW path, Path(path), NEW p \in Below(path)
  PROVE  Path(KeyBelow(path, p)) /\ Path(p) /\ IsPrefix(path, p)
<1>1. Path(p) /\ IsPrefix(path, p)
  BY DEF Keyed, Below
<1>2. Len(path) \in Nat /\ Len(p) \in Nat
  BY <1>1, PathShape
<1>3. Len(path) + 1 \in Nat /\ Len(path) + 1 >= 1 /\ Len(p) \in Int /\ Len(p) <= Len(p)
  BY <1>2
<1> QED BY <1>1, <1>3, PathPiece DEF KeyBelow

\* A directory mounted: its overlays are below what mount_allowlist lets in.
LEMMA MountKeepsIInv ==
  ASSUME IInv, Mount
  PROVE  IInv' /\ Bounded
<1>1. PICK path \in HostPaths :
        /\ Resolve(path) \in DOMAIN host
        /\ CheckMountPath(config.mounts, Resolve(path))
        /\ Count
        /\ \/ Push(Merge(Files, MountedFiles(Resolve(path))))
           \/ UNCHANGED <<line, now>>
        /\ overlays' = Merge(overlays, MountedOverlays(Resolve(path)))
        /\ UNCHANGED <<fetching, settings, host, disk>>
  BY DEF Mount
<1> DEFINE abs == Resolve(path)
<1>2. Path(abs) /\ OpenTo(abs) /\ SettingsInv /\ DiskInv /\ Keyed(host) /\ Led(overlays)
  BY <1>1, BorderAssumption, ResolveFacts, CheckAdmits DEF IInv, DiskInv
<1> HIDE DEF abs
<1>3. Keyed(MountedFiles(abs))
  <2>1. CASE host[abs] = Dir
    <3>1. DOMAIN MountedFiles(abs) = {KeyBelow(abs, p) : p \in ScannedFiles(abs)}
      BY <2>1 DEF MountedFiles
    <3> QED BY <1>2, <3>1, BelowFacts DEF Keyed, ScannedFiles
  <2>2. CASE host[abs] /= Dir
    <3>1. DOMAIN MountedFiles(abs) = {<<Last(abs)>>}
      BY <2>2 DEF MountedFiles, Only
    <3>2. \A x : <<x>> \in Seq({x})
      OBVIOUS
    <3>3. \A x : Path(<<x>>)
      BY <3>2, SequenceIsPath
    <3> QED BY <3>1, <3>3 DEF Keyed
  <2> QED BY <2>1, <2>2
<1>4. Led(MountedOverlays(abs))
  <2> SUFFICES ASSUME NEW key \in DOMAIN MountedOverlays(abs)
               PROVE  /\ Path(key) /\ Path(MountedOverlays(abs)[key])
                      /\ OpenTo(MountedOverlays(abs)[key])
    BY DEF Led
  <2>1. Path(key) /\ MountedOverlays(abs)[key] = abs \o key
    BY <1>2, BelowFacts DEF MountedOverlays, ScannedOverlays
  <2>2. Path(abs \o key) /\ IsPrefix(abs, abs \o key)
    BY <1>2, <2>1, PathConcat
  <2> QED BY <1>2, <2>1, <2>2, OpenBelow
<1>5. LineInv'
  <2>1. CASE Push(Merge(Files, MountedFiles(abs)))
    BY <1>3, <2>1, PresentFiles, MergeKeyed, PushKeepsLine DEF IInv
  <2>2. CASE UNCHANGED <<line, now>>
    BY <2>2 DEF IInv, LineInv, Keyed, Path
  <2> QED BY <1>1, <2>1, <2>2 DEF abs
<1>6. FetchingInv'
  BY <1>1, CountKeeps, BorderAssumption DEF IInv, FetchingInv
<1>7. UNCHANGED <<config, admitted, temp, host, links, dirs, synced, strayed>>
  BY <1>1 DEF settings, disk
<1>8. SettingsInv'
  BY <1>2, <1>7 DEF SettingsInv
<1>9. DiskInv'
  <2>1. Led(Merge(overlays, MountedOverlays(abs)))
    BY <1>2, <1>4 DEF Led, Merge
  <2>2. overlays' = Merge(overlays, MountedOverlays(abs))
    BY <1>1 DEF abs
  <2>3. \A p : OpenTo(p) => OpenTo(p)'
    BY <1>7, OpenStays
  <2>4. Led(overlays')
    BY <2>1, <2>2
  <2>5. Led(overlays)'
    BY <2>3, <2>4 DEF Led, Path
  <2> QED BY <1>7, <2>3, <2>5 DEF IInv, DiskInv, Keyed, Led, Path
<1>10. Bounded
  BY <1>7 DEF Bounded, Changed, Content
<1> QED BY <1>5, <1>6, <1>8, <1>9, <1>10 DEF IInv

\* An export: only below a directory that mount_allowlist lets in.
LEMMA ExportKeepsIInv ==
  ASSUME IInv, Export
  PROVE  IInv' /\ Bounded
<1>1. PICK path \in HostPaths, keys \in SUBSET (FileNames \cap DOMAIN Files) :
        /\ CheckMountPath(config.mounts, path)
        /\ Count
        /\ host' = Put(host, [p \in {Resolve(path) \o key : key \in keys}
                                |-> Files[KeyBelow(Resolve(path), p)]])
        /\ UNCHANGED <<session, fetching, settings, disk>>
  BY DEF Export
<1> DEFINE files == [p \in {Resolve(path) \o key : key \in keys}
                       |-> Files[KeyBelow(Resolve(path), p)]]
<1>2. Path(path) /\ OpenTo(path) /\ Resolve(path) = path /\ SettingsInv /\ DiskInv /\ Keyed(host)
  BY <1>1, BorderAssumption, ResolveFacts, CheckAdmits DEF IInv, DiskInv
<1>3. \A p \in DOMAIN files : Path(p) /\ OpenTo(p)
  <2> SUFFICES ASSUME NEW key \in keys PROVE Path(path \o key) /\ OpenTo(path \o key)
    BY <1>2
  <2>1. Path(key)
    BY BorderAssumption
  <2>2. Path(path \o key) /\ IsPrefix(path, path \o key)
    BY <1>2, <2>1, PathConcat
  <2> QED BY <1>2, <2>2, OpenBelow
<1>4. host' = Put(host, files)
  BY <1>1
<1> HIDE DEF files
<1>5. Keyed(files)
  BY <1>3 DEF Keyed
<1>6. Keyed(Put(host, files)) /\ \A p : Changed(host, Put(host, files), p) => p \in DOMAIN files
  BY <1>2, <1>5, PutFacts
<1>7. Keyed(host') /\ \A p : Changed(host, host', p) => OpenTo(p)
  BY <1>3, <1>4, <1>6
<1>8. UNCHANGED <<session, fetching, settings, disk>> /\ calls' \in 1 .. MaxCalls
  BY <1>1, CountKeeps DEF IInv
<1> QED BY <1>7, <1>8, HostStep

\* A deletion: likewise.
LEMMA DeleteFromHostKeepsIInv ==
  ASSUME IInv, DeleteFromHost
  PROVE  IInv' /\ Bounded
<1>1. PICK path \in HostPaths :
        /\ CheckMountPath(config.mounts, path)
        /\ Count
        /\ host' = [p \in {q \in DOMAIN host : ~IsPrefix(Resolve(path), q)} |-> host[p]]
        /\ UNCHANGED <<session, fetching, settings, disk>>
  BY DEF DeleteFromHost
<1>2. Path(path) /\ OpenTo(path) /\ Resolve(path) = path /\ SettingsInv /\ DiskInv /\ Keyed(host)
  BY <1>1, BorderAssumption, ResolveFacts, CheckAdmits DEF IInv, DiskInv
<1>3. DOMAIN host' = {q \in DOMAIN host : ~IsPrefix(path, q)} /\ \A p \in DOMAIN host' : host'[p] = host[p]
  BY <1>1, <1>2
<1>4. \A p : Changed(host, host', p) => p \in DOMAIN host /\ IsPrefix(path, p)
  BY <1>3 DEF Changed, Content
<1>5. Keyed(host') /\ \A p : Changed(host, host', p) => OpenTo(p)
  BY <1>2, <1>3, <1>4, OpenBelow DEF Keyed
<1>6. UNCHANGED <<session, fetching, settings, disk>> /\ calls' \in 1 .. MaxCalls
  BY <1>1, CountKeeps DEF IInv
<1> QED BY <1>5, <1>6, HostStep

\* Through the links, sync_to writes and removes what mount_allowlist or a command has
\* let in.
LEMMA SyncFailsKeepsIInv ==
  ASSUME IInv, SyncFails
  PROVE  IInv' /\ Bounded
<1>1. PICK removed \in SUBSET (Removed \ Missing), written \in SUBSET {key \in Stale : ~Blocked(key)} :
        /\ host' = HostAfter(removed, written)
        /\ links' = LinksAfter(removed)
        /\ synced' = [key \in (DOMAIN synced \ removed) \cup written |->
                        IF key \in written THEN Files[key] ELSE synced[key]]
  BY DEF SyncFails
<1>2. removed \in SUBSET DOMAIN synced /\ written \in SUBSET DOMAIN Files
  BY DEF Removed, Stale
<1>3. Keyed(host') /\ Led(links') /\ \A p : Changed(host, host', p) => OpenTo(p)
  BY <1>1, <1>2, HostAfterFacts
<1>4. Keyed(synced')
  <2>1. Keyed(synced) /\ Keyed(Files)
    BY PresentFiles DEF IInv, DiskInv
  <2> QED BY <1>1, <1>2, <2>1 DEF Keyed
<1>5. UNCHANGED <<session, fetching, settings, strayed>> /\ calls' \in 1 .. MaxCalls
  BY CountKeeps DEF IInv, SyncFails
<1> QED BY <1>3, <1>4, <1>5, LinkStep

\* The links placed lead where overlays do.
LEMMA PlacedLed ==
  ASSUME IInv, NEW keys \in SUBSET DOMAIN overlays
  PROVE  Led(Placed(keys))
<1>1. Removed \in SUBSET DOMAIN synced /\ {} \in SUBSET DOMAIN Files
  BY DEF Removed
<1>2. Led(LinksSynced)
  BY <1>1, HostAfterFacts DEF LinksSynced
<1> QED BY <1>2 DEF IInv, DiskInv, Led, Placed, Merge

\* As far as some links.
LEMMA LinkFailsKeepsIInv ==
  ASSUME IInv, LinkFails
  PROVE  IInv' /\ Bounded
<1>1. PICK keys \in SUBSET Linkable : links' = Placed(keys)
  BY DEF LinkFails
<1>2. keys \in SUBSET DOMAIN overlays
  BY DEF Linkable, Free
<1>3. Led(links')
  BY <1>1, <1>2, PlacedLed
<1>4. Removed \in SUBSET DOMAIN synced /\ Stale \in SUBSET DOMAIN Files
  BY DEF Removed, Stale
<1>5. host' = HostAfter(Removed, Stale) /\ synced' = Files
  BY DEF LinkFails, HostSynced
<1>6. Keyed(host') /\ \A p : Changed(host, host', p) => OpenTo(p)
  BY <1>4, <1>5, HostAfterFacts
<1>7. Keyed(synced')
  BY <1>5, PresentFiles
<1>8. UNCHANGED <<session, fetching, settings, strayed>> /\ calls' \in 1 .. MaxCalls
  BY CountKeeps DEF IInv, LinkFails
<1> QED BY <1>3, <1>6, <1>7, <1>8, LinkStep

\* What a command links to is known from then on.
LEMMA MadeFacts ==
  ASSUME NEW link \in {<<>>} \cup LinksMade
  PROVE  /\ \A l \in DOMAIN link : Path(l) /\ Path(link[l]) /\ link[l] \in Range(link)
         /\ \A to \in Range(link) : Path(to)
<1>1. CASE link = <<>>
  BY <1>1 DEF Range
<1>2. CASE link \in LinksMade
  <2>1. PICK made \in CommandLinks : link = Only(made[1], made[2])
    BY <1>2 DEF LinksMade
  <2>2. Path(made[1]) /\ Path(made[2])
    BY BorderAssumption
  <2>3. DOMAIN link = {made[1]} /\ link[made[1]] = made[2]
    BY <2>1 DEF Only
  <2> QED BY <2>2, <2>3 DEF Range
<1> QED BY <1>1, <1>2

\* A command: besides, in its own directories and, on macOS, in /tmp.
LEMMA BashKeepsIInv ==
  ASSUME IInv, Bash
  PROVE  IInv' /\ Bounded
<1> DEFINE written == [kind |-> "written", call |-> calls']
           open == {p \in DOMAIN host : host[p] /= Dir /\ Access(View(Platform), p) = "write"}
           left == HostSynced
<1>1. PICK own \in {{}} \cup {{key} : key \in FilesMade}, link \in {<<>>} \cup LinksMade,
           unlinked \in SUBSET DOMAIN Placed(Free), changed \in SUBSET open :
        /\ host' = [p \in DOMAIN left |-> IF p \in changed THEN written ELSE left[p]]
        /\ links' = Merge(Without(Placed(Free), unlinked \cup Gone(link, DOMAIN Placed(Free))), link)
        /\ synced' = Merge(Without(InPlace, Gone(link, DOMAIN InPlace)), [key \in own |-> written])
        /\ strayed' = strayed \cup Range(link)
        /\ Push(synced') \/ UNCHANGED <<line, now>>
  BY DEF Bash
<1>2. Keyed(left) /\ \A p : Changed(host, left, p) => OpenTo(p)
  <2>1. Removed \in SUBSET DOMAIN synced /\ Stale \in SUBSET DOMAIN Files
    BY DEF Removed, Stale
  <2> QED BY <2>1, HostAfterFacts DEF HostSynced
<1>3. \A p \in open : InBounds(p)
  <2>1. Platform \in {"linux", "macos"}
    BY BorderAssumption
  <2> SUFFICES ASSUME NEW p \in open PROVE InBounds(p)
    OBVIOUS
  <2>2. Access(View(Platform), p) = "write"
    OBVIOUS
  <2>3. Owned(WorkspaceDir, p) \/ (Platform /= "linux" /\ IsPrefix(Tmp, p))
    BY <2>1, <2>2, AccessFacts DEF View
  <2> QED BY <2>1, <2>3 DEF Owned, Own, InBounds
<1>4. Keyed(Merge(Without(InPlace, Gone(link, DOMAIN InPlace)), [key \in own |-> written]))
  <2>1. Keyed(Without(InPlace, Gone(link, DOMAIN InPlace)))
    BY PresentFiles DEF Keyed, InPlace, Without
  <2>2. Keyed([key \in own |-> written])
    BY BorderAssumption DEF Keyed, FilesMade
  <2> QED BY <2>1, <2>2, MergeKeyed
<1> HIDE DEF written, open, left
<1>5. Keyed(host') /\ \A p : Changed(host, host', p) => InBounds(p)
  <2>1. DOMAIN host' = DOMAIN left /\ \A p \in DOMAIN left : p \notin changed => host'[p] = left[p]
    BY <1>1
  <2>2. ASSUME NEW p, Changed(host, host', p) PROVE InBounds(p)
    <3>1. CASE p \in changed
      BY <1>1, <1>3, <3>1
    <3>2. CASE p \notin changed
      <4>1. Changed(host, left, p)
        BY <2>1, <2>2, <3>2 DEF Changed, Content
      <4> QED BY <1>2, <4>1 DEF InBounds, OpenTo, Opened, Admits, Strayed
    <3> QED BY <3>1, <3>2
  <2> QED BY <1>2, <2>1, <2>2 DEF Keyed
<1>6. Keyed(synced')
  BY <1>1, <1>4
<1>7. /\ \A l \in DOMAIN link : Path(l) /\ Path(link[l]) /\ link[l] \in Range(link)
      /\ \A to \in Range(link) : Path(to)
  BY MadeFacts
<1>8. strayed \subseteq strayed' /\ \A to \in strayed' : Path(to)
  BY <1>1, <1>7 DEF IInv, DiskInv
<1>9. UNCHANGED <<overlays, fetching, settings, admitted>> /\ calls' \in 1 .. MaxCalls
  BY CountKeeps DEF IInv, Bash, settings
<1>10. Led(links)'
  <2> DEFINE old == Without(Placed(Free), unlinked \cup Gone(link, DOMAIN Placed(Free)))
             Now(p) == Opened(admitted', strayed', p)
  <2>1. \A l \in DOMAIN old : Path(l) /\ Path(old[l]) /\ OpenTo(old[l])
    <3>1. Led(Placed(Free))
      BY PlacedLed DEF Free
    <3> QED BY <3>1 DEF Led, Without
  <2>2. \A p : OpenTo(p) => Now(p)
    BY <1>8, <1>9 DEF OpenTo, Opened
  <2>3. ASSUME NEW l \in DOMAIN link PROVE Now(link[l])
    <3>1. Path(link[l]) /\ link[l] \in strayed'
      BY <1>1, <1>7
    <3>2. IsPrefix(link[l], link[l])
      BY <3>1, PrefixReflexive
    <3> QED BY <3>1, <3>2 DEF Opened
  <2>4. links' = Merge(old, link)
    BY <1>1
  <2> HIDE DEF old, Now
  <2>5. /\ DOMAIN links' = DOMAIN old \cup DOMAIN link
        /\ \A l \in DOMAIN links' : links'[l] = IF l \in DOMAIN link THEN link[l] ELSE old[l]
    BY <2>4 DEF Merge
  <2>6. \A l \in DOMAIN links' : Path(l) /\ Path(links'[l]) /\ Now(links'[l])
    BY <1>7, <2>1, <2>2, <2>3, <2>5
  <2> QED BY <2>6 DEF Led, OpenTo, Now, Path
<1>11. LineInv'
  <2>1. CASE Push(synced')
    BY <1>6, <2>1, PushKeepsLine DEF IInv
  <2>2. CASE UNCHANGED <<line, now>>
    BY <2>2 DEF IInv, LineInv, Keyed, Path
  <2> QED BY <1>1, <2>1, <2>2
<1> QED BY <1>5, <1>6, <1>8, <1>9, <1>10, <1>11, CommandStep

\* At first nothing is linked, fetched or mounted.
LEMMA InitIInv ==
  Init => IInv
<1> SUFFICES ASSUME Init PROVE IInv
  OBVIOUS
<1>1. LineInv
  <2>1. \A x : <<x>> \in Seq({x}) /\ DOMAIN <<x>> = {1} /\ <<x>>[1] = x
    OBVIOUS
  <2>2. \A x : Path(<<x>>)
    BY <2>1, SequenceIsPath
  <2>3. Keyed(<<>>)
    BY DEF Keyed
  <2>4. line = << <<>> >> /\ now = 1
    BY DEF Init
  <2> QED BY <2>1, <2>2, <2>3, <2>4 DEF LineInv
<1>2. FetchingInv
  BY BorderAssumption DEF Init, FetchingInv
<1>3. SettingsInv
  BY DEF Init, SettingsInv
<1>4. DiskInv
  BY BorderAssumption DEF Init, DiskInv, Keyed, Led
<1> QED BY <1>1, <1>2, <1>3, <1>4 DEF IInv

\* Every step keeps it, and keeps to the bounds on the host.
LEMMA NextIInv ==
  ASSUME IInv, [Next]_vars
  PROVE  IInv' /\ Bounded
<1>1. CASE EditConfig
  BY <1>1, EditConfigKeepsIInv
<1>2. CASE Rollback
  BY <1>2, RollbackKeepsIInv
<1>3. CASE WriteFile
  BY <1>3, WriteFileKeepsIInv
<1>4. CASE InstallPackage
  BY <1>4, InstallPackageKeepsIInv
<1>5. CASE ExtractText
  BY <1>5, ExtractTextKeepsIInv
<1>6. ASSUME NEW f \in Fetchers, BeginFetch(f) PROVE IInv' /\ Bounded
  BY <1>6, BeginFetchKeepsIInv
<1>7. ASSUME NEW f \in Fetchers, FetchDone(f) PROVE IInv' /\ Bounded
  BY <1>7, FetchDoneKeepsIInv
<1>8. ASSUME NEW f \in Fetchers, FetchFails(f) PROVE IInv' /\ Bounded
  BY <1>8, FetchFailsKeepsIInv
<1>9. CASE Mount
  BY <1>9, MountKeepsIInv
<1>10. CASE Export
  BY <1>10, ExportKeepsIInv
<1>11. CASE DeleteFromHost
  BY <1>11, DeleteFromHostKeepsIInv
<1>12. CASE SyncFails
  BY <1>12, SyncFailsKeepsIInv
<1>13. CASE LinkFails
  BY <1>13, LinkFailsKeepsIInv
<1>14. CASE Bash
  BY <1>14, BashKeepsIInv
<1>15. CASE UNCHANGED vars
  <2>1. UNCHANGED <<line, now, overlays, fetching, settings, host, disk, calls>>
    BY <1>15 DEF vars, session
  <2>2. LineInv' /\ FetchingInv'
    BY <2>1 DEF IInv, LineInv, FetchingInv, Keyed, Path
  <2> QED BY <2>1, <2>2, SessionStep
<1> QED BY <1>1, <1>2, <1>3, <1>4, <1>5, <1>6, <1>7, <1>8, <1>9, <1>10, <1>11, <1>12, <1>13,
           <1>14, <1>15 DEF Next

\* The invariant: every file and directory lies on a path, and every overlay and link
\* leads where mount_allowlist has let it or where a command has linked to, whatever was
\* fetched, mounted, exported, linked or run in between (mount_directory, run).
THEOREM Invariance ==
  Spec => []IInv
<1>1. IInv /\ [Next]_vars => IInv'
  BY NextIInv
<1> QED BY InitIInv, <1>1, PTL DEF Spec

\* HostInBounds: nothing on the host changes outside of what mount_allowlist has
\* named and the session's own directories, by exports, deletions, commands or
\* through links (session_export, delete_from_host, sync_to, Sandbox), but for what
\* commands themselves have linked to.
THEOREM HostSafe ==
  Spec => HostInBounds
<1>1. IInv /\ [Next]_vars =>
        [\A p \in DOMAIN host \cup DOMAIN host' :
           Content(host, p) /= Content(host', p) \/ (p \in DOMAIN host /\ p \notin DOMAIN host') =>
             \/ Admits(p) \/ Own(p) \/ Strayed(p)
             \/ Platform = "macos" /\ IsPrefix(Tmp, p)]_vars
  BY NextIInv DEF Bounded, Changed, InBounds
<1> QED BY <1>1, Invariance, PTL DEF Spec, HostInBounds

-----------------------------------------------------------------------------
(***************************************************************************)
(* The view of a command.                                                  *)
(***************************************************************************)

\* What a push leaves: the new checkpoint is the present one, the others are old.
LEMMA PushFacts ==
  ASSUME LineInv, NEW files, Push(files)
  PROVE  /\ Files' = files /\ Len(line') <= MaxCheckpoints
         /\ \A i \in DOMAIN line' : line'[i] = files \/ \E j \in DOMAIN line : line'[i] = line[j]
<1> DEFINE kept == SubSeq(line, 1, now)
<1>1. /\ Len(line) \in Nat /\ DOMAIN line = 1 .. Len(line) /\ now \in 1 .. Len(line)
      /\ line \in Seq(Range(line))
  BY PathShape DEF LineInv
<1>2. /\ kept \in Seq(Range(line)) /\ Len(kept) = now
      /\ \A i \in 1 .. now : kept[i] = line[i]
  BY <1>1
<1>3. line' = Append(kept, files) /\ now' = now + 1 /\ ~(Len(line) >= MaxCheckpoints)
  BY DEF Push, LimitReached
<1> HIDE DEF kept
<1>4. Path(kept)
  BY <1>2, SequenceIsPath
<1>5. /\ Len(line') = now + 1 /\ line'[now + 1] = files
      /\ \A i \in 1 .. now : line'[i] = line[i]
  BY <1>2, <1>3, <1>4, AppendNames
<1>6. DOMAIN line' = 1 .. now + 1
  <2>1. Path(line')
    BY <1>3, <1>4, PathAppend
  <2> QED BY <1>5, <2>1, PathShape
<1>7. Files' = files
  BY <1>3, <1>5 DEF Files
<1>8. Len(line') <= MaxCheckpoints
  BY <1>1, <1>3, <1>5, BorderAssumption
<1>9. ASSUME NEW i \in DOMAIN line'
      PROVE  line'[i] = files \/ \E j \in DOMAIN line : line'[i] = line[j]
  <2>1. i \in 1 .. now \/ i = now + 1
    BY <1>1, <1>6
  <2>2. \A j \in 1 .. now : j \in DOMAIN line
    BY <1>1
  <2> QED BY <1>5, <2>1, <2>2
<1> QED BY <1>7, <1>8, <1>9

\* The files a fetch or an install pushes.
Pushed(files) ==
  \/ \E asked \in PackageRequests :
       /\ asked.manager \in PackageManager
       /\ files \in {Files, Merge(Files, Installed(asked.manager, asked.specs))}
  \/ \E f \in Fetchers : \E failing :
       /\ fetching[f].page \in WebPages
       /\ files = Merge(Files, Written(Bundle(fetching[f].page, fetching[f].domains,
                                              failing, fetching[f].call)))

\* A step leaves the checkpoints, or rolls back, or pushes the files of a caller, a
\* mount or a command, of an install or of a fetch.
LEMMA LineStep ==
  ASSUME IInv, [Next]_vars
  PROVE  \/ line' = line
         \/ \E files : /\ Push(files)
                       /\ WriteFile \/ ExtractText \/ Mount \/ Bash \/ Pushed(files)
<1>1. CASE EditConfig \/ Rollback \/ Export \/ DeleteFromHost \/ SyncFails \/ LinkFails
  BY <1>1 DEF EditConfig, Rollback, Export, DeleteFromHost, SyncFails, LinkFails, session
<1>2. CASE WriteFile
  BY <1>2 DEF WriteFile
<1>3. CASE InstallPackage
  BY <1>3 DEF InstallPackage, MayInstall, Pushed
<1>4. CASE ExtractText
  BY <1>4 DEF ExtractText
<1>5. ASSUME NEW f \in Fetchers, BeginFetch(f) \/ FetchFails(f) PROVE line' = line
  BY <1>5 DEF BeginFetch, FetchFails, session
<1>6. ASSUME NEW f \in Fetchers, FetchDone(f) PROVE \E files : Push(files) /\ Pushed(files)
  <2>1. fetching[f].page \in WebPages
    BY <1>6, InHand DEF FetchDone
  <2> QED BY <1>6, <2>1 DEF FetchDone, Pushed
<1>7. CASE Mount
  BY <1>7 DEF Mount
<1>8. CASE Bash
  BY <1>8 DEF Bash
<1>9. CASE UNCHANGED vars
  BY <1>9 DEF vars, session
<1> QED BY <1>1, <1>2, <1>3, <1>4, <1>5, <1>6, <1>7, <1>8, <1>9 DEF Next

\* The session's own directories: none is in another.
LEMMA DirsApart ==
  ASSUME IInv
  PROVE  /\ Path(WorkspaceDir)
         /\ \A dir \in {WorkspaceDir, StagingDir, ScratchDir} : IsPrefix(dir, dir)
         /\ ~IsPrefix(StagingDir, WorkspaceDir) /\ ~IsPrefix(ScratchDir, WorkspaceDir)
<1>1. Path(temp)
  <2>1. \A path \in TempDirs : Path(path)
    BY BorderAssumption
  <2>2. temp \in TempDirs
    BY DEF IInv, SettingsInv
  <2> QED BY <2>1, <2>2
<1>2. ASSUME NEW x, NEW y, IsPrefix(Append(temp, x), Append(temp, y)) PROVE x = y
  <2>1. Path(Append(temp, x)) /\ Path(Append(temp, y)) /\ Len(temp) \in Nat
    BY <1>1, PathAppend, PathShape
  <2>2. /\ Len(Append(temp, x)) = Len(temp) + 1 /\ Append(temp, x)[Len(temp) + 1] = x
        /\ Append(temp, y)[Len(temp) + 1] = y
    BY <1>1, AppendNames
  <2>3. \A i \in 1 .. Len(Append(temp, x)) : Append(temp, x)[i] = Append(temp, y)[i]
    BY <1>2, <2>1, PrefixNames
  <2>4. Len(temp) + 1 \in 1 .. Len(Append(temp, x))
    BY <2>1, <2>2
  <2> QED BY <2>2, <2>3, <2>4
<1>3. \A x : Path(Append(temp, x)) /\ IsPrefix(Append(temp, x), Append(temp, x))
  BY <1>1, PathAppend, PrefixReflexive
<1> QED BY <1>2, <1>3, NamesDiffer DEF WorkspaceDir, StagingDir, ScratchDir

\* Whatever is mounted: the session's own directories can be written, overlays read.
LEMMA ViewFacts ==
  ASSUME IInv, NEW platform \in {"linux", "macos"}
  PROVE  ViewsSafe(platform)
<1> DEFINE extra == Range(overlays) \cup config.mounts
           existing == DOMAIN host
<1>1. View(platform) = Layers(platform, existing, extra, WorkspaceDir)
  BY DEF View
<1>2. InstallView(platform) = Layers(platform, existing, {}, StagingDir)
  BY DEF InstallView
<1>3. /\ \A dir \in {WorkspaceDir, StagingDir, ScratchDir} : IsPrefix(dir, dir)
      /\ ~IsPrefix(StagingDir, WorkspaceDir) /\ ~IsPrefix(ScratchDir, WorkspaceDir)
  BY DirsApart
<1> HIDE DEF extra, existing
<1>4. Home(View(platform), platform, WorkspaceDir) /\ Home(View(platform), platform, ScratchDir)
  BY <1>1, <1>3, AccessFacts DEF Owned, Home, Hidden
<1>5. ASSUME NEW path \in Range(overlays) \cap DOMAIN host
      PROVE  \/ Access(View(platform), path) = "read"
             \/ (Own(path) \/ IsPrefix(Tmp, path)) /\ Access(View(platform), path) /= "none"
  <2>1. Path(path)
    BY DEF IInv, DiskInv, Keyed
  <2>2. path \in ReadOnlyPaths(existing, extra)
    BY DEF ReadOnlyPaths, existing, extra
  <2>3. Listed(existing, extra, path)
    BY <2>1, <2>2, PrefixReflexive DEF Listed
  <2> QED BY <1>1, <2>3, AccessFacts DEF Owned, Own
<1>6. /\ Home(InstallView(platform), platform, StagingDir)
      /\ Access(InstallView(platform), WorkspaceDir) = "write"
           => platform = "macos" /\ IsPrefix(Tmp, WorkspaceDir)
  BY <1>2, <1>3, AccessFacts DEF Owned, Home, Hidden
<1>7. ASSUME NEW i \in DOMAIN View(platform), View(platform)[i].access = "read"
      PROVE  View(platform)[i].paths \subseteq DOMAIN host
  <2>1. ReadOnlyPaths(existing, extra) \subseteq DOMAIN host
    BY DEF ReadOnlyPaths, existing
  <2>2. CASE platform = "linux"
    <3>1. /\ DOMAIN View(platform) = 1 .. 3
          /\ View(platform)[1].paths = ReadOnlyPaths(existing, extra)
          /\ View(platform)[2].access = "write" /\ View(platform)[3].access = "private"
      BY <1>1, <2>2 DEF Layers, BwrapCommand
    <3>2. i = 1
      BY <1>7, <3>1
    <3> QED BY <2>1, <3>1, <3>2
  <2>3. CASE platform = "macos"
    <3>1. /\ DOMAIN View(platform) = 1 .. 2
          /\ View(platform)[1].paths = ReadOnlyPaths(existing, extra)
          /\ View(platform)[2].access = "write"
      BY <1>1, <2>3 DEF Layers, SbplProfile
    <3>2. i = 1
      BY <1>7, <3>1
    <3> QED BY <2>1, <3>1, <3>2
  <2> QED BY <2>2, <2>3
<1> QED BY <1>4, <1>5, <1>6, <1>7 DEF ViewsSafe

\* The first two parts of CommandsAtHome: the session keeps to its checkpoint limit,
\* and on either platform no configuration, mount or deletion makes bwrap or
\* sandbox-exec take from a command its own directories - but for /tmp on Linux, which
\* hides them whenever they are in it -, show it an overlay to write to or mount what
\* is not there, or (but for /tmp on macOS) let an install write to the workspace.
THEOREM ViewsHold ==
  Spec => []( /\ now \in DOMAIN line /\ Len(line) <= MaxCheckpoints
              /\ \A platform \in {"linux", "macos"} : ViewsSafe(platform) )
<1>1. Init => Len(line) <= MaxCheckpoints
  BY BorderAssumption DEF Init
<1>2. IInv /\ Len(line) <= MaxCheckpoints /\ [Next]_vars => (Len(line) <= MaxCheckpoints)'
  <2> SUFFICES ASSUME IInv, Len(line) <= MaxCheckpoints, [Next]_vars
               PROVE  Len(line') <= MaxCheckpoints
    OBVIOUS
  <2>1. LineInv
    BY DEF IInv
  <2>2. ASSUME NEW files, Push(files) PROVE Len(line') <= MaxCheckpoints
    BY <2>1, <2>2, PushFacts
  <2>3. (\E files : Push(files)) \/ line' = line
    BY LineStep
  <2> QED BY <2>2, <2>3
<1>3. IInv => now \in DOMAIN line /\ \A platform \in {"linux", "macos"} : ViewsSafe(platform)
  BY ViewFacts DEF IInv, LineInv
<1> QED BY <1>1, <1>2, <1>3, Invariance, PTL DEF Spec

-----------------------------------------------------------------------------
(***************************************************************************)
(* Bundles and packages, as long as nobody else meddles with them.  A      *)
(* caller may save a text in the place of a fetched file, and a mounted    *)
(* directory may hold a manifest that was exported: such steps are left    *)
(* out, all others, and all orders of fetches, are not.                    *)
(***************************************************************************)
Saved(told) == {told.saved_to} \cup {asset.saved_to : asset \in told.assets}

\* No manifest or package is new, and the files the manifests tell of are as before.
Kept(files, after) ==
  \A key \in DOMAIN after : after[key].kind \in {"manifest", "package"} =>
    /\ key \in DOMAIN files /\ files[key] = after[key]
    /\ after[key].kind = "manifest" =>
         \A p \in Saved(after[key]) : Content(after, p) = Content(files, p)
Careful == WriteFile \/ ExtractText \/ Mount \/ Bash => Kept(Files, Files')

\* The inductive invariant: besides telling the truth, a manifest is in a directory
\* under downloads/, with all the files it tells of.
InDir(dir, key) == \E name : key = Append(dir, name)
Settled(told, key) ==
  \E dir : /\ Path(dir) /\ Len(dir) >= 1 /\ dir[1] = Downloads
           /\ key = Append(dir, Manifest)
           /\ \A p \in Saved(told) : InDir(dir, p)
Whole(files) ==
  \A key \in DOMAIN files : files[key].kind = "manifest"
                              => Settled(files[key], key) /\ TellsTrue(files, key)
BundleInv == \A i \in DOMAIN line : Whole(line[i]) /\ PackagesFound(line[i])

\* What a manifest tells is as true of files that agree with these where it tells.
LEMMA TellsTrueKept ==
  ASSUME NEW files, NEW after, NEW key \in DOMAIN files, TellsTrue(files, key),
         after[key] = files[key],
         \A p \in Saved(files[key]) : Content(after, p) = Content(files, p)
  PROVE  TellsTrue(after, key)
<1> DEFINE told == files[key]
<1>1. Content(after, told.saved_to) = Content(files, told.saved_to)
  BY DEF Saved
<1>2. \A asset \in told.assets : Content(after, asset.saved_to) = Content(files, asset.saved_to)
  BY DEF Saved
<1>3. after[key] = told
  OBVIOUS
<1>4. TellsTrue(files, key)
  OBVIOUS
<1> QED BY <1>1, <1>2, <1>3, <1>4 DEF TellsTrue

\* A careful step keeps bundles whole and packages found.
LEMMA KeptWhole ==
  ASSUME NEW files, Whole(files), PackagesFound(files), NEW after, Kept(files, after)
  PROVE  Whole(after) /\ PackagesFound(after)
<1>1. ASSUME NEW key \in DOMAIN after, after[key].kind = "manifest"
      PROVE  Settled(after[key], key) /\ TellsTrue(after, key)
  <2>1. /\ key \in DOMAIN files /\ files[key] = after[key]
        /\ \A p \in Saved(after[key]) : Content(after, p) = Content(files, p)
    BY <1>1 DEF Kept
  <2>2. Settled(files[key], key) /\ TellsTrue(files, key)
    BY <1>1, <2>1 DEF Whole
  <2> QED BY <2>1, <2>2, TellsTrueKept
<1>2. ASSUME NEW key \in DOMAIN after, after[key].kind = "package"
      PROVE  key \in DOMAIN files /\ files[key].kind = "package"
  BY <1>2 DEF Kept
<1> QED BY <1>1, <1>2 DEF Whole, PackagesFound

\* Two directories have no file in common.
LEMMA InOneDir ==
  ASSUME NEW p, Path(p), NEW q, Path(q), NEW key, InDir(p, key), InDir(q, key)
  PROVE  p = q
<1>1. PICK x : key = Append(p, x)
  BY DEF InDir
<1>2. PICK y : key = Append(q, y)
  BY DEF InDir
<1>3. /\ Len(p) \in Nat /\ p = [i \in 1 .. Len(p) |-> p[i]]
      /\ Len(q) \in Nat /\ q = [i \in 1 .. Len(q) |-> q[i]]
  BY PathShape
<1>4. Len(key) = Len(p) + 1 /\ \A i \in 1 .. Len(p) : key[i] = p[i]
  BY <1>1, AppendNames
<1>5. Len(key) = Len(q) + 1 /\ \A i \in 1 .. Len(q) : key[i] = q[i]
  BY <1>2, AppendNames
<1>6. Len(p) = Len(q)
  <2> DEFINE m == Len(p)
             n == Len(q)
  <2>1. m \in Nat /\ n \in Nat /\ m + 1 = n + 1
    BY <1>3, <1>4, <1>5
  <2> HIDE DEF m, n
  <2>2. m = n
    BY <2>1
  <2> QED BY <2>2 DEF m, n
<1>7. \A i \in 1 .. Len(p) : p[i] = q[i]
  BY <1>4, <1>5, <1>6
<1> QED BY <1>3, <1>6, <1>7

\* The directory of a bundle is under downloads/.
LEMMA BundleDirFacts ==
  ASSUME NEW url
  PROVE  /\ Path(BundleDir(url)) /\ Len(BundleDir(url)) >= 1 /\ BundleDir(url)[1] = Downloads
<1> DEFINE T == {Downloads, Plain(url.host, ""), Slug(url.name)}
           start == <<Downloads, Plain(url.host, "")>>
           end == IF url.name = NoName THEN <<>> ELSE <<Slug(url.name)>>
<1>1. start \in Seq(T) /\ end \in Seq(T)
  <2>1. \A x, y, z : /\ <<x, y>> \in Seq({x, y, z}) /\ <<z>> \in Seq({x, y, z})
                     /\ <<>> \in Seq({x, y, z})
    OBVIOUS
  <2> QED BY <2>1, Zenon
<1>2. Len(start) = 2 /\ start[1] = Downloads
  OBVIOUS
<1>3. BundleDir(url) = start \o end
  BY DEF BundleDir
<1> HIDE DEF T, start, end
<1>4. /\ start \o end \in Seq(T) /\ Len(start \o end) = Len(start) + Len(end)
      /\ \A i \in 1 .. Len(start) + Len(end) :
           (start \o end)[i] = IF i <= Len(start) THEN start[i] ELSE end[i - Len(start)]
      /\ Len(end) \in Nat
  BY <1>1, ConcatProperties
<1>5. Len(start \o end) >= 1 /\ (start \o end)[1] = Downloads
  <2>1. 1 \in 1 .. Len(start) + Len(end) /\ 1 <= Len(start)
    BY <1>2, <1>4
  <2> QED BY <1>2, <1>4, <2>1
<1> QED BY <1>3, <1>4, <1>5, SequenceIsPath

\* A fetch writes its own bundle and lets all others be.
LEMMA FetchKeepsWhole ==
  ASSUME NEW base, Whole(base), PackagesFound(base),
         NEW page \in WebPages, NEW allowlist, NEW failing, NEW call
  PROVE  LET after == Merge(base, Written(Bundle(page, allowlist, failing, call)))
         IN  Whole(after) /\ PackagesFound(after)
<1> DEFINE dir == BundleDir(page.url)
           got == AssetsOf(page, allowlist, failing)
           told == Told(page, got, call)
           files == Written(Bundle(page, allowlist, failing, call))
           place == Append(dir, Manifest)
           after == Merge(base, files)
           all == /\ Path(BundleDir(page.url))
                  /\ \A key \in DOMAIN files : Path(key) /\ \E name : key = Append(BundleDir(page.url), name)
                  /\ place \in DOMAIN files /\ files[place] = Told(page, got, call)
                  /\ \A key \in DOMAIN files : key /= place => files[key].kind = "body"
                  /\ TellsTrue(Merge(base, files), place)
<1>1. all
  BY BundleFacts
<1>2. Path(dir) /\ Len(dir) >= 1 /\ dir[1] = Downloads /\ place = Append(dir, Manifest)
  BY BundleDirFacts
<1>3. told.kind = "manifest" /\ \A p \in Saved(told) : InDir(dir, p)
  BY DEF Told, Saved, InDir
<1> HIDE DEF dir, got, told, files, place, after
<1>4. /\ \A key \in DOMAIN files : InDir(dir, key)
      /\ place \in DOMAIN files /\ files[place] = told
      /\ \A key \in DOMAIN files : key /= place => files[key].kind = "body"
      /\ TellsTrue(after, place)
  BY <1>1 DEF dir, told, after, InDir
<1>5. /\ DOMAIN after = DOMAIN base \cup DOMAIN files
      /\ \A key \in DOMAIN after : after[key] = IF key \in DOMAIN files THEN files[key] ELSE base[key]
  BY DEF after, Merge
<1>6. Settled(told, place)
  BY <1>2, <1>3 DEF Settled
<1>7. ASSUME NEW key \in DOMAIN after, after[key].kind = "manifest"
      PROVE  Settled(after[key], key) /\ TellsTrue(after, key)
  <2>1. CASE key \in DOMAIN files
    <3>1. key = place /\ after[key] = told
      BY <1>4, <1>5, <1>7, <2>1
    <3> QED BY <1>4, <1>6, <3>1
  <2>2. CASE key \notin DOMAIN files
    <3>1. key \in DOMAIN base /\ after[key] = base[key]
      BY <1>5, <2>2
    <3>2. Settled(base[key], key) /\ TellsTrue(base, key)
      BY <1>7, <3>1 DEF Whole
    <3>3. PICK d : /\ Path(d) /\ key = Append(d, Manifest)
                   /\ \A p \in Saved(base[key]) : InDir(d, p)
      BY <3>2 DEF Settled
    <3>4. d /= dir
      BY <1>2, <1>4, <2>2, <3>3
    <3>5. \A p \in Saved(base[key]) : p \notin DOMAIN files
      BY <1>2, <1>4, <3>3, <3>4, InOneDir
    <3>6. \A p \in Saved(base[key]) : Content(after, p) = Content(base, p)
      BY <1>5, <3>5 DEF Content
    <3> QED BY <3>1, <3>2, <3>6, TellsTrueKept
  <2> QED BY <2>1, <2>2
<1>8. ASSUME NEW key \in DOMAIN after, after[key].kind = "package"
      PROVE  key \in DOMAIN base /\ base[key].kind = "package"
  BY <1>3, <1>4, <1>5, <1>8
<1>9. Whole(after) /\ PackagesFound(after)
  BY <1>7, <1>8 DEF Whole, PackagesFound
<1> QED BY <1>9 DEF after, files

\* The end of a path that was put together.
LEMMA ConcatPiece ==
  ASSUME NEW p, Path(p), NEW q, Path(q)
  PROVE  /\ SubSeq(p \o q, Len(p) + 1, Len(p \o q)) = q /\ Len(p \o q) = Len(p) + Len(q)
         /\ \A i \in 1 .. Len(p) : (p \o q)[i] = p[i]
         /\ \A i \in 1 .. Len(q) : (p \o q)[Len(p) + i] = q[i]
<1> DEFINE S == Range(p) \cup Range(q)
           s == p \o q
           m == Len(p)
           n == Len(q)
<1>1. p \in Seq(S) /\ q \in Seq(S)
  BY SeqMonotonic DEF Path
<1>2. q = [i \in 1 .. n |-> q[i]]
  BY PathShape
<1> HIDE DEF S
<1>3. /\ s \in Seq(S) /\ Len(s) = m + n /\ m \in Nat /\ n \in Nat
      /\ \A i \in 1 .. m + n : s[i] = IF i <= m THEN p[i] ELSE q[i - m]
  BY <1>1, ConcatProperties
<1> HIDE DEF s, m, n
<1>4. \A i \in 1 .. n : s[m + i] = q[i]
  <2> SUFFICES ASSUME NEW i \in 1 .. n PROVE s[m + i] = q[i]
    OBVIOUS
  <2>1. m + i \in 1 .. m + n /\ ~(m + i <= m) /\ (m + i) - m = i
    BY <1>3
  <2> QED BY <1>3, <2>1
<1>5. \A i \in 1 .. m : s[i] = p[i]
  <2> SUFFICES ASSUME NEW i \in 1 .. m PROVE s[i] = p[i]
    OBVIOUS
  <2>1. i \in 1 .. m + n /\ i <= m
    BY <1>3
  <2> QED BY <1>3, <2>1
<1>6. SubSeq(s, m + 1, m + n) = [i \in 1 .. n |-> s[m + i]]
  BY <1>3
<1>7. SubSeq(s, m + 1, m + n) = q
  BY <1>2, <1>4, <1>6
<1> QED BY <1>3, <1>4, <1>5, <1>7 DEF s, m, n

\* A name in a directory below another.
LEMMA NameBelow ==
  ASSUME NEW p, Path(p), NEW q, Path(q), NEW x
  PROVE  /\ IsPrefix(p \o q, p \o Append(q, x))
         /\ Len(p \o q) + 1 = Len(p) + Len(Append(q, x))
<1> DEFINE r == Append(q, x)
           m == Len(p)
           n == Len(q)
<1>1. Path(r) /\ Len(r) = n + 1 /\ m \in Nat /\ n \in Nat /\ \A i \in 1 .. n : r[i] = q[i]
  BY PathAppend, AppendNames, PathShape
<1> HIDE DEF r
<1>2. Path(p \o q) /\ Path(p \o r)
  BY <1>1, PathConcat
<1>3. Len(p \o q) = m + n /\ Len(p \o r) = m + Len(r)
  BY <1>1, ConcatPiece
<1>4. /\ \A i \in 1 .. m : (p \o q)[i] = p[i] /\ (p \o r)[i] = p[i]
      /\ \A i \in 1 .. n : (p \o q)[m + i] = q[i]
      /\ \A i \in 1 .. Len(r) : (p \o r)[m + i] = r[i]
  BY <1>1, ConcatPiece
<1>5. ASSUME NEW i \in 1 .. m + n PROVE (p \o q)[i] = (p \o r)[i]
  <2>1. CASE i \in 1 .. m
    BY <1>4, <2>1
  <2>2. CASE i \notin 1 .. m
    <3> DEFINE j == i - m
    <3>1. j \in 1 .. n /\ j \in 1 .. n + 1 /\ i = m + j
      BY <1>1, <2>2
    <3> HIDE DEF j
    <3> QED BY <1>1, <1>4, <3>1
  <2> QED BY <2>1, <2>2
<1>6. m + n <= m + (n + 1) /\ (m + n) + 1 = m + (n + 1)
  BY <1>1
<1>7. IsPrefix(p \o q, p \o r)
  BY <1>1, <1>2, <1>3, <1>5, <1>6, PrefixNames
<1> QED BY <1>1, <1>3, <1>6, <1>7 DEF r

\* What an install adds: a package right in the directory that commands search, or
\* npm's list; nothing under downloads/.
LEMMA InstalledFacts ==
  ASSUME NEW pm \in PackageManager, NEW specs, NEW key \in DOMAIN Installed(pm, specs)
  PROVE  /\ key[1] /= Downloads
         /\ \/ Installed(pm, specs)[key].kind = "list"
            \/ /\ Installed(pm, specs)[key].kind = "package"
               /\ \E x : key = Append(SearchPath(pm), x)
<1> DEFINE dir == InstallDir(pm)
           found == InstallArgv(pm, specs)
           packages == {spec.package : spec \in specs}
<1>1. PICK path \in DOMAIN found : key = dir \o path /\ Path(path)
  BY InstalledKeys
<1>2. Path(dir)
  BY InstallDirPath
<1>3. Len(dir) = 2
  BY DEF InstallDir
<1>4. dir[1] /= Downloads
  <2>1. dir[1] = Plain(<<".packages">>, "")
    BY DEF InstallDir
  <2>2. Plain(<<".packages">>, "").stem[1] /= Downloads.stem[1]
    BY DEF Plain, Downloads
  <2> QED BY <2>1, <2>2
<1>5. Installed(pm, specs)[key] = found[SubSeq(key, Len(dir) + 1, Len(key))]
  BY DEF Installed
<1> HIDE DEF dir, found
<1>6. SubSeq(key, Len(dir) + 1, Len(key)) = path /\ key[1] = dir[1]
  <2>1. 1 \in 1 .. Len(dir)
    BY <1>3
  <2> QED BY <1>1, <1>2, <2>1, ConcatPiece
<1>7. Installed(pm, specs)[key] = found[path]
  BY <1>5, <1>6
<1>8. \A x : dir \o <<x>> = Append(dir, x) /\ dir \o <<NodeModules, x>> = Append(Append(dir, NodeModules), x)
  <2> SUFFICES ASSUME NEW x
               PROVE  /\ dir \o <<x>> = Append(dir, x)
                      /\ dir \o <<NodeModules, x>> = Append(Append(dir, NodeModules), x)
    OBVIOUS
  <2> DEFINE S == Range(dir) \cup {x, NodeModules}
             one == <<x>>
             nm == <<NodeModules>>
  <2>1. dir \in Seq(S)
    BY <1>2, SeqMonotonic DEF Path
  <2>2. one \in Seq(S) /\ nm \in Seq(S) /\ x \in S /\ NodeModules \in S
    <3>1. \A U, a : a \in U => <<a>> \in Seq(U)
      OBVIOUS
    <3>2. x \in S /\ NodeModules \in S
      OBVIOUS
    <3> HIDE DEF S
    <3> QED BY <3>1, <3>2
  <2>3. nm \o one = <<NodeModules, x>>
    <3> DEFINE two == <<NodeModules, x>>
    <3>1. Len(nm) = 1 /\ nm[1] = NodeModules /\ Len(one) = 1 /\ one[1] = x
      OBVIOUS
    <3>2. Len(two) = 2 /\ two[1] = NodeModules /\ two[2] = x /\ two \in Seq({NodeModules, x})
      OBVIOUS
    <3> HIDE DEF S, nm, one, two
    <3>3. /\ nm \o one \in Seq(S) /\ Len(nm \o one) = Len(nm) + Len(one)
          /\ \A i \in 1 .. Len(nm) + Len(one) :
               (nm \o one)[i] = IF i <= Len(nm) THEN nm[i] ELSE one[i - Len(nm)]
      BY <2>2, ConcatProperties
    <3>4. /\ Len(nm \o one) = 2 /\ (nm \o one)[1] = NodeModules /\ (nm \o one)[2] = x
      BY <3>1, <3>3
    <3>5. two \in Seq(S)
      BY <3>2, SeqMonotonic DEF S
    <3>6. nm \o one = two
      BY <3>2, <3>3, <3>4, <3>5, SeqEqual
    <3> QED BY <3>6 DEF two
  <2> HIDE DEF S
  <2>4. Append(dir, x) = dir \o <<x>> /\ Append(dir, NodeModules) = dir \o <<NodeModules>>
    BY <2>1, <2>2, AppendIsConcat
  <2>5. Append(dir, NodeModules) \in Seq(S)
    BY <2>1, <2>2, AppendProperties
  <2>6. Append(Append(dir, NodeModules), x) = Append(dir, NodeModules) \o <<x>>
    BY <2>2, <2>5, AppendIsConcat
  <2>7. dir \o (nm \o one) = (dir \o nm) \o one
    BY <2>1, <2>2, ConcatAssociative
  <2> QED BY <2>3, <2>4, <2>6, <2>7
<1>9. CASE pm = "pip"
  <2>1. path \in {<<p>> : p \in packages} /\ found[path] = Package
    BY <1>1, <1>9 DEF found, InstallArgv
  <2>2. SearchPath(pm) = dir
    BY <1>9 DEF SearchPath, dir
  <2>3. \E x : key = Append(dir, x)
    BY <1>1, <1>8, <2>1
  <2> QED BY <1>3, <1>4, <1>6, <1>7, <2>1, <2>2, <2>3 DEF Package
<1>10. CASE pm = "npm"
  <2>1. SearchPath(pm) = Append(dir, NodeModules)
    BY <1>10 DEF SearchPath, dir
  <2>2. /\ path \in {<<NodeModules, p>> : p \in packages} \cup {<<PackageJson>>}
        /\ found[path] = IF path = <<PackageJson>> THEN [kind |-> "list"] ELSE Package
    BY <1>1, <1>10 DEF found, InstallArgv
  <2>3. CASE path = <<PackageJson>>
    BY <1>3, <1>4, <1>6, <1>7, <2>2, <2>3
  <2>4. CASE path /= <<PackageJson>>
    <3>1. PICK p \in packages : path = <<NodeModules, p>>
      BY <2>2, <2>4
    <3>2. key = Append(SearchPath(pm), p)
      BY <1>1, <1>8, <2>1, <3>1
    <3>3. found[path].kind = "package"
      BY <2>2, <2>4 DEF Package
    <3> QED BY <1>3, <1>4, <1>6, <1>7, <3>2, <3>3
  <2> QED BY <2>3, <2>4
<1> QED BY <1>9, <1>10 DEF PackageManager

\* An install keeps bundles whole, and its packages are found.
LEMMA InstallKeepsWhole ==
  ASSUME Path(WorkspaceDir), NEW base, Whole(base), PackagesFound(base),
         NEW pm \in PackageManager, NEW specs
  PROVE  LET after == Merge(base, Installed(pm, specs))
         IN  Whole(after) /\ PackagesFound(after)
<1> DEFINE files == Installed(pm, specs)
           after == Merge(base, files)
<1>1. \A key \in DOMAIN files :
        /\ key[1] /= Downloads
        /\ \/ files[key].kind = "list"
           \/ files[key].kind = "package" /\ \E x : key = Append(SearchPath(pm), x)
  BY InstalledFacts
<1> HIDE DEF files, after
<1>2. /\ DOMAIN after = DOMAIN base \cup DOMAIN files
      /\ \A key \in DOMAIN after : after[key] = IF key \in DOMAIN files THEN files[key] ELSE base[key]
  BY DEF after, Merge
<1>3. ASSUME NEW key \in DOMAIN after, after[key].kind = "manifest"
      PROVE  Settled(after[key], key) /\ TellsTrue(after, key)
  <2>1. key \in DOMAIN base /\ after[key] = base[key]
    BY <1>1, <1>2, <1>3
  <2>2. Settled(base[key], key) /\ TellsTrue(base, key)
    BY <1>3, <2>1 DEF Whole
  <2>3. PICK d : /\ Path(d) /\ Len(d) >= 1 /\ d[1] = Downloads
                 /\ \A p \in Saved(base[key]) : InDir(d, p)
    BY <2>2 DEF Settled
  <2>4. \A p \in Saved(base[key]) : p[1] = Downloads
    <3> SUFFICES ASSUME NEW p \in Saved(base[key]) PROVE p[1] = Downloads
      OBVIOUS
    <3>1. PICK x : p = Append(d, x)
      BY <2>3 DEF InDir
    <3>2. Len(d) \in Nat /\ 1 \in 1 .. Len(d)
      BY <2>3, PathShape
    <3> QED BY <2>3, <3>1, <3>2, AppendNames
  <2>5. \A p \in Saved(base[key]) : Content(after, p) = Content(base, p)
    BY <1>1, <1>2, <2>4 DEF Content
  <2> QED BY <2>1, <2>2, <2>5, TellsTrueKept
<1>4. ASSUME NEW key \in DOMAIN files, files[key].kind = "package"
      PROVE  \E dir \in WorkspaceEnvVars(WorkspaceDir) :
               IsPrefix(dir, WorkspaceDir \o key) /\ Len(dir) + 1 = Len(WorkspaceDir) + Len(key)
  <2>1. PICK x : key = Append(SearchPath(pm), x)
    BY <1>1, <1>4
  <2>2. Path(WorkspaceDir) /\ Path(SearchPath(pm))
    BY InstallDirPath, PathAppend DEF SearchPath
  <2>3. /\ IsPrefix(WorkspaceDir \o SearchPath(pm), WorkspaceDir \o key)
        /\ Len(WorkspaceDir \o SearchPath(pm)) + 1 = Len(WorkspaceDir) + Len(key)
    BY <2>1, <2>2, NameBelow
  <2>4. WorkspaceDir \o SearchPath(pm) \in WorkspaceEnvVars(WorkspaceDir)
    BY DEF WorkspaceEnvVars
  <2> QED BY <2>3, <2>4
<1>5. PackagesFound(after)
  <2> SUFFICES ASSUME NEW key \in DOMAIN after, after[key].kind = "package"
               PROVE  \E dir \in WorkspaceEnvVars(WorkspaceDir) :
                        IsPrefix(dir, WorkspaceDir \o key)
                          /\ Len(dir) + 1 = Len(WorkspaceDir) + Len(key)
    BY DEF PackagesFound
  <2>1. CASE key \in DOMAIN files
    <3>1. files[key].kind = "package"
      BY <1>2, <2>1
    <3> QED BY <1>4, <2>1, <3>1
  <2>2. CASE key \notin DOMAIN files
    <3>1. key \in DOMAIN base /\ base[key].kind = "package"
      BY <1>2, <2>2
    <3> QED BY <3>1 DEF PackagesFound
  <2> QED BY <2>1, <2>2
<1>6. Whole(after)
  BY <1>3 DEF Whole
<1> QED BY <1>5, <1>6 DEF after, files

\* A step of others, if careful.
LEMMA OthersKeepWhole ==
  ASSUME IInv, BundleInv, WriteFile \/ ExtractText \/ Mount \/ Bash, Careful,
         NEW files, Push(files)
  PROVE  Whole(files) /\ PackagesFound(files)
<1>1. LineInv /\ Whole(Files) /\ PackagesFound(Files)
  BY DEF IInv, LineInv, BundleInv, Files
<1>2. Files' = files
  BY <1>1, PushFacts
<1>3. Kept(Files, files)
  BY <1>2 DEF Careful
<1> QED BY <1>1, <1>3, KeptWhole

\* What was pushed is whole.
LEMMA PushedWhole ==
  ASSUME IInv, BundleInv, Careful, NEW files, Push(files),
         WriteFile \/ ExtractText \/ Mount \/ Bash \/ Pushed(files)
  PROVE  Whole(files) /\ PackagesFound(files)
<1>1. Whole(Files) /\ PackagesFound(Files)
  BY DEF IInv, LineInv, BundleInv, Files
<1>2. CASE WriteFile \/ ExtractText \/ Mount \/ Bash
  BY <1>2, OthersKeepWhole
<1>3. ASSUME NEW asked \in PackageRequests, asked.manager \in PackageManager,
             files \in {Files, Merge(Files, Installed(asked.manager, asked.specs))}
      PROVE  Whole(files) /\ PackagesFound(files)
  BY <1>1, <1>3, DirsApart, InstallKeepsWhole
<1>4. ASSUME NEW f \in Fetchers, NEW failing, fetching[f].page \in WebPages,
             files = Merge(Files, Written(Bundle(fetching[f].page, fetching[f].domains,
                                                 failing, fetching[f].call)))
      PROVE  Whole(files) /\ PackagesFound(files)
  BY <1>1, <1>4, FetchKeepsWhole
<1> QED BY <1>2, <1>3, <1>4 DEF Pushed

\* The daemon's environment stays.
LEMMA TempStays ==
  ASSUME [Next]_vars
  PROVE  temp' = temp
  BY DEF Next, vars, settings, EditConfig, Rollback, WriteFile, InstallPackage, ExtractText,
         BeginFetch, FetchDone, FetchFails, Mount, Export, DeleteFromHost, SyncFails, LinkFails,
         Bash

\* Every checkpoint stays whole.
LEMMA NextBundles ==
  ASSUME IInv, BundleInv, [Next]_vars, [Careful]_vars
  PROVE  BundleInv'
<1>1. LineInv
  BY DEF IInv
<1>2. SUFFICES \A i \in DOMAIN line' : Whole(line'[i]) /\ PackagesFound(line'[i])
  BY TempStays DEF BundleInv, PackagesFound, WorkspaceDir, Whole, Settled, TellsTrue, InDir
<1>3. CASE line' = line
  BY <1>3 DEF BundleInv
<1>4. CASE line' /= line
  <2>1. PICK files : Push(files) /\ (WriteFile \/ ExtractText \/ Mount \/ Bash \/ Pushed(files))
    BY <1>4, LineStep, Zenon
  <2>2. Careful
    BY <1>4 DEF vars, session
  <2>3. Whole(files) /\ PackagesFound(files)
    BY <2>1, <2>2, PushedWhole
  <2>4. \A i \in DOMAIN line' : line'[i] = files \/ \E j \in DOMAIN line : line'[i] = line[j]
    BY <1>1, <2>1, PushFacts
  <2> QED BY <2>3, <2>4 DEF BundleInv
<1> QED BY <1>3, <1>4

\* A new session has no bundle and no package.
LEMMA InitBundles ==
  ASSUME Init
  PROVE  BundleInv
<1>1. line = << <<>> >>
  BY DEF Init
<1>2. DOMAIN line = {1} /\ line[1] = <<>> /\ DOMAIN line[1] = {}
  BY <1>1
<1> QED BY <1>2 DEF BundleInv, Whole, PackagesFound

\* With careful steps, every checkpoint keeps its bundles whole and its packages found.
THEOREM BundlesKept == Spec /\ [][Careful]_vars => []BundleInv
<1>1. Init => BundleInv
  BY InitBundles
<1>2. IInv /\ BundleInv /\ [Next]_vars /\ [Careful]_vars => BundleInv'
  BY NextBundles
<1> QED BY <1>1, <1>2, Invariance, PTL DEF Spec

\* BundlesWhole: whatever the pages, allow lists, failures and orders of fetches, and
\* whatever a command may run, every manifest of every checkpoint tells the truth about
\* the files beside it - as long as no caller, mount or command writes over those files
\* or brings a manifest or package of its own.
THEOREM FetchesWhole == Spec /\ [][Careful]_vars => []BundlesWhole
<1>1. BundleInv => BundlesWhole
  BY DEF BundleInv, BundlesWhole, Whole
<1> QED BY <1>1, BundlesKept, PTL

\* CommandsAtHome under the same hypothesis: besides what ViewsHold says, a command finds
\* each package an install left, by the variables a command is given.
THEOREM AtHome == Spec /\ [][Careful]_vars => []CommandsAtHome
<1>1. /\ BundleInv /\ now \in DOMAIN line /\ Len(line) <= MaxCheckpoints
      /\ \A platform \in {"linux", "macos"} : ViewsSafe(platform)
      => CommandsAtHome
  BY DEF BundleInv, CommandsAtHome, Files
<1> QED BY <1>1, BundlesKept, ViewsHold, PTL

-----------------------------------------------------------------------------
(***************************************************************************)
(* Reading in pieces.                                                      *)
(***************************************************************************)

\* A text is a sequence of bytes.
LEMMA TextFacts ==
  ASSUME NEW text \in Texts
  PROVE  text \in Seq(Bytes) /\ Len(text) \in Nat /\ DOMAIN text = 1 .. Len(text)
<1>1. PICK n \in 0 .. MaxLength : text \in [1 .. n -> Bytes]
  BY DEF Texts
<1>2. \A m \in Nat : \A t \in [1 .. m -> Bytes] : t \in Seq(Bytes)
  OBVIOUS
<1>3. n \in Nat
  OBVIOUS
<1>4. text \in Seq(Bytes)
  BY <1>1, <1>2, <1>3
<1> QED BY <1>4, LenProperties

\* What one page is.
LEMMA PageFacts ==
  ASSUME NEW text \in Seq(Bytes), NEW limit \in (Nat \ {0}) \cup {NoLimit},
         NEW from \in 0 .. Len(text)
  PROVE  LET page == Page(text, from, limit)
             end == page.offset + page.length IN
         /\ page /= Panic /\ page.has_more \in BOOLEAN
         /\ page.has_more => page.length /= 0
         /\ Start(text, from) = from /\ end = End(text, from, limit) /\ end \in from .. Len(text)
         /\ page.has_more => limit \in Nat \ {0} /\ end = from + limit /\ end < Len(text)
         /\ ~page.has_more => end = Len(text) /\ (limit = NoLimit \/ from + limit >= Len(text))
         /\ page.content = SubSeq(text, from + 1, end)
<1> DEFINE end == End(text, from, limit)
<1>1. Len(text) \in Nat /\ from \in Nat /\ Start(text, from) = from
  BY LenProperties DEF Start, Least
<1>2. /\ end \in from .. Len(text)
      /\ end < Len(text) => limit \in Nat \ {0} /\ end = from + limit
      /\ end >= Len(text) => limit = NoLimit \/ from + limit >= Len(text)
  <2>1. CASE limit = NoLimit
    BY <1>1, <2>1 DEF End
  <2>2. CASE limit /= NoLimit
    BY <1>1, <2>2 DEF End, Least
  <2> QED BY <2>1, <2>2
<1> HIDE DEF end
<1> DEFINE page == Page(text, from, limit)
           length == end - from
           more == end < Len(text)
           content == SubSeq(text, from + 1, end)
<1>3. page = [offset |-> from, length |-> length, has_more |-> more, content |-> content]
  BY <1>1 DEF Page, end
<1>4. length \in Nat /\ from + length = end /\ more \in BOOLEAN
  BY <1>1, <1>2
<1>5. content \in Seq(Bytes)
  BY <1>1, <1>2, SubSeqProperties
<1> HIDE DEF page, length, more, content
<1>6. page \in [offset : Nat, length : Nat, has_more : BOOLEAN, content : Seq(Bytes)]
  BY <1>1, <1>3, <1>4, <1>5
<1>7. page /= Panic
  BY <1>6, PagesAssumption
<1>8. /\ page.offset = from /\ page.length = length /\ page.content = content
      /\ page.has_more = more
  BY <1>3
<1>9. page /= Panic /\ page.has_more \in BOOLEAN /\ page.offset + page.length = end
  BY <1>4, <1>7, <1>8
<1>10. end \in Nat /\ (end < Len(text) \/ end >= Len(text))
  BY <1>1, <1>2
<1>11. ~(end < Len(text)) => end = Len(text) /\ end >= Len(text)
  BY <1>1, <1>2, <1>10
<1>12. /\ page.has_more => limit \in Nat \ {0} /\ end = from + limit /\ end < Len(text)
       /\ ~page.has_more => end = Len(text) /\ (limit = NoLimit \/ from + limit >= Len(text))
  BY <1>2, <1>8, <1>11 DEF more
<1>13. page.has_more => page.length /= 0
  BY <1>1, <1>4, <1>8, <1>12
<1> QED BY <1>1, <1>2, <1>8, <1>9, <1>12, <1>13 DEF end, page, content

\* What there is from an offset on.
LEMMA FromFacts ==
  ASSUME NEW text \in Seq(Bytes), NEW from \in 0 .. Len(text), NEW end \in from .. Len(text)
  PROVE  /\ From(text, from) \in Seq(Bytes) /\ From(text, from) \notin {Panic, Endless}
         /\ SubSeq(text, from + 1, end) \in Seq(Bytes)
         /\ SubSeq(text, from + 1, end) \o From(text, end) = From(text, from)
         /\ SubSeq(text, from + 1, Len(text)) = From(text, from)
<1>1. Len(text) \in Nat /\ from \in Nat /\ end \in Nat
  BY LenProperties
<1>2. From(text, from) \in Seq(Bytes) /\ SubSeq(text, from + 1, end) \in Seq(Bytes)
  BY <1>1, SubSeqProperties DEF From
<1>3. SubSeq(text, from + 1, end) \o SubSeq(text, end + 1, Len(text))
        = SubSeq(text, from + 1, Len(text))
  <2> DEFINE m == from + 1
             n == Len(text)
  <2>1. m \in 1 .. Len(text) + 1 /\ end \in m - 1 .. Len(text) /\ n \in end .. Len(text)
    BY <1>1
  <2> HIDE DEF m, n
  <2>2. SubSeq(text, m, end) \o SubSeq(text, end + 1, n) = SubSeq(text, m, n)
    BY <2>1, ConcatAdjacentSubSeq
  <2> QED BY <2>2 DEF m, n
<1> QED BY <1>2, <1>3, PagesAssumption DEF From

\* One page and what is read after it.
Joined(page, got) ==
  IF page = Panic THEN Panic
  ELSE IF ~page.has_more THEN page.content
  ELSE IF page.length = 0 THEN Endless
  ELSE LET rest == got[page.offset + page.length]
       IN  IF rest \in {Panic, Endless} THEN rest ELSE page.content \o rest

\* Pages that go on, and a function that reads on.
GoOn(N, page) ==
  \A from \in 0 .. N : page[from] /= Panic /\ page[from].has_more /\ page[from].length /= 0 =>
    page[from].offset + page[from].length \in from + 1 .. N
ReadsOn(N, page, got) == \A from \in 0 .. N : got[from] = Joined(page[from], got)

\* As long as pages go on, there is only one way to read them.
LEMMA OneReading ==
  ASSUME NEW N \in Nat, NEW page, NEW g, NEW h,
         GoOn(N, page), ReadsOn(N, page, g), ReadsOn(N, page, h)
  PROVE  \A from \in 0 .. N : g[from] = h[from]
<1> DEFINE bad == {d \in 0 .. N : g[N - d] /= h[N - d]}
<1>1. SUFFICES ASSUME bad /= {} PROVE FALSE
  <2>1. ASSUME NEW from \in 0 .. N, bad = {} PROVE g[from] = h[from]
    <3>1. N - from \in 0 .. N /\ N - (N - from) = from
      OBVIOUS
    <3> QED BY <2>1, <3>1
  <2> QED BY <2>1
<1>2. PICK m \in bad : \A d \in bad : m <= d
  <2>1. bad \in SUBSET Nat
    OBVIOUS
  <2> HIDE DEF bad
  <2> QED BY <1>1, <2>1, LeastNatural
<1> DEFINE from == N - m
           next == page[from].offset + page[from].length
<1>3. from \in 0 .. N /\ g[from] /= h[from] /\ m \in 0 .. N
  BY <1>2
<1>4. page[from] /= Panic /\ page[from].has_more /\ page[from].length /= 0 => g[next] = h[next]
  <2>1. SUFFICES ASSUME page[from] /= Panic, page[from].has_more, page[from].length /= 0
                 PROVE  g[next] = h[next]
    OBVIOUS
  <2>2. next \in from + 1 .. N
    BY <1>3, <2>1 DEF GoOn
  <2> HIDE DEF next
  <2>3. N - next \in 0 .. N /\ N - next < m /\ N - (N - next) = next
    BY <1>3, <2>2
  <2>4. N - next \notin bad
    BY <1>2, <1>3, <2>3
  <2> QED BY <2>3, <2>4
<1>5. g[from] = Joined(page[from], g) /\ h[from] = Joined(page[from], h)
  BY <1>3 DEF ReadsOn
<1> QED BY <1>3, <1>4, <1>5 DEF Joined

\* Reading on gives all there is.
LEMMA ReadingGivesAll ==
  ASSUME NEW text \in Seq(Bytes), NEW limit \in (Nat \ {0}) \cup {NoLimit}
  PROVE  \A from \in 0 .. Len(text) : ReadOn(Page, text, from, limit) = From(text, from)
<1> DEFINE N == Len(text)
           page == [from \in 0 .. N |-> Page(text, from, limit)]
           Is(f) == f = [from \in 0 .. N |->
                           LET pg == Page(text, from, limit)
                           IN  IF pg = Panic THEN Panic
                               ELSE IF ~pg.has_more THEN pg.content
                               ELSE IF pg.length = 0 THEN Endless
                               ELSE LET rest == f[pg.offset + pg.length]
                                    IN  IF rest \in {Panic, Endless} THEN rest
                                        ELSE pg.content \o rest]
           got == CHOOSE f : Is(f)
           all == [from \in 0 .. N |-> From(text, from)]
<1>1. N \in Nat
  BY LenProperties
<1>2. \A from \in 0 .. N : all[from] = Joined(page[from], all)
  <2>1. SUFFICES ASSUME NEW from \in 0 .. N PROVE all[from] = Joined(page[from], all)
    OBVIOUS
  <2> DEFINE p == Page(text, from, limit)
             end == p.offset + p.length
  <2>2. /\ p /= Panic /\ p.has_more \in BOOLEAN /\ end \in from .. N
        /\ p.has_more => end < N /\ p.length /= 0
        /\ ~p.has_more => end = N
        /\ p.content = SubSeq(text, from + 1, end)
    BY PageFacts
  <2>3. page[from] = p
    OBVIOUS
  <2> HIDE DEF page, p
  <2>4. CASE ~p.has_more
    BY <2>2, <2>3, <2>4, FromFacts DEF Joined
  <2>5. CASE p.has_more
    <3>1. end \in 0 .. N /\ all[end] = From(text, end)
      BY <1>1, <2>2
    <3>2. p.content \o From(text, end) = From(text, from) /\ From(text, end) \notin {Panic, Endless}
      <4> HIDE DEF end
      <4>1. SubSeq(text, from + 1, end) \o From(text, end) = From(text, from)
        BY <2>2, FromFacts
      <4>2. From(text, end) \notin {Panic, Endless}
        <5>1. end \in 0 .. Len(text) /\ Len(text) \in end .. Len(text)
          BY <1>1, <3>1
        <5> QED BY <5>1, FromFacts
      <4> QED BY <2>2, <4>1, <4>2
    <3> QED BY <2>2, <2>3, <2>5, <3>1, <3>2 DEF Joined
  <2> QED BY <2>2, <2>4, <2>5
<1>3. \A f : Is(f) <=> /\ f = [from \in 0 .. N |-> f[from]]
                       /\ \A from \in 0 .. N : f[from] = Joined(page[from], f)
  BY DEF Joined
<1>4. Is(all)
  BY <1>2, <1>3
<1> HIDE DEF Is
<1>5. Is(got)
  BY <1>4
<1>6. \A from \in 0 .. N : ReadOn(Page, text, from, limit) = got[from]
  BY DEF ReadOn, Is
<1> HIDE DEF got
<1>7. ReadsOn(N, page, got) /\ ReadsOn(N, page, all)
  BY <1>2, <1>3, <1>5 DEF ReadsOn
<1>8. GoOn(N, page)
  <2>1. SUFFICES ASSUME NEW from \in 0 .. N, page[from].has_more
                 PROVE  page[from].offset + page[from].length \in from + 1 .. N
    BY DEF GoOn
  <2>2. page[from] = Page(text, from, limit)
    OBVIOUS
  <2>3. limit \in Nat \ {0} /\ page[from].offset + page[from].length = from + limit
        /\ from + limit < N
    BY <2>1, <2>2, PageFacts
  <2> QED BY <1>1, <2>3
<1> HIDE DEF page, all, N
<1>9. \A from \in 0 .. N : got[from] = all[from]
  BY <1>1, <1>7, <1>8, OneReading
<1> QED BY <1>6, <1>9 DEF all, N

\* The offsets from which a stream can be read to its end: from each of them the page
\* does not panic, and goes on to another.
Readable(text, limit) ==
  LET fine(T) == \A i \in T : LET end == End(text, i, limit) IN
                   /\ OnBoundary(text, i) /\ OnBoundary(text, end)
                   /\ end < Len(text) => end \in T
  IN  {from \in 0 .. Len(text) : \E T \in SUBSET (0 .. Len(text)) : from \in T /\ fine(T)}

\* One can read to the end from an offset if its page does not panic, and if one can
\* from where it ends.
LEMMA ReadableFacts ==
  ASSUME NEW text \in Seq(Bytes), NEW limit \in (Nat \ {0}) \cup {NoLimit},
         NEW from \in 0 .. Len(text)
  PROVE  LET end == End(text, from, limit) IN
         from \in Readable(text, limit) <=>
           /\ OnBoundary(text, from) /\ OnBoundary(text, end)
           /\ end < Len(text) => end \in Readable(text, limit)
<1> DEFINE N == Len(text)
           to(i) == End(text, i, limit)
           fine(T) == \A i \in T : /\ OnBoundary(text, i) /\ OnBoundary(text, to(i))
                                   /\ to(i) < N => to(i) \in T
           S == Readable(text, limit)
<1>1. S = {i \in 0 .. N : \E T \in SUBSET (0 .. N) : i \in T /\ fine(T)}
  BY DEF Readable
<1>2. to(from) \in 0 .. N
  <2>1. Len(text) \in Nat
    BY LenProperties
  <2>2. to(from) \in from .. Len(text)
    BY PageFacts
  <2> HIDE DEF to
  <2> QED BY <2>1, <2>2
<1> HIDE DEF to, S, N
<1>3. fine(S)
  <2> SUFFICES ASSUME NEW i \in S
               PROVE  /\ OnBoundary(text, i) /\ OnBoundary(text, to(i))
                      /\ to(i) < N => to(i) \in S
    OBVIOUS
  <2>1. PICK T \in SUBSET (0 .. N) : i \in T /\ fine(T)
    BY <1>1
  <2>2. to(i) < N => to(i) \in T /\ to(i) \in 0 .. N
    BY <2>1
  <2> QED BY <1>1, <2>1, <2>2
<1>4. ASSUME OnBoundary(text, from), OnBoundary(text, to(from)), to(from) < N => to(from) \in S
      PROVE  from \in S
  <2> DEFINE T == S \cup {from}
  <2>1. fine(T)
    BY <1>3, <1>4
  <2>2. T \in SUBSET (0 .. N) /\ from \in T
    BY <1>1 DEF N
  <2> HIDE DEF fine, T
  <2>3. from \in 0 .. N
    BY DEF N
  <2> QED BY <1>1, <2>1, <2>2, <2>3
<1>5. from \in S => /\ OnBoundary(text, from) /\ OnBoundary(text, to(from))
                    /\ to(from) < N => to(from) \in S
  BY <1>3
<1> QED BY <1>4, <1>5 DEF to, S, N

\* Reading on in a stream gives all there is, or panics.
LEMMA StreamGivesAll ==
  ASSUME NEW text \in Seq(Bytes), NEW limit \in (Nat \ {0}) \cup {NoLimit}
  PROVE  \A from \in 0 .. Len(text) :
           ReadOn(StreamPage, text, from, limit) \in {From(text, from), Panic}
<1> DEFINE N == Len(text)
           S == Readable(text, limit)
           page == [from \in 0 .. N |-> StreamPage(text, from, limit)]
           Is(f) == f = [from \in 0 .. N |->
                           LET pg == StreamPage(text, from, limit)
                           IN  IF pg = Panic THEN Panic
                               ELSE IF ~pg.has_more THEN pg.content
                               ELSE IF pg.length = 0 THEN Endless
                               ELSE LET rest == f[pg.offset + pg.length]
                                    IN  IF rest \in {Panic, Endless} THEN rest
                                        ELSE pg.content \o rest]
           got == CHOOSE f : Is(f)
           all == [from \in 0 .. N |-> IF from \in S THEN From(text, from) ELSE Panic]
<1>1. N \in Nat
  BY LenProperties
<1>2. ASSUME NEW from \in 0 .. N
      PROVE  LET p == Page(text, from, limit)
                 end == End(text, from, limit)
                 whole == OnBoundary(text, from) /\ OnBoundary(text, end) IN
             /\ page[from] = IF whole THEN p ELSE Panic
             /\ p /= Panic /\ p.has_more \in BOOLEAN
             /\ p.offset + p.length = end /\ end \in from .. N
             /\ p.has_more => limit \in Nat \ {0} /\ end = from + limit /\ end < N /\ p.length /= 0
             /\ ~p.has_more => end = N
             /\ p.content = SubSeq(text, from + 1, end)
             /\ from \in S <=> whole /\ (end < N => end \in S)
  <2>1. Start(text, from) = from
    BY PageFacts
  <2>2. page[from] = IF OnBoundary(text, from) /\ OnBoundary(text, End(text, from, limit))
                       THEN Page(text, from, limit) ELSE Panic
    BY <2>1 DEF StreamPage
  <2>3. LET p == Page(text, from, limit)
            end == End(text, from, limit) IN
        /\ p /= Panic /\ p.has_more \in BOOLEAN
        /\ p.offset + p.length = end /\ end \in from .. N
        /\ p.has_more => limit \in Nat \ {0} /\ end = from + limit /\ end < N /\ p.length /= 0
        /\ ~p.has_more => end = N
        /\ p.content = SubSeq(text, from + 1, end)
    BY PageFacts
  <2>4. from \in S <=> /\ OnBoundary(text, from) /\ OnBoundary(text, End(text, from, limit))
                       /\ End(text, from, limit) < N => End(text, from, limit) \in S
    BY ReadableFacts
  <2> HIDE DEF page, S, N
  <2> QED BY <2>2, <2>3, <2>4
<1>3. \A f : Is(f) <=> /\ f = [from \in 0 .. N |-> f[from]]
                       /\ \A from \in 0 .. N : f[from] = Joined(page[from], f)
  BY DEF Joined
<1> HIDE DEF page
<1>4. ASSUME NEW from \in 0 .. N PROVE all[from] = Joined(page[from], all)
  <2> DEFINE p == Page(text, from, limit)
             end == End(text, from, limit)
             whole == OnBoundary(text, from) /\ OnBoundary(text, end)
  <2>1. /\ page[from] = IF whole THEN p ELSE Panic
        /\ p /= Panic /\ p.has_more \in BOOLEAN
        /\ p.offset + p.length = end /\ end \in from .. N
        /\ p.has_more => limit \in Nat \ {0} /\ end = from + limit /\ end < N /\ p.length /= 0
        /\ ~p.has_more => end = N
        /\ p.content = SubSeq(text, from + 1, end)
        /\ from \in S <=> whole /\ (end < N => end \in S)
    BY <1>2
  <2>2. /\ all[from] = IF from \in S THEN From(text, from) ELSE Panic
        /\ end < N => all[end] = IF end \in S THEN From(text, end) ELSE Panic
    <3>1. end \in 0 .. N
      BY <1>1, <2>1
    <3> QED BY <3>1
  <2> HIDE DEF p, end, whole, S, all
  <2>3. SubSeq(text, from + 1, end) \o From(text, end) = From(text, from)
    BY <2>1, FromFacts
  <2>4. From(text, end) \notin {Panic, Endless}
    <3>1. end \in 0 .. Len(text) /\ Len(text) \in end .. Len(text)
      BY <1>1, <2>1
    <3> QED BY <3>1, FromFacts
  <2>5. SubSeq(text, from + 1, Len(text)) = From(text, from)
    <3>1. Len(text) \in from .. Len(text)
      BY <1>1
    <3> QED BY <3>1, FromFacts
  <2>6. CASE ~whole
    BY <2>1, <2>2, <2>6 DEF Joined
  <2>7. CASE whole /\ ~p.has_more
    <3>1. page[from] = p /\ end = N /\ ~(end < N) /\ from \in S
      BY <1>1, <2>1, <2>7
    <3>2. Joined(page[from], all) = From(text, from)
      BY <2>1, <2>5, <2>7, <3>1 DEF Joined
    <3> QED BY <2>2, <3>1, <3>2
  <2>8. CASE whole /\ p.has_more
    <3>1. page[from] = p /\ end < N /\ (from \in S <=> end \in S)
      BY <2>1, <2>8
    <3>2. Joined(page[from], all) =
            IF all[end] \in {Panic, Endless} THEN all[end] ELSE p.content \o all[end]
      BY <2>1, <2>8, <3>1 DEF Joined
    <3> QED BY <2>1, <2>2, <2>3, <2>4, <3>1, <3>2
  <2> QED BY <2>1, <2>6, <2>7, <2>8
<1>5. Is(all)
  <2>1. all = [from \in 0 .. N |-> all[from]]
    OBVIOUS
  <2>2. \A from \in 0 .. N : all[from] = Joined(page[from], all)
    BY <1>4
  <2> HIDE DEF Is, all
  <2> QED BY <1>3, <2>1, <2>2
<1> HIDE DEF Is
<1>6. Is(got)
  BY <1>5
<1>7. \A from \in 0 .. N : ReadOn(StreamPage, text, from, limit) = got[from]
  BY DEF ReadOn, Is
<1> HIDE DEF got
<1>8. ReadsOn(N, page, got) /\ ReadsOn(N, page, all)
  BY <1>3, <1>4, <1>6 DEF ReadsOn
<1>9. GoOn(N, page)
  <2>1. SUFFICES ASSUME NEW from \in 0 .. N, page[from] /= Panic, page[from].has_more
                 PROVE  page[from].offset + page[from].length \in from + 1 .. N
    BY DEF GoOn
  <2>2. page[from] = Page(text, from, limit)
    BY <1>2, <2>1
  <2>3. limit \in Nat \ {0} /\ page[from].offset + page[from].length = from + limit
        /\ from + limit < N
    BY <2>1, <2>2, PageFacts
  <2> QED BY <1>1, <2>3
<1>10. \A from \in 0 .. N : all[from] \in {From(text, from), Panic}
  OBVIOUS
<1> HIDE DEF all, N
<1>11. \A from \in 0 .. N : got[from] = all[from]
  BY <1>1, <1>8, <1>9, OneReading
<1> QED BY <1>7, <1>10, <1>11 DEF N

\* A page of nothing: there is more of it but at the end.
LEMMA EmptyPage ==
  ASSUME NEW text \in Seq(Bytes), NEW from \in 0 .. Len(text)
  PROVE  LET page == Page(text, from, 0) IN
         /\ page /= Panic /\ page.length = 0 /\ Start(text, from) = from
         /\ page.has_more = (from < Len(text))
         /\ ~(from < Len(text)) => page.content = From(text, from)
<1> DEFINE page == Page(text, from, 0)
           content == SubSeq(text, from + 1, from)
<1>1. Len(text) \in Nat /\ from \in Nat /\ from <= Len(text)
  BY LenProperties
<1>2. Start(text, from) = from /\ End(text, from, 0) = from
  BY <1>1, PagesAssumption DEF Start, End, Least
<1>3. page = [offset |-> from, length |-> 0, has_more |-> from < Len(text), content |-> content]
  BY <1>1, <1>2 DEF Page
<1>4. content \in Seq(Bytes)
  BY <1>1, SubSeqProperties
<1> HIDE DEF content
<1>5. page \in [offset : Nat, length : Nat, has_more : BOOLEAN, content : Seq(Bytes)]
  <2> DEFINE more == from < Len(text)
  <2>1. page = [offset |-> from, length |-> 0, has_more |-> more, content |-> content]
    BY <1>3
  <2>2. more \in BOOLEAN
    OBVIOUS
  <2> HIDE DEF page, more
  <2> QED BY <1>1, <1>4, <2>1, <2>2
<1>6. page /= Panic
  BY <1>5, PagesAssumption
<1>7. page.length = 0 /\ page.has_more = (from < Len(text)) /\ page.content = content
  BY <1>3
<1>8. ~(from < Len(text)) => content = From(text, from)
  <2>1. ~(from < Len(text)) => from = Len(text)
    BY <1>1
  <2> QED BY <2>1 DEF content, From
<1> QED BY <1>2, <1>6, <1>7, <1>8

\* With a limit of 0 a reader of a file gets nothing for ever.
LEMMA NothingOfAFile ==
  ASSUME NEW text \in Seq(Bytes)
  PROVE  ReadOn(Page, text, 0, 0) = IF 0 < Len(text) THEN Endless ELSE From(text, 0)
<1> DEFINE N == Len(text)
           page == [from \in 0 .. N |-> Page(text, from, 0)]
           Is(f) == f = [from \in 0 .. N |->
                           LET pg == Page(text, from, 0)
                           IN  IF pg = Panic THEN Panic
                               ELSE IF ~pg.has_more THEN pg.content
                               ELSE IF pg.length = 0 THEN Endless
                               ELSE LET rest == f[pg.offset + pg.length]
                                    IN  IF rest \in {Panic, Endless} THEN rest
                                        ELSE pg.content \o rest]
           got == CHOOSE f : Is(f)
           all == [from \in 0 .. N |-> IF from < N THEN Endless ELSE From(text, from)]
<1>1. N \in Nat
  BY LenProperties
<1>2. \A f : \A from \in 0 .. N : Joined(page[from], f) = all[from]
  BY EmptyPage DEF Joined
<1>3. \A f : Is(f) <=> /\ f = [from \in 0 .. N |-> f[from]]
                       /\ \A from \in 0 .. N : f[from] = Joined(page[from], f)
  BY DEF Joined
<1>4. Is(all)
  BY <1>2, <1>3
<1> HIDE DEF Is
<1>5. Is(got)
  BY <1>4
<1>6. ReadOn(Page, text, 0, 0) = got[0]
  BY DEF ReadOn, Is
<1> HIDE DEF got
<1>7. 0 \in 0 .. N
  BY <1>1
<1>8. got[0] = all[0]
  <2> HIDE DEF page, all
  <2> QED BY <1>2, <1>3, <1>5, <1>7
<1> QED BY <1>6, <1>7, <1>8

\* A reader of a stream gets the same, or a panic.
LEMMA NothingOfAStream ==
  ASSUME NEW text \in Seq(Bytes)
  PROVE  ReadOn(StreamPage, text, 0, 0) \in {IF 0 < Len(text) THEN Endless ELSE From(text, 0), Panic}
<1> DEFINE N == Len(text)
           page == [from \in 0 .. N |-> StreamPage(text, from, 0)]
           Is(f) == f = [from \in 0 .. N |->
                           LET pg == StreamPage(text, from, 0)
                           IN  IF pg = Panic THEN Panic
                               ELSE IF ~pg.has_more THEN pg.content
                               ELSE IF pg.length = 0 THEN Endless
                               ELSE LET rest == f[pg.offset + pg.length]
                                    IN  IF rest \in {Panic, Endless} THEN rest
                                        ELSE pg.content \o rest]
           got == CHOOSE f : Is(f)
           all == [from \in 0 .. N |-> IF page[from] = Panic THEN Panic
                                       ELSE IF from < N THEN Endless ELSE From(text, from)]
<1>1. N \in Nat
  BY LenProperties
<1>2. \A from \in 0 .. N : page[from] \in {Page(text, from, 0), Panic}
  BY DEF StreamPage
<1>3. \A f : Is(f) <=> /\ f = [from \in 0 .. N |-> f[from]]
                       /\ \A from \in 0 .. N : f[from] = Joined(page[from], f)
  BY DEF Joined
<1> HIDE DEF page
<1>4. \A f : \A from \in 0 .. N : Joined(page[from], f) = all[from]
  BY <1>2, EmptyPage DEF Joined
<1>5. Is(all)
  <2>1. all = [from \in 0 .. N |-> all[from]]
    OBVIOUS
  <2>2. \A from \in 0 .. N : all[from] = Joined(page[from], all)
    BY <1>4
  <2> HIDE DEF Is, all
  <2> QED BY <1>3, <2>1, <2>2
<1> HIDE DEF Is
<1>6. Is(got)
  BY <1>5
<1>7. ReadOn(StreamPage, text, 0, 0) = got[0]
  BY DEF ReadOn, Is
<1> HIDE DEF got
<1>8. 0 \in 0 .. N
  BY <1>1
<1>9. all[0] \in {IF 0 < N THEN Endless ELSE From(text, 0), Panic}
  BY <1>8
<1> HIDE DEF all
<1>10. got[0] = all[0]
  BY <1>3, <1>4, <1>6, <1>8
<1> QED BY <1>7, <1>9, <1>10

\* Reading in pieces from the start gives the text: of a file always, of a stream
\* unless a piece ends inside of a character.
LEMMA PiecesAlwaysJoin == PiecesJoin
<1> SUFFICES ASSUME NEW text \in Texts, NEW limit \in Limits
             PROVE  LET all == IF limit = 0 /\ text /= <<>> THEN Endless ELSE ReadWhole(text)
                    IN  /\ ReadOn(Page, text, 0, limit) = all
                        /\ ReadOn(StreamPage, text, 0, limit) \in {all, Panic}
  BY DEF PiecesJoin
<1>1. text \in Seq(Bytes) /\ limit \in Nat \cup {NoLimit} /\ 0 \in 0 .. Len(text)
  BY TextFacts, PagesAssumption
<1>2. ReadWhole(text) = From(text, 0)
  <2>1. End(text, 0, NoLimit) = Len(text)
    BY DEF End
  <2>2. Page(text, 0, NoLimit).content = SubSeq(text, Start(text, 0) + 1, Len(text))
    BY <2>1 DEF Page
  <2>3. Start(text, 0) = 0
    BY <1>1, TextFacts DEF Start, Least
  <2> QED BY <2>2, <2>3 DEF ReadWhole, From
<1>3. CASE limit /= 0
  <2>1. limit \in (Nat \ {0}) \cup {NoLimit}
    BY <1>1, <1>3
  <2> QED BY <1>1, <1>2, <1>3, <2>1, ReadingGivesAll, StreamGivesAll
<1>4. CASE limit = 0
  <2>1. Len(text) \in Nat /\ (0 < Len(text) <=> text /= <<>>)
    BY <1>1, LenProperties, EmptySeq
  <2>2. ReadOn(Page, text, 0, 0) = IF 0 < Len(text) THEN Endless ELSE From(text, 0)
    BY <1>1, NothingOfAFile
  <2>3. ReadOn(StreamPage, text, 0, 0) \in {ReadOn(Page, text, 0, 0), Panic}
    BY <1>1, <2>2, NothingOfAStream
  <2> QED BY <1>2, <1>4, <2>1, <2>2, <2>3
<1> QED BY <1>3, <1>4

-----------------------------------------------------------------------------
(***************************************************************************)
(* The lines of a text.                                                    *)
(***************************************************************************)

\* The first n bytes of a text are cut into lines: line k is from at[k] to before
\* at[k + 1], has no line feed but at its end, and all but the last one have it there.
Split(text, n, lines, at) ==
  LET L == Len(lines) IN
  /\ lines \in Seq(Seq(Bytes)) /\ at \in [1 .. L + 1 -> 1 .. n + 1]
  /\ at[1] = 1 /\ at[L + 1] = n + 1
  /\ \A k \in 1 .. L : /\ at[k] < at[k + 1]
                       /\ lines[k] = SubSeq(text, at[k], at[k + 1] - 1)
  /\ \A k \in 1 .. L : \A j \in at[k] .. at[k + 1] - 2 : text[j] /= LF
  /\ \A k \in 1 .. L : k < L => text[at[k + 1] - 1] = LF

\* The last byte of a line that is not empty.
LEMMA LastByte ==
  ASSUME NEW text \in Seq(Bytes), NEW m \in 1 .. Len(text), NEW n \in m .. Len(text)
  PROVE  /\ SubSeq(text, m, n) \in Seq(Bytes) /\ Len(SubSeq(text, m, n)) = n - m + 1
         /\ Last(SubSeq(text, m, n)) = text[n]
<1>1. Len(text) \in Nat /\ m \in Nat \ {0} /\ n \in Nat
  BY LenProperties
<1>2. m \in 1 .. Len(text) + 1 /\ n \in m - 1 .. Len(text)
  BY <1>1
<1>3. /\ SubSeq(text, m, n) \in Seq(Bytes) /\ Len(SubSeq(text, m, n)) = n - m + 1
      /\ \A i \in 1 .. n - m + 1 : SubSeq(text, m, n)[i] = text[m + i - 1]
  BY <1>1, <1>2, SubSeqProperties
<1>4. n - m + 1 \in 1 .. n - m + 1 /\ m + (n - m + 1) - 1 = n
  BY <1>1
<1> QED BY <1>3, <1>4 DEF Last

\* A byte more at the end of a piece of a text.
LEMMA ByteMore ==
  ASSUME NEW text \in Seq(Bytes), NEW m \in 1 .. Len(text), NEW n \in m .. Len(text)
  PROVE  SubSeq(text, m, n) = Append(SubSeq(text, m, n - 1), text[n])
<1>1. SubSeq(text, m, n) = SubSeq(text, m, n - 1) \o <<text[n]>>
  BY SubSeqRecursiveSecond
<1>2. Len(text) \in Nat /\ m \in Nat \ {0} /\ n \in Nat
  BY LenProperties
<1>3. \A i \in m .. n - 1 : text[i] \in Bytes
  BY <1>2, ElementOfSeq
<1>4. SubSeq(text, m, n - 1) \in Seq(Bytes) /\ text[n] \in Bytes
  BY <1>2, <1>3, SubSeqProperties, ElementOfSeq
<1> QED BY <1>1, <1>4, AppendIsConcat

\* One byte more, after a line feed or at the start: a line more.
LEMMA LineMore ==
  ASSUME NEW text \in Seq(Bytes), NEW n \in 0 .. Len(text) - 1, NEW lines, NEW at,
         Split(text, n, lines, at), lines = <<>> \/ Last(Last(lines)) = LF
  PROVE  \E to : Split(text, n + 1, Longer(lines, text[n + 1]), to)
<1> DEFINE L == Len(lines)
           more == Append(lines, <<text[n + 1]>>)
           to == [k \in 1 .. L + 2 |-> IF k <= L + 1 THEN at[k] ELSE n + 2]
<1>1. Len(text) \in Nat /\ n \in Nat /\ n + 1 \in 1 .. Len(text) /\ text[n + 1] \in Bytes
  BY LenProperties, ElementOfSeq
<1>2. /\ lines \in Seq(Seq(Bytes)) /\ at \in [1 .. L + 1 -> 1 .. n + 1]
      /\ at[1] = 1 /\ at[L + 1] = n + 1
      /\ \A k \in 1 .. L : at[k] < at[k + 1] /\ lines[k] = SubSeq(text, at[k], at[k + 1] - 1)
      /\ \A k \in 1 .. L : \A j \in at[k] .. at[k + 1] - 2 : text[j] /= LF
      /\ \A k \in 1 .. L : k < L => text[at[k + 1] - 1] = LF
  BY DEF Split
<1>3. L \in Nat
  BY <1>2, LenProperties
<1>4. Longer(lines, text[n + 1]) = more
  BY DEF Longer
<1>5. <<text[n + 1]>> \in Seq(Bytes) /\ <<text[n + 1]>> = SubSeq(text, n + 1, n + 1)
  <2>1. SubSeq(text, n + 1, n + 1) = Append(SubSeq(text, n + 1, n + 1 - 1), text[n + 1])
    BY <1>1, ByteMore
  <2>2. SubSeq(text, n + 1, n + 1 - 1) = <<>>
    BY <1>1, SubSeqEmpty
  <2>3. <<text[n + 1]>> \in Seq(Bytes)
    BY <1>1
  <2> QED BY <2>1, <2>2, <2>3
<1>6. /\ more \in Seq(Seq(Bytes)) /\ Len(more) = L + 1 /\ more[L + 1] = <<text[n + 1]>>
      /\ \A k \in 1 .. L : more[k] = lines[k]
  BY <1>2, <1>5, AppendProperties
<1>7. L > 0 => text[n] = LF
  <2> SUFFICES ASSUME L > 0 PROVE text[n] = LF
    OBVIOUS
  <2>1. L \in 1 .. L /\ lines /= <<>>
    BY <1>3
  <2>2. lines[L] = SubSeq(text, at[L], n) /\ at[L] < n + 1 /\ at[L] \in 1 .. n + 1
    BY <1>1, <1>2, <1>3, <2>1
  <2>3. at[L] \in 1 .. Len(text) /\ n \in at[L] .. Len(text)
    BY <1>1, <2>2
  <2>4. Last(lines[L]) = text[n]
    BY <2>2, <2>3, LastByte
  <2> QED BY <2>1, <2>4 DEF Last
<1> HIDE DEF more
<1>8. /\ to \in [1 .. L + 2 -> 1 .. n + 2] /\ to[L + 2] = n + 2
      /\ \A k \in 1 .. L + 1 : to[k] = at[k]
  <2>1. \A k \in 1 .. L + 2 : k <= L + 1 => k \in 1 .. L + 1
    BY <1>3
  <2>2. ASSUME NEW k \in 1 .. L + 1 PROVE at[k] \in 1 .. n + 2
    <3>1. at[k] \in 1 .. n + 1
      BY <1>2
    <3> QED BY <1>1, <3>1
  <2> QED BY <1>1, <1>3, <2>1, <2>2
<1> HIDE DEF to
<1>9. \A k \in 1 .. L : to[k] = at[k] /\ to[k + 1] = at[k + 1]
  BY <1>3, <1>8
<1>10. \A k \in 1 .. L + 1 : k \in 1 .. L \/ k = L + 1
  BY <1>3
<1>11. to[L + 1] = n + 1 /\ to[L + 2] = n + 2 /\ to[1] = 1
  <2>1. L + 1 \in 1 .. L + 1 /\ 1 \in 1 .. L + 1
    BY <1>3
  <2>2. to[L + 1] = at[L + 1] /\ to[1] = at[1] /\ to[L + 2] = n + 2
    BY <1>8, <2>1
  <2> HIDE DEF L
  <2> QED BY <1>2, <2>2
<1>12. \A k \in 1 .. L + 1 : to[k] < to[k + 1] /\ more[k] = SubSeq(text, to[k], to[k + 1] - 1)
  <2>1. \A k \in 1 .. L : to[k] < to[k + 1] /\ more[k] = SubSeq(text, to[k], to[k + 1] - 1)
    BY <1>2, <1>6, <1>9
  <2>2. to[L + 1] < to[L + 1 + 1] /\ more[L + 1] = SubSeq(text, to[L + 1], to[L + 1 + 1] - 1)
    <3>1. L + 1 + 1 = L + 2 /\ n + 2 - 1 = n + 1 /\ n + 1 < n + 2
      BY <1>1, <1>3
    <3> HIDE DEF L
    <3>2. to[L + 1] = n + 1 /\ to[L + 1 + 1] = n + 2 /\ to[L + 1 + 1] - 1 = n + 1
      BY <1>11, <3>1
    <3>3. more[L + 1] = SubSeq(text, n + 1, n + 1)
      BY <1>5, <1>6
    <3> QED BY <3>1, <3>2, <3>3
  <2> QED BY <1>10, <2>1, <2>2
<1>13. \A k \in 1 .. L + 1 : \A j \in to[k] .. to[k + 1] - 2 : text[j] /= LF
  <2>1. \A k \in 1 .. L : \A j \in to[k] .. to[k + 1] - 2 : text[j] /= LF
    BY <1>2, <1>9
  <2>2. \A j \in to[L + 1] .. to[L + 1 + 1] - 2 : text[j] /= LF
    <3>1. L + 1 + 1 = L + 2
      BY <1>3
    <3>2. to[L + 1] = n + 1 /\ to[L + 1 + 1] = n + 2
      BY <1>11, <3>1
    <3> QED BY <1>1, <3>2
  <2> QED BY <1>10, <2>1, <2>2
<1>14. \A k \in 1 .. L + 1 : k < L + 1 => text[to[k + 1] - 1] = LF
  <2> SUFFICES ASSUME NEW k \in 1 .. L + 1, k < L + 1 PROVE text[to[k + 1] - 1] = LF
    OBVIOUS
  <2>0. k \in 1 .. L
    BY <1>3
  <2>1. CASE k < L
    BY <1>2, <1>9, <2>0, <2>1
  <2>2. CASE k = L
    <3>1. to[k + 1] - 1 = n /\ L > 0
      BY <1>1, <1>3, <1>11, <2>2
    <3> QED BY <1>7, <3>1
  <2> QED BY <1>3, <2>0, <2>1, <2>2
<1>15. to \in [1 .. L + 1 + 1 -> 1 .. n + 1 + 1] /\ to[L + 1 + 1] = n + 1 + 1
  <2>1. L + 1 + 1 = L + 2 /\ n + 1 + 1 = n + 2
    BY <1>1, <1>3
  <2> QED BY <1>8, <2>1
<1> HIDE DEF L
<1>16. Split(text, n + 1, more, to)
  BY <1>6, <1>11, <1>12, <1>13, <1>14, <1>15 DEF Split
<1> QED BY <1>4, <1>16

\* One byte more, within a line: the last line is longer.
LEMMA LineGrows ==
  ASSUME NEW text \in Seq(Bytes), NEW n \in 0 .. Len(text) - 1, NEW lines, NEW at,
         Split(text, n, lines, at), lines /= <<>>, Last(Last(lines)) /= LF
  PROVE  \E to : Split(text, n + 1, Longer(lines, text[n + 1]), to)
<1> DEFINE L == Len(lines)
           more == Append(Front(lines), Append(Last(lines), text[n + 1]))
           to == [at EXCEPT ![L + 1] = n + 2]
<1>1. Len(text) \in Nat /\ n \in Nat /\ n + 1 \in 1 .. Len(text) /\ text[n + 1] \in Bytes
  BY LenProperties, ElementOfSeq
<1>2. /\ lines \in Seq(Seq(Bytes)) /\ at \in [1 .. L + 1 -> 1 .. n + 1]
      /\ at[1] = 1 /\ at[L + 1] = n + 1
      /\ \A k \in 1 .. L : at[k] < at[k + 1] /\ lines[k] = SubSeq(text, at[k], at[k + 1] - 1)
      /\ \A k \in 1 .. L : \A j \in at[k] .. at[k + 1] - 2 : text[j] /= LF
      /\ \A k \in 1 .. L : k < L => text[at[k + 1] - 1] = LF
  BY DEF Split
<1>3. L \in Nat /\ L > 0 /\ L \in 1 .. L
  BY <1>2, LenProperties, EmptySeq
<1>4. Longer(lines, text[n + 1]) = more
  BY DEF Longer
<1>5. /\ lines[L] = SubSeq(text, at[L], n) /\ Last(lines) = lines[L]
      /\ at[L] \in 1 .. Len(text) /\ n \in at[L] .. Len(text)
      /\ n + 1 \in at[L] .. Len(text)
  <2>1. lines[L] = SubSeq(text, at[L], n) /\ at[L] < n + 1 /\ at[L] \in 1 .. n + 1
    BY <1>1, <1>2, <1>3
  <2> QED BY <1>1, <2>1 DEF Last
<1>6. text[n] /= LF
  <2>1. Last(lines[L]) = text[n]
    BY <1>5, LastByte
  <2> QED BY <1>5, <2>1
<1>7. Append(Last(lines), text[n + 1]) = SubSeq(text, at[L], n + 1)
  <2>1. SubSeq(text, at[L], n + 1) = Append(SubSeq(text, at[L], n + 1 - 1), text[n + 1])
    BY <1>5, ByteMore
  <2>2. n + 1 - 1 = n
    BY <1>1
  <2> QED BY <1>5, <2>1, <2>2
<1>8. SubSeq(text, at[L], n + 1) \in Seq(Bytes)
  BY <1>5, LastByte
<1>9. /\ Front(lines) \in Seq(Seq(Bytes)) /\ Len(Front(lines)) = L - 1
      /\ \A k \in 1 .. L - 1 : Front(lines)[k] = lines[k]
  <2>1. \A i \in 1 .. L - 1 : lines[i] \in Seq(Bytes)
    BY <1>2, <1>3, ElementOfSeq
  <2>2. /\ SubSeq(lines, 1, L - 1) \in Seq(Seq(Bytes))
        /\ Len(SubSeq(lines, 1, L - 1)) = IF 1 <= L - 1 THEN L - 1 - 1 + 1 ELSE 0
        /\ \A i \in 1 .. L - 1 - 1 + 1 : SubSeq(lines, 1, L - 1)[i] = lines[1 + i - 1]
    BY <1>3, <2>1, SubSeqProperties
  <2>3. Front(lines) = SubSeq(lines, 1, L - 1)
    BY DEF Front
  <2> HIDE DEF L
  <2> QED BY <1>3, <2>2, <2>3
<1>10. /\ more \in Seq(Seq(Bytes)) /\ Len(more) = L /\ more[L] = SubSeq(text, at[L], n + 1)
       /\ \A k \in 1 .. L - 1 : more[k] = lines[k]
  <2> DEFINE last == SubSeq(text, at[L], n + 1)
             front == Front(lines)
  <2>1. more = Append(front, last)
    BY <1>7
  <2>2. last \in Seq(Bytes) /\ front \in Seq(Seq(Bytes)) /\ Len(front) = L - 1
        /\ \A k \in 1 .. L - 1 : front[k] = lines[k]
    BY <1>8, <1>9
  <2> HIDE DEF more, last, front, L
  <2>3. /\ Append(front, last) \in Seq(Seq(Bytes)) /\ Len(Append(front, last)) = Len(front) + 1
        /\ Append(front, last)[Len(front) + 1] = last
        /\ \A k \in 1 .. Len(front) : Append(front, last)[k] = front[k]
    BY <2>2, AppendProperties
  <2>4. Len(front) + 1 = L
    BY <1>3, <2>2
  <2>5. more \in Seq(Seq(Bytes)) /\ Len(more) = L /\ more[L] = last
    BY <2>1, <2>3, <2>4
  <2>6. \A k \in 1 .. L - 1 : more[k] = lines[k]
    BY <2>1, <2>2, <2>3
  <2> QED BY <2>5, <2>6 DEF last
<1> HIDE DEF more
<1>11. /\ to \in [1 .. L + 1 -> 1 .. n + 1 + 1] /\ to[L + 1] = n + 1 + 1
       /\ \A k \in 1 .. L : to[k] = at[k]
  <2>1. ASSUME NEW k \in 1 .. L + 1 PROVE at[k] \in 1 .. n + 1 + 1
    <3>1. at[k] \in 1 .. n + 1
      BY <1>2
    <3> QED BY <1>1, <3>1
  <2>2. L + 1 \in 1 .. L + 1 /\ n + 2 = n + 1 + 1 /\ n + 2 \in 1 .. n + 1 + 1
    BY <1>1, <1>3
  <2>3. \A k \in 1 .. L : k \in 1 .. L + 1 /\ k /= L + 1
    BY <1>3
  <2> QED BY <1>2, <2>1, <2>2, <2>3
<1> HIDE DEF to
<1>12. to[1] = 1
  BY <1>2, <1>3, <1>11
<1>13. \A k \in 1 .. L : k < L => k \in 1 .. L - 1 /\ to[k] = at[k] /\ to[k + 1] = at[k + 1]
  <2>1. \A k \in 1 .. L : k < L => k \in 1 .. L - 1 /\ k + 1 \in 1 .. L
    BY <1>3
  <2> QED BY <1>11, <2>1
<1>14. \A k \in 1 .. L : k < L \/ k = L
  BY <1>3
<1>15. \A k \in 1 .. L : to[k] < to[k + 1] /\ more[k] = SubSeq(text, to[k], to[k + 1] - 1)
  <2>1. \A k \in 1 .. L : k < L =>
          to[k] < to[k + 1] /\ more[k] = SubSeq(text, to[k], to[k + 1] - 1)
    BY <1>2, <1>10, <1>13
  <2>2. to[L] < to[L + 1] /\ more[L] = SubSeq(text, to[L], to[L + 1] - 1)
    <3>1. to[L] = at[L] /\ to[L + 1] - 1 = n + 1 /\ at[L] < to[L + 1]
      BY <1>1, <1>3, <1>5, <1>11
    <3> QED BY <1>10, <3>1
  <2> QED BY <1>14, <2>1, <2>2
<1>16. \A k \in 1 .. L : \A j \in to[k] .. to[k + 1] - 2 : text[j] /= LF
  <2>1. \A k \in 1 .. L : k < L => \A j \in to[k] .. to[k + 1] - 2 : text[j] /= LF
    BY <1>2, <1>13
  <2>2. \A j \in to[L] .. to[L + 1] - 2 : text[j] /= LF
    <3>1. to[L] = at[L] /\ to[L + 1] - 2 = n /\ at[L + 1] - 2 = n - 1
      BY <1>1, <1>2, <1>3, <1>11
    <3>2. \A j \in at[L] .. n - 1 : text[j] /= LF
      BY <1>2, <1>3, <3>1
    <3>3. \A j \in at[L] .. n : j \in at[L] .. n - 1 \/ j = n
      BY <1>1, <1>5
    <3> QED BY <1>6, <3>1, <3>2, <3>3
  <2> QED BY <1>14, <2>1, <2>2
<1>17. \A k \in 1 .. L : k < L => text[to[k + 1] - 1] = LF
  BY <1>2, <1>13
<1> HIDE DEF L
<1>18. Split(text, n + 1, more, to)
  BY <1>10, <1>11, <1>12, <1>15, <1>16, <1>17 DEF Split
<1> QED BY <1>4, <1>18

\* The lines of a text are a cut of the whole text.
LEMMA RawLinesSplit ==
  ASSUME NEW text \in Seq(Bytes)
  PROVE  \E at : Split(text, Len(text), RawLines(text), at)
<1> DEFINE N == Len(text)
           Line == Seq(Bytes)
           X == Seq(Line)
           step == [n \in 1 .. N |-> [lines \in X |-> Longer(lines, text[n])]]
           Is(f) == f = [n \in 0 .. N |-> IF n = 0 THEN <<>> ELSE Longer(f[n - 1], text[n])]
           read == CHOOSE f : Is(f)
<1>1. N \in Nat /\ \A n \in 1 .. N : text[n] \in Bytes /\ n - 1 \in 0 .. N
  BY LenProperties, ElementOfSeq
<1>0. \A lines \in X, raw \in Line : Append(lines, raw) \in X
  <2> HIDE DEF Line
  <2> QED BY AppendProperties
<1>2. ASSUME NEW n \in 1 .. N, NEW lines \in X
      PROVE  step[n][lines] = Longer(lines, text[n]) /\ step[n][lines] \in X
  <2>1. step[n][lines] = Longer(lines, text[n])
    OBVIOUS
  <2>2. CASE lines = <<>> \/ Last(Last(lines)) = LF
    <3>1. Longer(lines, text[n]) = Append(lines, <<text[n]>>) /\ <<text[n]>> \in Seq(Bytes)
      BY <1>1, <2>2 DEF Longer
    <3> QED BY <1>0, <2>1, <3>1
  <2>3. CASE ~(lines = <<>> \/ Last(Last(lines)) = LF)
    <3>1. Longer(lines, text[n]) = Append(Front(lines), Append(Last(lines), text[n]))
      BY <2>3 DEF Longer
    <3>2. Len(lines) \in 1 .. Len(lines) /\ \A i \in 1 .. Len(lines) : lines[i] \in Seq(Bytes)
      BY <2>3, LenProperties, EmptySeq, ElementOfSeq
    <3>3. Last(lines) \in Seq(Bytes) /\ Front(lines) \in X
      <4>1. \A i \in 1 .. Len(lines) - 1 : lines[i] \in Seq(Bytes)
        BY <3>2
      <4>2. 1 \in Int /\ Len(lines) - 1 \in Int
        BY <3>2
      <4>3. SubSeq(lines, 1, Len(lines) - 1) \in Seq(Seq(Bytes))
        BY <4>1, <4>2, SubSeqProperties
      <4> QED BY <3>2, <4>3 DEF Last, Front
    <3>4. Append(Last(lines), text[n]) \in Seq(Bytes)
      BY <1>1, <3>3, AppendProperties
    <3> QED BY <1>0, <2>1, <3>1, <3>3, <3>4
  <2> QED BY <2>2, <2>3
<1>3. <<>> \in X
  OBVIOUS
<1> HIDE DEF step, X, N, Line
<1>4. PICK f : Rounds(X, <<>>, step, N, f)
  BY <1>1, <1>2, <1>3, RoundsExist
<1>5. Is(f)
  <2>1. /\ f \in [0 .. N -> X] /\ f[0] = <<>> /\ \A n \in 1 .. N : f[n] = step[n][f[n - 1]]
    BY <1>4 DEF Rounds
  <2>2. ASSUME NEW n \in 1 .. N PROVE f[n] = Longer(f[n - 1], text[n])
    <3>1. n - 1 \in 0 .. N /\ f[n - 1] \in X
      BY <1>1, <2>1
    <3> QED BY <1>2, <2>1, <3>1
  <2>3. \A n \in 0 .. N : n = 0 \/ n \in 1 .. N
    BY <1>1
  <2>4. \A n \in 0 .. N : f[n] = IF n = 0 THEN <<>> ELSE Longer(f[n - 1], text[n])
    BY <2>1, <2>2, <2>3
  <2> QED BY <2>1, <2>4
<1>6. Is(read)
  <2> HIDE DEF Is
  <2> QED BY <1>5
<1>7. RawLines(text) = read[N]
  BY DEF RawLines, N
<1> HIDE DEF read
<1>8. read[0] = <<>> /\ \A n \in 1 .. N : read[n] = Longer(read[n - 1], text[n])
  <2>1. \A n \in 1 .. N : n \in 0 .. N /\ n /= 0
    OBVIOUS
  <2>2. 0 \in 0 .. N
    BY <1>1
  <2> QED BY <1>6, <2>1, <2>2
<1> HIDE DEF Is
<1> DEFINE good == {n \in 0 .. N : \E at : Split(text, n, read[n], at)}
<1>9. 0 \in good
  <2> DEFINE at == [k \in 1 .. 1 |-> 1]
  <2>1. at \in [1 .. 0 + 1 -> 1 .. 0 + 1] /\ at[1] = 1 /\ at[0 + 1] = 0 + 1
    OBVIOUS
  <2> HIDE DEF at
  <2>2. Len(read[0]) = 0 /\ read[0] \in Seq(Seq(Bytes))
    BY <1>8
  <2>3. Split(text, 0, read[0], at)
    BY <2>1, <2>2 DEF Split
  <2> QED BY <1>1, <2>3
<1>10. ASSUME NEW n \in 1 .. N, n - 1 \in good PROVE n \in good
  <2>1. PICK at : Split(text, n - 1, read[n - 1], at)
    BY <1>10
  <2>2. n - 1 \in 0 .. Len(text) - 1 /\ n - 1 + 1 = n /\ n \in 0 .. N
    BY <1>1 DEF N
  <2>3. \E to : Split(text, n - 1 + 1, Longer(read[n - 1], text[n - 1 + 1]), to)
    BY <2>1, <2>2, LineMore, LineGrows
  <2>4. \E to : Split(text, n, read[n], to)
    BY <1>8, <2>2, <2>3
  <2> QED BY <2>2, <2>4
<1>11. N \in good
  <2> HIDE DEF good
  <2>1. \A n \in 0 .. N : n \in good
    BY <1>1, <1>9, <1>10, RoundsReach
  <2> QED BY <1>1, <2>1
<1> QED BY <1>7, <1>11 DEF N

\* What a cut of the whole text says of its lines, as LinesWith finds them.
LEMMA SplitFacts ==
  ASSUME NEW text \in Seq(Bytes), NEW lines, NEW at, Split(text, Len(text), lines, at)
  PROVE  /\ Len(lines) \in Nat
         /\ LineStarts(text) = {at[k] : k \in 1 .. Len(lines)}
         /\ \A k \in 1 .. Len(lines) :
              /\ at[k] \in 1 .. Len(text) /\ at[k + 1] - 1 \in at[k] .. Len(text)
              /\ lines[k] = SubSeq(text, at[k], at[k + 1] - 1)
              /\ LineEnd(text, at[k]) = at[k + 1] - 1
              /\ \A i \in 1 .. Len(lines) : i < k => at[i] < at[k]
<1> DEFINE L == Len(lines)
           N == Len(text)
<1>1. N \in Nat
  BY LenProperties
<1>2. /\ lines \in Seq(Seq(Bytes)) /\ at \in [1 .. L + 1 -> 1 .. N + 1]
      /\ at[1] = 1 /\ at[L + 1] = N + 1
      /\ \A k \in 1 .. L : at[k] < at[k + 1] /\ lines[k] = SubSeq(text, at[k], at[k + 1] - 1)
      /\ \A k \in 1 .. L : \A j \in at[k] .. at[k + 1] - 2 : text[j] /= LF
      /\ \A k \in 1 .. L : k < L => text[at[k + 1] - 1] = LF
  BY DEF Split
<1>3. L \in Nat
  BY <1>2, LenProperties
<1> HIDE DEF L, N
<1>4. \A k \in 1 .. L + 1 : at[k] \in 1 .. N + 1
  BY <1>2
<1>5. ASSUME NEW k \in 1 .. L
      PROVE  at[k] \in 1 .. N /\ at[k + 1] - 1 \in at[k] .. N /\ at[k + 1] \in 1 .. N + 1
  <2>1. k \in 1 .. L + 1 /\ k + 1 \in 1 .. L + 1
    BY <1>3
  <2>2. at[k] \in 1 .. N + 1 /\ at[k + 1] \in 1 .. N + 1 /\ at[k] < at[k + 1]
    BY <1>2, <1>4, <2>1
  <2> QED BY <1>1, <2>2
<1> DEFINE below == {n \in 0 .. L : \A i \in 1 .. n : at[i] < at[n + 1]}
<1>6. \A n \in 0 .. L : n \in below
  <2>1. 0 \in below
    BY <1>3
  <2>2. ASSUME NEW n \in 1 .. L, n - 1 \in below PROVE n \in below
    <3>1. n - 1 + 1 = n /\ n \in 0 .. L
      BY <1>3
    <3>2. \A i \in 1 .. n - 1 : at[i] < at[n]
      BY <2>2, <3>1
    <3>3. at[n] < at[n + 1] /\ at[n] \in Nat /\ at[n + 1] \in Nat
      BY <1>1, <1>2, <1>5
    <3>4. ASSUME NEW i \in 1 .. n PROVE at[i] < at[n + 1]
      <4>1. CASE i = n
        BY <3>3, <4>1
      <4>2. CASE i /= n
        <5>1. i \in 1 .. n - 1 /\ i \in 1 .. L
          BY <1>3, <4>2
        <5>2. at[i] < at[n] /\ at[i] \in Nat
          BY <1>1, <1>5, <3>2, <5>1
        <5> QED BY <3>3, <5>2
      <4> QED BY <4>1, <4>2
    <3> QED BY <3>1, <3>4
  <2> HIDE DEF below
  <2> QED BY <1>3, <2>1, <2>2, RoundsReach
<1>7. ASSUME NEW k \in 1 .. L, NEW i \in 1 .. L, i < k PROVE at[i] < at[k]
  <2>1. k - 1 \in 0 .. L /\ i \in 1 .. k - 1 /\ k - 1 + 1 = k
    BY <1>3, <1>7
  <2> QED BY <1>6, <2>1
<1> HIDE DEF below
<1>8. ASSUME NEW k \in 1 .. L PROVE at[k] \in LineStarts(text)
  <2>1. CASE k = 1
    BY <1>2, <1>5, <2>1 DEF LineStarts, N
  <2>2. CASE k /= 1
    <3>1. k - 1 \in 1 .. L /\ k - 1 < L /\ k - 1 + 1 = k
      BY <1>3, <2>2
    <3>2. text[at[k] - 1] = LF
      BY <1>2, <3>1
    <3> QED BY <1>5, <3>2 DEF LineStarts, N
  <2> QED BY <2>1, <2>2
<1>9. ASSUME NEW i \in LineStarts(text) PROVE \E k \in 1 .. L : i = at[k]
  <2> DEFINE after == {k \in 1 .. L + 1 : at[k] > i}
  <2>1. i \in 1 .. N /\ (i = 1 \/ text[i - 1] = LF)
    BY DEF LineStarts, N
  <2>2. L + 1 \in after
    BY <1>1, <1>2, <1>3, <2>1
  <2>3. PICK m \in after : \A k \in after : m <= k
    <3>1. after \in SUBSET Nat
      OBVIOUS
    <3> HIDE DEF after
    <3> QED BY <2>2, <3>1, LeastNatural
  <2>4. m \in 1 .. L + 1 /\ at[m] > i
    BY <2>3
  <2>5. m /= 1
    BY <1>2, <2>1, <2>4
  <2>6. m - 1 \in 1 .. L /\ m - 1 \in 1 .. L + 1 /\ m - 1 + 1 = m /\ ~(m <= m - 1)
    BY <1>3, <2>4, <2>5
  <2>7. at[m - 1] \in 1 .. N /\ at[m] \in 1 .. N + 1 /\ ~(at[m - 1] > i)
    BY <1>4, <1>5, <2>3, <2>4, <2>6
  <2>8. ASSUME i /= at[m - 1] PROVE FALSE
    <3>1. i - 1 \in at[m - 1] .. at[m] - 2 /\ i /= 1
      BY <1>1, <2>1, <2>4, <2>7, <2>8
    <3>2. text[i - 1] /= LF
      BY <1>2, <2>6, <3>1
    <3> QED BY <2>1, <3>1, <3>2
  <2> QED BY <2>6, <2>8
<1>10. ASSUME NEW k \in 1 .. L PROVE LineEnd(text, at[k]) = at[k + 1] - 1
  <2> DEFINE i == at[k]
             e == at[k + 1] - 1
             feeds == {j \in i .. N : text[j] = LF}
  <2>1. i \in 1 .. N /\ e \in i .. N /\ at[k + 1] \in 1 .. N + 1
    BY <1>5
  <2>2. \A j \in i .. at[k + 1] - 2 : text[j] /= LF
    BY <1>2
  <2>3. \A j \in feeds : e <= j
    <3> SUFFICES ASSUME NEW j \in feeds, ~(e <= j) PROVE FALSE
      OBVIOUS
    <3>1. j \in i .. N /\ text[j] = LF
      OBVIOUS
    <3>2. j \in i .. at[k + 1] - 2
      BY <1>1, <2>1, <3>1
    <3> QED BY <2>2, <3>1, <3>2
  <2>4. LineEnd(text, i) = IF feeds = {} THEN N
                           ELSE CHOOSE j \in feeds : \A h \in feeds : j <= h
    BY DEF LineEnd, N
  <2>5. feeds = {} => e = N
    <3> SUFFICES ASSUME feeds = {}, e /= N PROVE FALSE
      OBVIOUS
    <3>1. k < L
      <4>1. k = L \/ k < L
        BY <1>3
      <4>2. k = L => e = N
        BY <1>1, <1>2
      <4> QED BY <4>1, <4>2
    <3>2. text[e] = LF
      BY <1>2, <3>1
    <3>3. e \in feeds
      BY <2>1, <3>2
    <3> QED BY <3>3
  <2>6. feeds /= {} => e \in feeds
    <3> SUFFICES ASSUME feeds /= {} PROVE text[e] = LF
      BY <2>1
    <3>1. CASE k < L
      BY <1>2, <3>1
    <3>2. CASE k = L
      <4>1. e = N
        BY <1>1, <1>2, <3>2
      <4>2. PICK j \in feeds : TRUE
        OBVIOUS
      <4>3. e <= j /\ j \in i .. N /\ text[j] = LF
        BY <2>3
      <4>4. j = e
        BY <1>1, <2>1, <4>1, <4>3
      <4> QED BY <4>3, <4>4
    <3> QED BY <1>3, <3>1, <3>2
  <2>7. feeds \in SUBSET Nat
    BY <1>1, <2>1
  <2>8. e \in Nat
    BY <1>1, <2>1
  <2> HIDE DEF e, feeds
  <2>9. feeds /= {} => (CHOOSE j \in feeds : \A h \in feeds : j <= h) = e
    <3> SUFFICES ASSUME feeds /= {} PROVE (CHOOSE j \in feeds : \A h \in feeds : j <= h) = e
      OBVIOUS
    <3> DEFINE c == CHOOSE j \in feeds : \A h \in feeds : j <= h
    <3>1. e \in feeds /\ \A h \in feeds : e <= h
      BY <2>3, <2>6
    <3>2. c \in feeds /\ \A h \in feeds : c <= h
      BY <3>1
    <3> HIDE DEF c
    <3>3. c <= e /\ e <= c /\ c \in Nat
      BY <2>7, <3>1, <3>2
    <3>4. c = e
      BY <2>8, <3>3
    <3> QED BY <3>4 DEF c
  <2>10. LineEnd(text, i) = e
    BY <2>4, <2>5, <2>9
  <2> QED BY <2>10 DEF e
<1> QED BY <1>2, <1>3, <1>5, <1>7, <1>8, <1>9, <1>10 DEF L, N

\* A piece of the start of a sequence is a prefix of it with more after it.
LEMMA PrefixOfConcat ==
  ASSUME NEW S, NEW s \in Seq(S), NEW t \in Seq(S), NEW m \in 0 .. Len(s)
  PROVE  IsPrefix(SubSeq(s, 1, m), s \o t)
<1> DEFINE p == SubSeq(s, 1, m)
<1>1. Len(s) \in Nat /\ Len(t) \in Nat /\ \A i \in 1 .. Len(s) : s[i] \in S
  BY LenProperties, ElementOfSeq
<1>2. p \in Seq(S) /\ Len(p) = m
  <2>1. m \in Int /\ 1 \in Int /\ \A i \in 1 .. m : s[i] \in S
    BY <1>1
  <2>2. p \in Seq(S) /\ Len(p) = IF 1 <= m THEN m - 1 + 1 ELSE 0
    BY <2>1, SubSeqProperties
  <2> HIDE DEF p
  <2> QED BY <1>1, <2>2
<1>3. /\ s \o t \in Seq(S) /\ Len(s \o t) = Len(s) + Len(t)
  BY ConcatProperties
<1>4. SubSeq(s \o t, 1, m) = p
  BY <1>1, SubSeqOfConcat1
<1>5. SubSeq(p, 1, Len(p)) = p
  BY <1>2, SubSeqFull
<1> HIDE DEF p
<1>6. Len(p) <= Len(s \o t)
  BY <1>1, <1>2, <1>3
<1> QED BY <1>2, <1>4, <1>5, <1>6 DEF IsPrefix, p

\* The number of a line is the number of lines that start up to it.
LEMMA LineNumber ==
  ASSUME NEW text \in Seq(Bytes), NEW lines, NEW at, Split(text, Len(text), lines, at),
         NEW k \in 1 .. Len(lines)
  PROVE  Cardinality({j \in LineStarts(text) : j <= at[k]}) = k
<1> DEFINE L == Len(lines)
           starts == {j \in LineStarts(text) : j <= at[k]}
           f == [i \in 1 .. k |-> at[i]]
<1>1. /\ L \in Nat /\ LineStarts(text) = {at[i] : i \in 1 .. L}
      /\ \A i \in 1 .. L : at[i] \in 1 .. Len(text)
      /\ \A i, j \in 1 .. L : i < j => at[i] < at[j]
  BY SplitFacts
<1>2. k \in 1 .. L /\ k \in Nat /\ Len(text) \in Nat
  BY <1>1, LenProperties
<1> HIDE DEF L
<1>3. \A i \in 1 .. k : i \in 1 .. L
  BY <1>1, <1>2
<1>4. \A i \in 1 .. k : at[i] \in starts
  <2> SUFFICES ASSUME NEW i \in 1 .. k PROVE at[i] <= at[k]
    BY <1>1, <1>3
  <2>1. at[i] \in Nat /\ at[k] \in Nat /\ (i < k => at[i] < at[k])
    BY <1>1, <1>2, <1>3
  <2>2. i = k \/ i < k
    BY <1>2
  <2> QED BY <2>1, <2>2
<1>5. ASSUME NEW j \in starts PROVE \E i \in 1 .. k : at[i] = j
  <2>1. PICK i \in 1 .. L : j = at[i]
    BY <1>1
  <2>2. ~(k < i)
    <3>1. at[i] \in Nat /\ at[k] \in Nat /\ at[i] <= at[k] /\ (k < i => at[k] < at[i])
      BY <1>1, <1>2, <2>1
    <3> QED BY <3>1
  <2>3. i \in 1 .. k
    BY <1>1, <1>2, <2>1, <2>2
  <2> QED BY <2>1, <2>3
<1>6. \A i, j \in 1 .. k : at[i] = at[j] => i = j
  <2> SUFFICES ASSUME NEW i \in 1 .. k, NEW j \in 1 .. k, at[i] = at[j], i /= j PROVE FALSE
    OBVIOUS
  <2>1. i < j \/ j < i
    BY <1>2
  <2>2. at[i] < at[j] \/ at[j] < at[i]
    BY <1>1, <1>3, <2>1
  <2>3. at[i] \in Nat
    BY <1>1, <1>3
  <2> QED BY <2>2, <2>3
<1> HIDE DEF starts
<1>7. f \in Bijection(1 .. k, starts)
  BY <1>4, <1>5, <1>6 DEF Bijection, Injection, Surjection, IsInjective
<1>8. ExistsBijection(1 .. k, starts)
  BY <1>7 DEF ExistsBijection
<1>9. Cardinality(starts) = k
  BY <1>2, <1>8, FS_CountingElements
<1> QED BY <1>9 DEF starts

\* Without its line end, a line is a part of it from its start on.
LEMMA StrippedFacts ==
  ASSUME NEW raw \in Seq(Bytes)
  PROVE  \E m \in 0 .. Len(raw) : Stripped(raw) = SubSeq(raw, 1, m)
<1> DEFINE ends(n, byte) == n > 0 /\ raw[n] = byte
           lf == IF ends(Len(raw), LF) THEN 1 ELSE 0
           cr == IF ends(Len(raw) - lf, CR) THEN 1 ELSE 0
           m == Len(raw) - lf - cr
<1>1. Stripped(raw) = SubSeq(raw, 1, m)
  BY DEF Stripped
<1>2. Len(raw) \in Nat
  BY LenProperties
<1>3. lf \in {0, 1} /\ (lf = 1 => Len(raw) > 0)
  OBVIOUS
<1>4. cr \in {0, 1} /\ (cr = 1 => Len(raw) - lf > 0)
  <2> HIDE DEF lf
  <2> QED OBVIOUS
<1>5. m \in 0 .. Len(raw)
  <2> HIDE DEF lf, cr
  <2> QED BY <1>2, <1>3, <1>4
<1> HIDE DEF m
<1> QED BY <1>1, <1>5

\* What a search finds, told by a cut of the text.
Match(lines, at, k) ==
  [line_number |-> k, byte_offset |-> at[k] - 1, line |-> Stripped(lines[k])]
Matching(lines, byte, n) == {k \in 1 .. n : Contains(Stripped(lines[k]), byte)}

\* A search finds the lines that hold the byte.
LEMMA GrepFacts ==
  ASSUME NEW text \in Seq(Bytes), NEW byte, NEW at,
         Split(text, Len(text), RawLines(text), at)
  PROVE  LET lines == RawLines(text) IN
         Range(Grep(text, byte)) = {Match(lines, at, k) : k \in Matching(lines, byte, Len(lines))}
<1> DEFINE lines == RawLines(text)
           L == Len(lines)
           M == [line_number : Nat, byte_offset : Nat, line : Seq(Bytes)]
           X == [byte_offset : Nat, matches : Seq(M)]
           start == [byte_offset |-> 0, matches |-> <<>>]
           step == [n \in 1 .. L |-> [x \in X |-> Searched(x, n, lines[n], byte)]]
           Is(f) == f = [n \in 0 .. L |-> IF n = 0 THEN start
                                          ELSE Searched(f[n - 1], n, lines[n], byte)]
           found == CHOOSE f : Is(f)
<1>1. L \in Nat /\ \A n \in 1 .. L : n - 1 \in 0 .. L
  BY SplitFacts
<1>2. ASSUME NEW n \in 1 .. L
      PROVE  /\ at[n] \in 1 .. Len(text) /\ at[n + 1] - 1 \in at[n] .. Len(text)
             /\ lines[n] \in Seq(Bytes) /\ Len(lines[n]) = at[n + 1] - 1 - at[n] + 1
             /\ Stripped(lines[n]) \in Seq(Bytes)
  <2>1. at[n] \in 1 .. Len(text) /\ at[n + 1] - 1 \in at[n] .. Len(text)
        /\ lines[n] = SubSeq(text, at[n], at[n + 1] - 1)
    BY SplitFacts
  <2> HIDE DEF lines
  <2>2. lines[n] \in Seq(Bytes) /\ Len(lines[n]) = at[n + 1] - 1 - at[n] + 1
    BY <2>1, LastByte
  <2>3. PICK m \in 0 .. Len(lines[n]) : Stripped(lines[n]) = SubSeq(lines[n], 1, m)
    BY <2>2, StrippedFacts
  <2>4. Stripped(lines[n]) \in Seq(Bytes)
    <3>1. \A i \in 1 .. m : lines[n][i] \in Bytes
      BY <2>2, <2>3, LenProperties, ElementOfSeq
    <3>2. 1 \in Int /\ m \in Int
      BY <2>2, LenProperties
    <3> QED BY <2>3, <3>1, <3>2, SubSeqProperties
  <2> QED BY <2>1, <2>2, <2>4
<1>3. Split(text, Len(text), lines, at)
  OBVIOUS
<1> HIDE DEF lines, L
<1>4. ASSUME NEW n \in 1 .. L, NEW x \in X
      PROVE  LET shown == Stripped(lines[n])
                 match == [line_number |-> n, byte_offset |-> x.byte_offset, line |-> shown]
                 to == Searched(x, n, lines[n], byte) IN
             /\ to \in X /\ to.byte_offset = x.byte_offset + Len(lines[n])
             /\ Range(to.matches) = Range(x.matches) \cup
                                    (IF Contains(shown, byte) THEN {match} ELSE {})
  <2> DEFINE shown == Stripped(lines[n])
             match == [line_number |-> n, byte_offset |-> x.byte_offset, line |-> shown]
             to == Searched(x, n, lines[n], byte)
             matches == IF Contains(shown, byte) THEN Append(x.matches, match) ELSE x.matches
             offset == x.byte_offset + Len(lines[n])
  <2>1. x.byte_offset \in Nat /\ x.matches \in Seq(M) /\ Len(lines[n]) \in Nat
    BY <1>2, LenProperties
  <2>2. to = [byte_offset |-> offset, matches |-> matches]
    BY DEF Searched, LengthOnDisk
  <2>3. match \in M
    BY <1>1, <1>2, <2>1
  <2>4. offset \in Nat
    BY <2>1
  <2> HIDE DEF M, match, shown, to, offset
  <2>5. matches \in Seq(M) /\ Range(matches) = Range(x.matches) \cup
                                (IF Contains(shown, byte) THEN {match} ELSE {})
    <3>1. Range(Append(x.matches, match)) = Range(x.matches) \cup {match}
      BY <2>1, <2>3, AppendRange
    <3>2. Append(x.matches, match) \in Seq(M)
      BY <2>1, <2>3, AppendProperties
    <3> QED BY <2>1, <3>1, <3>2
  <2> HIDE DEF matches
  <2>6. to \in X /\ to.byte_offset = offset /\ to.matches = matches
    BY <2>2, <2>4, <2>5
  <2> QED BY <2>5, <2>6 DEF match, shown, to, offset
<1>5. ASSUME NEW n \in 1 .. L, NEW x \in X
      PROVE  step[n][x] = Searched(x, n, lines[n], byte) /\ step[n][x] \in X
  BY <1>4
<1>6. start \in X
  OBVIOUS
<1> HIDE DEF step, X, start
<1>7. PICK f : Rounds(X, start, step, L, f)
  BY <1>1, <1>5, <1>6, RoundsExist
<1>8. Is(f)
  <2>1. /\ f \in [0 .. L -> X] /\ f[0] = start /\ \A n \in 1 .. L : f[n] = step[n][f[n - 1]]
    BY <1>7 DEF Rounds
  <2>2. ASSUME NEW n \in 1 .. L PROVE f[n] = Searched(f[n - 1], n, lines[n], byte)
    <3>1. n - 1 \in 0 .. L /\ f[n - 1] \in X
      BY <1>1, <2>1
    <3> QED BY <1>5, <2>1, <3>1
  <2>3. \A n \in 0 .. L : n = 0 \/ n \in 1 .. L
    BY <1>1
  <2>4. \A n \in 0 .. L : f[n] = IF n = 0 THEN start
                                 ELSE Searched(f[n - 1], n, lines[n], byte)
    BY <2>1, <2>2, <2>3
  <2> QED BY <2>1, <2>4
<1>9. Is(found)
  <2> HIDE DEF Is
  <2> QED BY <1>8
<1>10. Grep(text, byte) = found[L].matches
  BY DEF Grep, start, lines, L
<1> HIDE DEF found
<1>11. found[0] = start /\ \A n \in 1 .. L : found[n] = Searched(found[n - 1], n, lines[n], byte)
  <2>1. \A n \in 1 .. L : n \in 0 .. L /\ n /= 0
    OBVIOUS
  <2>2. 0 \in 0 .. L
    BY <1>1
  <2> QED BY <1>9, <2>1, <2>2
<1> HIDE DEF Is
<1> DEFINE got(n) == {Match(lines, at, k) : k \in Matching(lines, byte, n)}
           good == {n \in 0 .. L : /\ found[n] \in X /\ found[n].byte_offset = at[n + 1] - 1
                                   /\ Range(found[n].matches) = got(n)}
<1>12. 0 \in good
  <2>1. start.byte_offset = 0 /\ start.matches = <<>>
    BY DEF start
  <2>2. at[0 + 1] - 1 = 0
    BY DEF Split
  <2>3. Range(<<>>) = {} /\ got(0) = {}
    BY DEF Range, Matching
  <2>4. found[0] \in X /\ found[0].byte_offset = at[0 + 1] - 1
    BY <1>6, <1>11, <2>1, <2>2
  <2>5. Range(found[0].matches) = {Match(lines, at, k) : k \in Matching(lines, byte, 0)}
    BY <1>11, <2>1, <2>3
  <2>6. 0 \in 0 .. L
    BY <1>1
  <2> QED BY <2>4, <2>5, <2>6
<1>13. ASSUME NEW n \in 1 .. L, n - 1 \in good PROVE n \in good
  <2> DEFINE x == found[n - 1]
             shown == Stripped(lines[n])
             match == [line_number |-> n, byte_offset |-> x.byte_offset, line |-> shown]
             to == found[n]
  <2>1. x \in X /\ x.byte_offset = at[n] - 1 /\ Range(x.matches) = got(n - 1)
    <3>1. n - 1 + 1 = n
      BY <1>1
    <3> HIDE DEF got
    <3> QED BY <1>13, <3>1
  <2>2. to = Searched(x, n, lines[n], byte)
    BY <1>11
  <2>3. /\ to \in X /\ to.byte_offset = x.byte_offset + Len(lines[n])
        /\ Range(to.matches) = Range(x.matches) \cup (IF Contains(shown, byte) THEN {match} ELSE {})
    BY <1>4, <2>1, <2>2
  <2>4. to.byte_offset = at[n + 1] - 1
    <3>1. at[n] \in Nat /\ at[n + 1] - 1 \in Nat /\ Len(lines[n]) = at[n + 1] - 1 - at[n] + 1
      BY <1>2, LenProperties
    <3>2. at[n + 1] - 1 - at[n] + 1 = (at[n + 1] - 1) - (at[n] - 1)
      BY <3>1
    <3> QED BY <2>1, <2>3, <3>1, <3>2
  <2>5. match = Match(lines, at, n)
    BY <2>1 DEF Match
  <2>6. Matching(lines, byte, n) = Matching(lines, byte, n - 1) \cup
                                   (IF Contains(shown, byte) THEN {n} ELSE {})
    <3>1. 1 .. n = (1 .. n - 1) \cup {n}
      BY <1>1
    <3> QED BY <3>1 DEF Matching
  <2> HIDE DEF x, shown, match, to
  <2>7. got(n) = got(n - 1) \cup (IF Contains(shown, byte) THEN {match} ELSE {})
    BY <2>5, <2>6
  <2>8. n \in 0 .. L
    BY <1>1
  <2> HIDE DEF got
  <2> QED BY <2>1, <2>3, <2>4, <2>7, <2>8 DEF to
<1>14. L \in good
  <2> HIDE DEF good
  <2>1. \A n \in 0 .. L : n \in good
    BY <1>1, <1>12, <1>13, RoundsReach
  <2> QED BY <1>1, <2>1
<1> QED BY <1>10, <1>14 DEF lines, L

\* What a search of a text finds is what there is.
LEMMA GrepGivesLines ==
  ASSUME NEW text \in Seq(Bytes), NEW byte
  PROVE  /\ Range(Grep(text, byte)) = LinesWith(text, byte)
         /\ \A match \in Range(Grep(text, byte)) :
              \E end \in match.byte_offset .. Len(text) :
               \E m \in 0 .. Len(SubSeq(text, match.byte_offset + 1, end)) :
                /\ match.byte_offset \in 0 .. Len(text)
                /\ match.line = SubSeq(SubSeq(text, match.byte_offset + 1, end), 1, m)
<1> DEFINE lines == RawLines(text)
           L == Len(lines)
           N == Len(text)
<1>1. N \in Nat
  BY LenProperties
<1>2. PICK at : Split(text, N, lines, at)
  BY RawLinesSplit
<1>3. Range(Grep(text, byte)) = {Match(lines, at, k) : k \in Matching(lines, byte, L)}
  BY <1>2, GrepFacts
<1>4. /\ L \in Nat /\ LineStarts(text) = {at[k] : k \in 1 .. L}
      /\ \A k \in 1 .. L :
           /\ at[k] \in 1 .. N /\ at[k + 1] - 1 \in at[k] .. N
           /\ lines[k] = SubSeq(text, at[k], at[k + 1] - 1)
           /\ LineEnd(text, at[k]) = at[k + 1] - 1
  BY <1>2, SplitFacts
<1>5. \A k \in 1 .. L : Cardinality({j \in LineStarts(text) : j <= at[k]}) = k
  BY <1>2, LineNumber
<1> HIDE DEF lines, L, N
<1>6. \A k \in 1 .. L : LineAt(text, at[k]) = Stripped(lines[k])
  BY <1>4 DEF LineAt
<1> DEFINE Place(i) == [line_number |-> Cardinality({j \in LineStarts(text) : j <= i}),
                       byte_offset |-> i - 1, line |-> LineAt(text, i)]
<1>7. \A k \in 1 .. L : Place(at[k]) = Match(lines, at, k)
  BY <1>5, <1>6 DEF Match
<1>8. LinesWith(text, byte) = {Place(i) : i \in {j \in LineStarts(text) :
                                                  Contains(LineAt(text, j), byte)}}
  BY DEF LinesWith
<1> HIDE DEF Place
<1>9. LinesWith(text, byte) = {Match(lines, at, k) : k \in Matching(lines, byte, L)}
  <2>1. {j \in LineStarts(text) : Contains(LineAt(text, j), byte)}
          = {at[k] : k \in Matching(lines, byte, L)}
    BY <1>4, <1>6 DEF Matching
  <2>2. \A k \in Matching(lines, byte, L) : k \in 1 .. L
    BY DEF Matching
  <2> QED BY <1>7, <1>8, <2>1, <2>2
<1>10. ASSUME NEW match \in Range(Grep(text, byte))
       PROVE  \E end \in match.byte_offset .. Len(text) :
               \E m \in 0 .. Len(SubSeq(text, match.byte_offset + 1, end)) :
                /\ match.byte_offset \in 0 .. Len(text)
                /\ match.line = SubSeq(SubSeq(text, match.byte_offset + 1, end), 1, m)
  <2>1. PICK k \in Matching(lines, byte, L) : match = Match(lines, at, k)
    BY <1>3
  <2>2. k \in 1 .. L /\ match.byte_offset = at[k] - 1 /\ match.line = Stripped(lines[k])
    BY <2>1 DEF Matching, Match
  <2> DEFINE from == at[k] - 1
             end == at[k + 1] - 1
             whole == lines[k]
  <2>3. from \in 0 .. Len(text) /\ end \in from .. Len(text) /\ from + 1 = at[k]
    <3>1. at[k] \in 1 .. N /\ end \in at[k] .. N
      BY <1>4, <2>2
    <3>2. \A i \in 1 .. N : i - 1 \in 0 .. N /\ (i - 1) + 1 = i /\ \A j \in i .. N : j \in i - 1 .. N
      BY <1>1
    <3> HIDE DEF end
    <3> QED BY <3>1, <3>2 DEF N
  <2>4. whole = SubSeq(text, from + 1, end)
    BY <1>4, <2>2, <2>3
  <2>5. from = match.byte_offset
    BY <2>2
  <2> HIDE DEF from, end, whole
  <2>6. whole \in Seq(Bytes)
    BY <2>3, <2>4, FromFacts
  <2>7. PICK m \in 0 .. Len(whole) : Stripped(whole) = SubSeq(whole, 1, m)
    BY <2>6, StrippedFacts
  <2> QED BY <2>2, <2>3, <2>4, <2>5, <2>7 DEF whole
<1> QED BY <1>3, <1>9, <1>10

\* A piece of a text, and a part of the piece.
LEMMA PieceFacts ==
  ASSUME NEW text \in Seq(Bytes), NEW offset \in 0 .. Len(text), NEW limit \in Nat \cup {NoLimit}
  PROVE  LET piece == Piece(text, offset, limit)
             size == End(text, offset, limit) - offset IN
         /\ piece \in Seq(Bytes) /\ size \in Nat /\ Len(piece) = size
         /\ offset + size <= Len(text)
         /\ \A i \in 0 .. size : \A j \in i .. size :
              SubSeq(piece, i + 1, j) = SubSeq(text, offset + i + 1, offset + j)
<1> DEFINE piece == Piece(text, offset, limit)
           end == End(text, offset, limit)
           size == end - offset
<1>1. Len(text) \in Nat /\ offset \in Nat /\ Start(text, offset) = offset
  BY LenProperties DEF Start, Least
<1>2. end \in offset .. Len(text)
  <2>1. CASE limit = NoLimit
    BY <1>1, <2>1 DEF End
  <2>2. CASE limit /= NoLimit
    BY <1>1, <2>2 DEF End, Least
  <2> QED BY <2>1, <2>2
<1>3. piece = SubSeq(text, offset + 1, end)
  BY <1>1 DEF Piece
<1> HIDE DEF piece, end
<1>4. size \in Nat /\ offset + size = end /\ end <= Len(text)
  BY <1>1, <1>2
<1>5. \A i \in 1 .. Len(text) : text[i] \in Bytes
  BY ElementOfSeq
<1>6. piece \in Seq(Bytes) /\ Len(piece) = size /\ \A i \in 1 .. size : piece[i] = text[offset + i]
  <2> DEFINE m == offset + 1
  <2>1. m \in Int /\ end \in Int /\ \A i \in m .. end : text[i] \in Bytes
    BY <1>1, <1>2, <1>5
  <2>2. size = 0 => end < m
    BY <1>1, <1>4
  <2>3. size /= 0 => m <= end /\ end - m + 1 = size
    BY <1>1, <1>4
  <2>4. \A i \in 1 .. size : m + i - 1 = offset + i
    BY <1>1
  <2> HIDE DEF m
  <2>5. /\ SubSeq(text, m, end) \in Seq(Bytes)
        /\ Len(SubSeq(text, m, end)) = IF m <= end THEN end - m + 1 ELSE 0
        /\ \A i \in 1 .. (end - m + 1) : SubSeq(text, m, end)[i] = text[m + i - 1]
    BY <2>1, SubSeqProperties
  <2>6. piece = SubSeq(text, m, end)
    BY <1>3 DEF m
  <2>7. Len(piece) = size
    BY <1>1, <1>4, <2>1, <2>2, <2>3, <2>5, <2>6
  <2>8. ASSUME NEW i \in 1 .. size PROVE piece[i] = text[offset + i]
    <3>1. size /= 0
      BY <1>4, <2>8
    <3> QED BY <2>3, <2>4, <2>5, <2>6, <2>8, <3>1
  <2> QED BY <2>5, <2>6, <2>7, <2>8
<1>7. ASSUME NEW i \in 0 .. size, NEW j \in i .. size
      PROVE  SubSeq(piece, i + 1, j) = SubSeq(text, offset + i + 1, offset + j)
  <2>1. /\ i \in Nat /\ j \in Nat /\ j <= size /\ i <= j
    BY <1>4
  <2> HIDE DEF size
  <2>2. \A h \in i + 1 .. j : h \in 1 .. size /\ offset + h \in 1 .. Len(text)
    BY <1>1, <1>4, <2>1
  <2> DEFINE m == i + 1
             p == offset + i + 1
             q == offset + j
             a == SubSeq(piece, m, j)
             b == SubSeq(text, p, q)
  <2>3. /\ m \in Int /\ p \in Int /\ q \in Int /\ j \in Int
        /\ j - m + 1 = j - i /\ q - p + 1 = j - i
        /\ m <= j <=> j - i /= 0
        /\ p <= q <=> j - i /= 0
        /\ j - i \in Nat
    BY <1>1, <2>1
  <2>4. /\ \A h \in m .. j : piece[h] \in Bytes
        /\ \A h \in p .. q : text[h] \in Bytes
    <3>1. \A h \in p .. q : h \in 1 .. Len(text)
      BY <1>1, <1>4, <2>1
    <3>2. \A h \in m .. j : h \in 1 .. size
      BY <2>2
    <3> QED BY <1>5, <1>6, <3>1, <3>2, ElementOfSeq
  <2>5. \A h \in 1 .. j - i : /\ m + h - 1 \in 1 .. size
                              /\ offset + (m + h - 1) = p + h - 1
    BY <1>1, <1>4, <2>1
  <2> HIDE DEF m, p, q
  <2>6. /\ a \in Seq(Bytes) /\ Len(a) = j - i
        /\ \A h \in 1 .. j - i : a[h] = piece[m + h - 1]
    BY <2>3, <2>4, SubSeqProperties
  <2>7. /\ b \in Seq(Bytes) /\ Len(b) = j - i
        /\ \A h \in 1 .. j - i : b[h] = text[p + h - 1]
    BY <2>3, <2>4, SubSeqProperties
  <2> HIDE DEF a, b
  <2>8. \A h \in 1 .. Len(a) : a[h] = b[h]
    BY <1>6, <2>5, <2>6, <2>7
  <2>9. a = b
    BY <2>6, <2>7, <2>8, SeqEqual
  <2> QED BY <2>9 DEF a, b, m, p, q
<1> QED BY <1>4, <1>6, <1>7 DEF piece, end

\* What a search of a piece finds is what the piece has, and reading on from there, counted
\* from the piece's start, gives the line.
LEMMA SearchAlwaysFinds == SearchFinds
<1> SUFFICES ASSUME NEW text \in Texts, NEW byte, NEW offset \in 0 .. Len(text), NEW limit \in Limits,
                    Search(text, offset, limit, byte) /= NotText
             PROVE  LET found == Search(text, offset, limit, byte) IN
                    /\ Range(found) = LinesWith(Piece(text, offset, limit), byte)
                    /\ \A match \in Range(found), step \in Limits \ {0} :
                         LET at == offset + match.byte_offset
                             read == ReadOn(Page, text, at, step)
                         IN  read = From(text, at) /\ IsPrefix(match.line, read)
  BY DEF SearchFinds
<1> DEFINE piece == Piece(text, offset, limit)
           size == End(text, offset, limit) - offset
<1>1. text \in Seq(Bytes) /\ Len(text) \in Nat /\ limit \in Nat \cup {NoLimit}
  BY TextFacts, PagesAssumption
<1>2. /\ piece \in Seq(Bytes) /\ size \in Nat /\ Len(piece) = size
      /\ offset + size <= Len(text)
      /\ \A i \in 0 .. size : \A j \in i .. size :
           SubSeq(piece, i + 1, j) = SubSeq(text, offset + i + 1, offset + j)
  BY <1>1, PieceFacts
<1>3. Search(text, offset, limit, byte) = Grep(piece, byte)
  BY DEF Search
<1> HIDE DEF piece, size
<1>4. ASSUME NEW match \in Range(Grep(piece, byte)), NEW step \in Limits \ {0}
      PROVE  LET at == offset + match.byte_offset
                 read == ReadOn(Page, text, at, step)
             IN  read = From(text, at) /\ IsPrefix(match.line, read)
  <2>1. Len(piece) = size /\ piece \in Seq(Bytes)
    BY <1>2
  <2>2. \E to \in match.byte_offset .. Len(piece) :
          \E m \in 0 .. Len(SubSeq(piece, match.byte_offset + 1, to)) :
            /\ match.byte_offset \in 0 .. Len(piece)
            /\ match.line = SubSeq(SubSeq(piece, match.byte_offset + 1, to), 1, m)
    BY <1>4, <2>1, GrepGivesLines
  <2>3. PICK to \in match.byte_offset .. size :
          \E m \in 0 .. Len(SubSeq(piece, match.byte_offset + 1, to)) :
            /\ match.byte_offset \in 0 .. size
            /\ match.line = SubSeq(SubSeq(piece, match.byte_offset + 1, to), 1, m)
    BY <2>1, <2>2
  <2>4. PICK m \in 0 .. Len(SubSeq(piece, match.byte_offset + 1, to)) :
          /\ match.byte_offset \in 0 .. size
          /\ match.line = SubSeq(SubSeq(piece, match.byte_offset + 1, to), 1, m)
    BY <2>3
  <2> DEFINE at == offset + match.byte_offset
             end == offset + to
             whole == SubSeq(text, at + 1, end)
             all == From(text, at)
             rest == From(text, end)
  <2>5. at \in 0 .. Len(text) /\ end \in at .. Len(text)
    <3>1. match.byte_offset \in 0 .. size /\ to \in match.byte_offset .. size
      BY <2>4
    <3>2. size \in Nat /\ offset + size <= Len(text) /\ Len(text) \in Nat
      BY <1>1, <1>2
    <3> QED BY <3>1, <3>2
  <2>6. SubSeq(piece, match.byte_offset + 1, to) = whole
    BY <1>2, <2>4
  <2> HIDE DEF at, end
  <2>7. whole \in Seq(Bytes) /\ all \in Seq(Bytes) /\ rest \in Seq(Bytes) /\ all = whole \o rest
    <3>1. end \in 0 .. Len(text) /\ Len(text) \in end .. Len(text)
      BY <1>1, <2>5
    <3> QED BY <1>1, <2>5, <3>1, FromFacts
  <2>8. ReadOn(Page, text, at, step) = all
    <3>1. step \in (Nat \ {0}) \cup {NoLimit}
      BY PagesAssumption
    <3> HIDE DEF all
    <3> QED BY <1>1, <2>5, <3>1, ReadingGivesAll DEF all
  <2> HIDE DEF whole, all, rest
  <2>9. m \in 0 .. Len(whole) /\ match.line = SubSeq(whole, 1, m)
    BY <2>4, <2>6
  <2>10. IsPrefix(SubSeq(whole, 1, m), all)
    BY <2>7, <2>9, PrefixOfConcat
  <2> QED BY <2>8, <2>9, <2>10 DEF at, all
<1> QED BY <1>2, <1>3, <1>4, GrepGivesLines DEF piece

\* PagesJoin: whatever the bytes of a text and the limits, reading a file in pieces gives
\* what is read at once, a stream too unless a piece ends inside of a character, and a
\* search of any piece finds each line of it that holds what it looks for, with the offset
\* from where, counted from the piece's start, a reader who goes on finds that line.
THEOREM PagesAlwaysJoin == Spec => []PagesJoin
<1>1. PagesJoin
  BY PiecesAlwaysJoin, SearchAlwaysFinds DEF PagesJoin
<1> QED BY <1>1, PTL
=============================================================================
