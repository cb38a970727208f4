------------------------- MODULE AppPrepare_proofs --------------------------
(***************************************************************************)
(* Proofs about AppPrepare, for any disk that is a tree, any folder, titles   *)
(* and preparers: a prepare that nothing overlaps and that merges nothing     *)
(* into what it takes away deletes only what its probe announced, and when it *)
(* ended well the app it placed is prepared.                                *)
(*                                                                          *)
(* Neither is inductive.  That the cleanup deletes only what was announced    *)
(* rests on the merge having emptied the app's folder of everything else, and *)
(* having put nothing into the folder that is deleted; that no file is lost   *)
(* before rests on the backup folder having nothing where something is saved  *)
(* (PrepareInv).  That the second probe finds the app, and finds it where it  *)
(* is, needs to know of both files that make it an app where they are while   *)
(* the merge moves them, and of the title's home whether it is there (AppKept). *)
(***************************************************************************)
EXTENDS AppPrepare, SequenceTheorems, NaturalsInduction, WellFoundedInduction, TLAPS

-----------------------------------------------------------------------------
(* Paths: prefixes of sequences, and what is under a folder that is moved.   *)

Paths == Seq(PathNames)

LEMMA PathBasics ==
  ASSUME NEW s \in Paths
  PROVE  /\ Len(s) \in Nat /\ DOMAIN s = 1 .. Len(s)
         /\ \A i \in 1 .. Len(s) : s[i] \in PathNames
BY DEF Paths

LEMMA SamePath ==
  ASSUME NEW s \in Paths, NEW t \in Paths, Len(s) = Len(t), \A i \in 1 .. Len(s) : s[i] = t[i]
  PROVE  s = t
BY SeqEqual DEF Paths

LEMMA PartOf ==
  ASSUME NEW s \in Paths, NEW m \in Nat \ {0}, NEW n \in 0 .. Len(s), m <= n + 1
  PROVE  /\ SubSeq(s, m, n) \in Paths /\ Len(SubSeq(s, m, n)) = n - m + 1
         /\ \A i \in 1 .. (n - m + 1) : SubSeq(s, m, n)[i] = s[m + i - 1]
<1>1. Len(s) \in Nat /\ m \in Int /\ n \in Int
  BY PathBasics
<1>2. \A i \in m .. n : s[i] \in PathNames
  BY <1>1, PathBasics
<1>3. /\ SubSeq(s, m, n) \in Seq(PathNames)
      /\ Len(SubSeq(s, m, n)) = IF m <= n THEN n - m + 1 ELSE 0
      /\ \A i \in 1 .. (n - m + 1) : SubSeq(s, m, n)[i] = s[m + i - 1]
  BY <1>1, <1>2, SubSeqProperties
<1>4. QED  BY <1>1, <1>3 DEF Paths

LEMMA PrefixIs ==
  ASSUME NEW s \in Paths, NEW t \in Paths
  PROVE  IsPrefix(s, t) <=> Len(s) <= Len(t) /\ \A i \in 1 .. Len(s) : s[i] = t[i]
<1>1. Len(s) \in Nat /\ Len(t) \in Nat
  BY PathBasics
<1>2. SubSeq(s, 1, Len(s)) = s
  BY SubSeqFull DEF Paths
<1>3. ASSUME Len(s) <= Len(t)
      PROVE  /\ SubSeq(t, 1, Len(s)) \in Paths /\ Len(SubSeq(t, 1, Len(s))) = Len(s)
             /\ \A i \in 1 .. Len(s) : SubSeq(t, 1, Len(s))[i] = t[i]
  <2>1. 1 \in Nat \ {0} /\ Len(s) \in 0 .. Len(t) /\ 1 <= Len(s) + 1
    BY <1>1, <1>3
  <2>2. /\ SubSeq(t, 1, Len(s)) \in Paths /\ Len(SubSeq(t, 1, Len(s))) = Len(s) - 1 + 1
        /\ \A i \in 1 .. (Len(s) - 1 + 1) : SubSeq(t, 1, Len(s))[i] = t[1 + i - 1]
    BY <2>1, PartOf
  <2>3. Len(s) - 1 + 1 = Len(s) /\ \A i \in 1 .. Len(s) : 1 + i - 1 = i
    BY <1>1
  <2>4. QED  BY <2>2, <2>3
<1>4. ASSUME Len(s) <= Len(t), \A i \in 1 .. Len(s) : s[i] = t[i]
      PROVE  s = SubSeq(t, 1, Len(s))
  BY <1>3, <1>4, SamePath
<1>5. ASSUME IsPrefix(s, t)
      PROVE  Len(s) <= Len(t) /\ \A i \in 1 .. Len(s) : s[i] = t[i]
  BY <1>2, <1>3, <1>5 DEF IsPrefix
<1>6. QED  BY <1>2, <1>4, <1>5 DEF IsPrefix

LEMMA PrefixOrder ==
  ASSUME NEW a \in Paths, NEW b \in Paths
  PROVE  /\ IsPrefix(a, a)
         /\ IsPrefix(a, b) /\ IsPrefix(b, a) => a = b
         /\ IsPrefix(a, b) => Len(a) <= Len(b) /\ ToSet(a) \subseteq ToSet(b)
         /\ IsPrefix(a, b) /\ Len(a) = Len(b) => a = b
<1>1. Len(a) \in Nat /\ Len(b) \in Nat /\ DOMAIN a = 1 .. Len(a) /\ DOMAIN b = 1 .. Len(b)
  BY PathBasics
<1>2. /\ IsPrefix(a, b) <=> Len(a) <= Len(b) /\ \A i \in 1 .. Len(a) : a[i] = b[i]
      /\ IsPrefix(b, a) <=> Len(b) <= Len(a) /\ \A i \in 1 .. Len(b) : b[i] = a[i]
      /\ IsPrefix(a, a)
  BY <1>1, PrefixIs
<1>3. IsPrefix(a, b) /\ Len(a) = Len(b) => a = b
  BY <1>1, <1>2, SamePath
<1>4. IsPrefix(a, b) => ToSet(a) \subseteq ToSet(b)
  <2> SUFFICES ASSUME IsPrefix(a, b), NEW i \in 1 .. Len(a) PROVE a[i] \in ToSet(b)
    BY <1>1 DEF ToSet
  <2>1. i \in 1 .. Len(b) /\ a[i] = b[i]
    BY <1>1, <1>2
  <2>2. QED  BY <1>1, <2>1 DEF ToSet
<1>5. IsPrefix(a, b) => Len(a) <= Len(b)
  BY <1>2
<1>6. IsPrefix(a, b) /\ IsPrefix(b, a) => a = b
  <2>1. IsPrefix(b, a) => Len(b) <= Len(a)
    BY <1>2
  <2>2. ASSUME IsPrefix(a, b), IsPrefix(b, a) PROVE a = b
    <3>1. Len(a) <= Len(b)
      BY <1>5, <2>2
    <3>2. Len(b) <= Len(a)
      BY <2>1, <2>2
    <3>3. Len(a) = Len(b)
      <4>1. Len(a) \in Nat /\ Len(b) \in Nat
        BY <1>1
      <4>2. QED  BY <3>1, <3>2, <4>1
    <3>4. QED  BY <1>3, <2>2, <3>3
  <2>3. QED  BY <2>2
<1>7. QED  BY <1>2, <1>3, <1>4, <1>5, <1>6

LEMMA PrefixChain ==
  ASSUME NEW a \in Paths, NEW b \in Paths, NEW c \in Paths
  PROVE  /\ IsPrefix(a, b) /\ IsPrefix(b, c) => IsPrefix(a, c)
         /\ IsPrefix(a, c) /\ IsPrefix(b, c) => IsPrefix(a, b) \/ IsPrefix(b, a)
<1>1. Len(a) \in Nat /\ Len(b) \in Nat /\ Len(c) \in Nat
  BY PathBasics
<1>2. /\ IsPrefix(a, b) <=> Len(a) <= Len(b) /\ \A i \in 1 .. Len(a) : a[i] = b[i]
      /\ IsPrefix(b, c) <=> Len(b) <= Len(c) /\ \A i \in 1 .. Len(b) : b[i] = c[i]
      /\ IsPrefix(b, a) <=> Len(b) <= Len(a) /\ \A i \in 1 .. Len(b) : b[i] = a[i]
      /\ IsPrefix(a, c) <=> Len(a) <= Len(c) /\ \A i \in 1 .. Len(a) : a[i] = c[i]
  BY PrefixIs
<1>3. IsPrefix(a, b) /\ IsPrefix(b, c) => IsPrefix(a, c)
  BY <1>1, <1>2
<1>4. Len(a) <= Len(b) \/ Len(b) <= Len(a)
  BY <1>1
<1>5. IsPrefix(a, c) /\ IsPrefix(b, c) => IsPrefix(a, b) \/ IsPrefix(b, a)
  BY <1>1, <1>2, <1>4
<1>6. QED  BY <1>3, <1>5

(* What is under from, taken to to.                                         *)
LEMMA RebaseIs ==
  ASSUME NEW from \in Paths, NEW to \in Paths, NEW q \in Paths, IsPrefix(from, q)
  PROVE  /\ Rebase(q, from, to) \in Paths
         /\ Len(Rebase(q, from, to)) = Len(to) + (Len(q) - Len(from))
         /\ \A i \in 1 .. Len(to) : Rebase(q, from, to)[i] = to[i]
         /\ \A i \in 1 .. (Len(q) - Len(from)) :
              Rebase(q, from, to)[Len(to) + i] = q[Len(from) + i]
<1> DEFINE rest == SubSeq(q, Len(from) + 1, Len(q))
<1>1. Len(from) \in Nat /\ Len(to) \in Nat /\ Len(q) \in Nat /\ Len(from) <= Len(q)
  BY PathBasics, PrefixIs
<1>2. /\ rest \in Paths /\ Len(rest) = Len(q) - Len(from)
      /\ \A i \in 1 .. (Len(q) - Len(from)) : rest[i] = q[Len(from) + i]
  <2>1. Len(from) + 1 \in Nat \ {0} /\ Len(q) \in 0 .. Len(q) /\ Len(from) + 1 <= Len(q) + 1
    BY <1>1
  <2>2. /\ rest \in Paths /\ Len(rest) = Len(q) - (Len(from) + 1) + 1
        /\ \A i \in 1 .. (Len(q) - (Len(from) + 1) + 1) : rest[i] = q[Len(from) + 1 + i - 1]
    BY <2>1, PartOf
  <2>3. Len(q) - (Len(from) + 1) + 1 = Len(q) - Len(from)
    BY <1>1
  <2>4. \A i \in 1 .. (Len(q) - Len(from)) : Len(from) + 1 + i - 1 = Len(from) + i
    BY <1>1
  <2>5. QED  BY <2>2, <2>3, <2>4
<1>3. Rebase(q, from, to) = to \o rest
  BY DEF Rebase
<1> HIDE DEF rest
<1>4. /\ to \o rest \in Paths /\ Len(to \o rest) = Len(to) + Len(rest)
      /\ \A i \in 1 .. (Len(to) + Len(rest)) :
           (to \o rest)[i] = IF i <= Len(to) THEN to[i] ELSE rest[i - Len(to)]
  BY <1>2, ConcatProperties DEF Paths
<1>5. \A i \in 1 .. Len(to) : (to \o rest)[i] = to[i]
  BY <1>1, <1>2, <1>4
<1>6. ASSUME NEW i \in 1 .. (Len(q) - Len(from))
      PROVE  (to \o rest)[Len(to) + i] = q[Len(from) + i]
  <2>1. Len(to) + i \in 1 .. (Len(to) + Len(rest)) /\ ~(Len(to) + i <= Len(to))
        /\ Len(to) + i - Len(to) = i
    BY <1>1, <1>2
  <2>2. QED  BY <1>2, <1>4, <2>1
<1>7. QED  BY <1>2, <1>3, <1>4, <1>5, <1>6

LEMMA RebaseUnder ==
  ASSUME NEW from \in Paths, NEW to \in Paths, NEW q \in Paths, IsPrefix(from, q)
  PROVE  /\ Rebase(q, from, to) \in Paths /\ IsPrefix(to, Rebase(q, from, to))
         /\ Rebase(Rebase(q, from, to), to, from) = q
         /\ ToSet(Rebase(q, from, to)) \subseteq ToSet(to) \cup ToSet(q)
<1> DEFINE r == Rebase(q, from, to)
<1>1. Len(from) \in Nat /\ Len(to) \in Nat /\ Len(q) \in Nat /\ Len(from) <= Len(q)
      /\ \A i \in 1 .. Len(from) : from[i] = q[i]
  BY PathBasics, PrefixIs
<1>2. /\ r \in Paths /\ Len(r) = Len(to) + (Len(q) - Len(from))
      /\ \A i \in 1 .. Len(to) : r[i] = to[i]
      /\ \A i \in 1 .. (Len(q) - Len(from)) : r[Len(to) + i] = q[Len(from) + i]
  BY ZenonT(30), RebaseIs
<1> HIDE DEF r
<1>3. IsPrefix(to, r)
  <2>1. Len(to) <= Len(r)
    BY <1>1, <1>2
  <2>2. QED  BY <1>2, <2>1, PrefixIs
<1>4. Rebase(r, to, from) = q
  <2>1. /\ Rebase(r, to, from) \in Paths
        /\ Len(Rebase(r, to, from)) = Len(from) + (Len(r) - Len(to))
        /\ \A i \in 1 .. Len(from) : Rebase(r, to, from)[i] = from[i]
        /\ \A i \in 1 .. (Len(r) - Len(to)) : Rebase(r, to, from)[Len(from) + i] = r[Len(to) + i]
    BY <1>2, <1>3, RebaseIs
  <2>2. Len(Rebase(r, to, from)) = Len(q) /\ Len(r) - Len(to) = Len(q) - Len(from)
    BY <1>1, <1>2, <2>1
  <2>3. ASSUME NEW i \in 1 .. Len(q)
        PROVE  Rebase(r, to, from)[i] = q[i]
    <3>1. CASE i <= Len(from)
      <4>1. i \in 1 .. Len(from)
        BY <1>1, <3>1
      <4>2. QED  BY <1>1, <2>1, <4>1
    <3>2. CASE ~(i <= Len(from))
      <4>1. i - Len(from) \in 1 .. (Len(q) - Len(from)) /\ Len(from) + (i - Len(from)) = i
        BY <1>1, <3>2
      <4>2. QED  BY <1>2, <2>1, <2>2, <4>1
    <3>3. QED  BY <3>1, <3>2
  <2>4. QED  BY <2>1, <2>2, <2>3, SamePath
<1>5. ToSet(r) \subseteq ToSet(to) \cup ToSet(q)
  <2>1. DOMAIN r = 1 .. Len(r) /\ DOMAIN to = 1 .. Len(to) /\ DOMAIN q = 1 .. Len(q)
    BY <1>2, PathBasics
  <2>2. ASSUME NEW i \in 1 .. Len(r)
        PROVE  r[i] \in ToSet(to) \cup ToSet(q)
    <3>1. CASE i <= Len(to)
      <4>1. i \in 1 .. Len(to) /\ r[i] = to[i]
        BY <1>1, <1>2, <3>1
      <4>2. QED  BY <2>1, <4>1 DEF ToSet
    <3>2. CASE ~(i <= Len(to))
      <4>1. /\ i - Len(to) \in 1 .. (Len(q) - Len(from)) /\ Len(to) + (i - Len(to)) = i
            /\ Len(from) + (i - Len(to)) \in 1 .. Len(q)
        BY <1>1, <1>2, <3>2
      <4>2. r[i] = q[Len(from) + (i - Len(to))]
        BY <1>2, <4>1
      <4>3. QED  BY <2>1, <4>1, <4>2 DEF ToSet
    <3>3. QED  BY <3>1, <3>2
  <2>3. QED  BY <2>1, <2>2 DEF ToSet
<1>6. QED  BY <1>2, <1>3, <1>4, <1>5 DEF r

LEMMA RebaseTop ==
  ASSUME NEW from \in Paths, NEW to \in Paths PROVE Rebase(from, from, to) = to
<1>1. Len(from) \in Nat /\ Len(to) \in Nat /\ IsPrefix(from, from)
  BY PathBasics, PrefixOrder
<1>2. Rebase(from, from, to) \in Paths /\ Len(Rebase(from, from, to)) = Len(to) + (Len(from) - Len(from))
      /\ \A i \in 1 .. Len(to) : Rebase(from, from, to)[i] = to[i]
  BY <1>1, RebaseIs
<1>3. Len(Rebase(from, from, to)) = Len(to)
  BY <1>1, <1>2
<1>4. QED  BY <1>2, <1>3, SamePath

LEMMA RebaseStrictly ==
  ASSUME NEW from \in Paths, NEW to \in Paths, NEW q \in Paths, IsPrefix(from, q), q # from
  PROVE  Rebase(q, from, to) # to
<1>1. Len(from) \in Nat /\ Len(to) \in Nat /\ Len(q) \in Nat
  BY PathBasics
<1>2. Len(from) # Len(q)
  BY PrefixOrder
<1>3. Len(Rebase(q, from, to)) = Len(to) + (Len(q) - Len(from))
  BY RebaseIs
<1>4. QED  BY <1>1, <1>2, <1>3

LEMMA RebaseTwice ==
  ASSUME NEW from \in Paths, NEW to \in Paths, NEW q \in Paths, NEW x \in Paths,
         IsPrefix(from, q), IsPrefix(q, x)
  PROVE  /\ IsPrefix(from, x)
         /\ Rebase(x, q, Rebase(q, from, to)) = Rebase(x, from, to)
<1> DEFINE dst == Rebase(q, from, to)
           a == Rebase(x, q, dst)
           b == Rebase(x, from, to)
<1>1. Len(from) \in Nat /\ Len(to) \in Nat /\ Len(q) \in Nat /\ Len(x) \in Nat
      /\ Len(from) <= Len(q) /\ Len(q) <= Len(x) /\ IsPrefix(from, x)
      /\ \A i \in 1 .. Len(q) : q[i] = x[i]
  BY PathBasics, PrefixIs, PrefixChain
<1>2. /\ dst \in Paths /\ Len(dst) = Len(to) + (Len(q) - Len(from))
      /\ \A i \in 1 .. Len(to) : dst[i] = to[i]
      /\ \A i \in 1 .. (Len(q) - Len(from)) : dst[Len(to) + i] = q[Len(from) + i]
  BY ZenonT(60), RebaseIs
<1>3. /\ b \in Paths /\ Len(b) = Len(to) + (Len(x) - Len(from))
      /\ \A i \in 1 .. Len(to) : b[i] = to[i]
      /\ \A i \in 1 .. (Len(x) - Len(from)) : b[Len(to) + i] = x[Len(from) + i]
  BY ZenonT(60), <1>1, RebaseIs
<1> HIDE DEF dst, b
<1>4. /\ a \in Paths /\ Len(a) = Len(dst) + (Len(x) - Len(q))
      /\ \A i \in 1 .. Len(dst) : a[i] = dst[i]
      /\ \A i \in 1 .. (Len(x) - Len(q)) : a[Len(dst) + i] = x[Len(q) + i]
  BY ZenonT(60), <1>2, RebaseIs
<1> HIDE DEF a
<1>5. Len(a) = Len(b)
  BY <1>1, <1>2, <1>3, <1>4
<1>6. ASSUME NEW i \in 1 .. Len(a)
      PROVE  a[i] = b[i]
  <2>1. CASE i <= Len(to)
    <3>1. i \in 1 .. Len(to) /\ i \in 1 .. Len(dst)
      BY <1>1, <1>2, <2>1
    <3>2. QED  BY <1>2, <1>3, <1>4, <3>1
  <2>2. CASE ~(i <= Len(to)) /\ i <= Len(dst)
    <3>1. /\ i \in 1 .. Len(dst) /\ i - Len(to) \in 1 .. (Len(q) - Len(from))
          /\ i - Len(to) \in 1 .. (Len(x) - Len(from)) /\ Len(to) + (i - Len(to)) = i
          /\ Len(from) + (i - Len(to)) \in 1 .. Len(q)
      BY <1>1, <1>2, <2>2
    <3>2. a[i] = dst[Len(to) + (i - Len(to))]
      BY <1>4, <3>1
    <3>3. a[i] = q[Len(from) + (i - Len(to))]
      BY <1>2, <3>1, <3>2
    <3>4. b[i] = x[Len(from) + (i - Len(to))]
      BY <1>3, <3>1
    <3>5. QED  BY <1>1, <3>1, <3>3, <3>4
  <2>3. CASE ~(i <= Len(dst))
    <3>1. /\ i - Len(dst) \in 1 .. (Len(x) - Len(q)) /\ Len(dst) + (i - Len(dst)) = i
          /\ i - Len(to) \in 1 .. (Len(x) - Len(from)) /\ Len(to) + (i - Len(to)) = i
          /\ Len(q) + (i - Len(dst)) = Len(from) + (i - Len(to))
      BY <1>1, <1>2, <1>4, <2>3
    <3>2. a[i] = x[Len(q) + (i - Len(dst))]
      BY <1>4, <3>1
    <3>3. b[i] = x[Len(from) + (i - Len(to))]
      BY <1>3, <3>1
    <3>4. QED  BY <3>1, <3>2, <3>3
  <2>4. QED  BY <2>1, <2>2, <2>3
<1>7. a = b
  BY <1>3, <1>4, <1>5, <1>6, SamePath
<1>8. QED  BY <1>1, <1>7 DEF a, b, dst

LEMMA RebaseOrder ==
  ASSUME NEW from \in Paths, NEW to \in Paths, NEW q \in Paths, NEW r \in Paths,
         IsPrefix(from, q), IsPrefix(from, r)
  PROVE  IsPrefix(q, r) <=> IsPrefix(Rebase(q, from, to), Rebase(r, from, to))
<1> DEFINE a == Rebase(q, from, to)
           b == Rebase(r, from, to)
<1>1. a \in Paths /\ b \in Paths /\ IsPrefix(to, a) /\ IsPrefix(to, b)
      /\ Rebase(a, to, from) = q /\ Rebase(b, to, from) = r
  BY RebaseUnder
<1>2. ASSUME IsPrefix(q, r)
      PROVE  IsPrefix(a, b)
  <2>1. Rebase(r, q, a) = b
    BY <1>2, RebaseTwice
  <2>2. IsPrefix(a, Rebase(r, q, a))
    <3> HIDE DEF a
    <3> QED  BY <1>1, <1>2, RebaseUnder
  <2>3. QED  BY <2>1, <2>2
<1>3. ASSUME IsPrefix(a, b)
      PROVE  IsPrefix(q, r)
  <2>1. Rebase(b, a, Rebase(a, to, from)) = Rebase(b, to, from)
    <3> HIDE DEF a, b
    <3> QED  BY <1>1, <1>3, RebaseTwice
  <2>2. IsPrefix(q, Rebase(b, a, q))
    <3> HIDE DEF a, b
    <3> QED  BY <1>1, <1>3, RebaseUnder
  <2>3. QED  BY <1>1, <2>1, <2>2
<1>4. QED  BY <1>2, <1>3

(* The folder that a path is in, and those that it is under.                 *)
LEMMA PrefixesAre ==
  ASSUME NEW p \in Paths
  PROVE  Prefixes(p) = {r \in Paths : IsPrefix(r, p)}
<1>1. Len(p) \in Nat
  BY PathBasics
<1>2. ASSUME NEW n \in 0 .. Len(p)
      PROVE  SubSeq(p, 1, n) \in Paths /\ IsPrefix(SubSeq(p, 1, n), p)
             /\ Len(SubSeq(p, 1, n)) = n
  <2>1. n \in Nat /\ 1 \in Nat \ {0} /\ 1 <= n + 1 /\ n - 1 + 1 = n /\ \A i \in 1 .. n : 1 + i - 1 = i
    BY <1>1
  <2>2. /\ SubSeq(p, 1, n) \in Paths /\ Len(SubSeq(p, 1, n)) = n - 1 + 1
        /\ \A i \in 1 .. (n - 1 + 1) : SubSeq(p, 1, n)[i] = p[1 + i - 1]
    BY <2>1, PartOf
  <2>3. n <= Len(p) /\ \A i \in 1 .. n : SubSeq(p, 1, n)[i] = p[i]
    BY <1>1, <2>1, <2>2
  <2>4. QED  BY <2>1, <2>2, <2>3, PrefixIs
<1>3. ASSUME NEW r \in Paths, IsPrefix(r, p)
      PROVE  \E n \in 0 .. Len(p) : r = SubSeq(p, 1, n)
  <2>1. Len(r) \in 0 .. Len(p) /\ \A i \in 1 .. Len(r) : r[i] = p[i]
    BY <1>1, <1>3, PathBasics, PrefixIs
  <2>2. r = SubSeq(p, 1, Len(r))
    <3>1. SubSeq(p, 1, Len(r)) \in Paths /\ IsPrefix(SubSeq(p, 1, Len(r)), p)
          /\ Len(SubSeq(p, 1, Len(r))) = Len(r)
      BY <1>2, <2>1
    <3>2. \A i \in 1 .. Len(r) : SubSeq(p, 1, Len(r))[i] = p[i]
      BY <3>1, PrefixIs
    <3>3. QED  BY <2>1, <3>1, <3>2, SamePath
  <2>3. QED  BY <2>1, <2>2
<1>4. QED  BY <1>2, <1>3 DEF Prefixes

LEMMA FrontIs ==
  ASSUME NEW p \in Paths, p # <<>>
  PROVE  /\ Front(p) \in Paths /\ IsPrefix(Front(p), p) /\ Front(p) # p
         /\ Len(p) \in Nat \ {0} /\ Len(Front(p)) = Len(p) - 1
         /\ \A r \in Paths : IsPrefix(r, p) /\ r # p => IsPrefix(r, Front(p))
<1>1. Len(p) \in Nat \ {0}
  BY EmptySeq DEF Paths
<1>2. Front(p) \in Paths /\ Len(Front(p)) = Len(p) - 1
      /\ \A i \in 1 .. (Len(p) - 1) : Front(p)[i] = p[i]
  <2>1. Len(p) - 1 \in 0 .. Len(p) /\ 1 \in Nat \ {0} /\ 1 <= Len(p) - 1 + 1
        /\ Len(p) - 1 - 1 + 1 = Len(p) - 1 /\ \A i \in 1 .. (Len(p) - 1) : 1 + i - 1 = i
    BY <1>1
  <2>2. /\ SubSeq(p, 1, Len(p) - 1) \in Paths
        /\ Len(SubSeq(p, 1, Len(p) - 1)) = Len(p) - 1 - 1 + 1
        /\ \A i \in 1 .. (Len(p) - 1 - 1 + 1) : SubSeq(p, 1, Len(p) - 1)[i] = p[1 + i - 1]
    BY <2>1, PartOf
  <2>3. QED  BY <2>1, <2>2 DEF Front
<1>3. IsPrefix(Front(p), p) /\ Front(p) # p
  <2>1. Len(Front(p)) <= Len(p) /\ Len(Front(p)) # Len(p)
        /\ \A i \in 1 .. Len(Front(p)) : Front(p)[i] = p[i]
    BY <1>1, <1>2
  <2>2. QED  BY <1>2, <2>1, PrefixIs
<1>4. ASSUME NEW r \in Paths, IsPrefix(r, p), r # p
      PROVE  IsPrefix(r, Front(p))
  <2>1. Len(r) \in Nat /\ Len(r) <= Len(p) /\ Len(r) # Len(p)
    BY <1>4, PathBasics, PrefixOrder
  <2>2. IsPrefix(r, Front(p)) \/ IsPrefix(Front(p), r)
    BY <1>2, <1>3, <1>4, PrefixChain
  <2>3. IsPrefix(Front(p), r) => Len(Front(p)) = Len(r)
    BY <1>1, <1>2, <2>1, PrefixOrder
  <2>4. QED  BY <1>2, <2>2, <2>3, PrefixOrder
<1>5. QED  BY <1>1, <1>2, <1>3, <1>4

LEMMA FrontIsPath == ASSUME NEW p \in Paths PROVE Front(p) \in Paths
<1>1. CASE p = <<>>
  <2>1. Len(p) = 0
    BY <1>1
  <2>2. SubSeq(p, 1, Len(p) - 1) = <<>>
    BY <2>1, SubSeqEmpty
  <2>3. QED  BY <2>2, EmptySeq DEF Front, Paths
<1>2. CASE p # <<>>
  BY <1>2, FrontIs
<1>3. QED  BY <1>1, <1>2

LEMMA LeastNumber ==
  ASSUME NEW S \in SUBSET Nat, S # {}
  PROVE  \E x \in S : \A y \in S : x <= y
<1> DEFINE Below == {p \in Nat \X Nat : p[1] < p[2]}
<1>1. IsWellFoundedOn(Below, Nat)
  BY NatLessThanWellFounded DEF OpToRel
<1>2. PICK x \in S : \A y \in S : ~(<<y, x>> \in Below)
  <2> HIDE DEF Below
  <2> QED BY <1>1, WFMin
<1>3. ASSUME NEW y \in S
      PROVE  x <= y
  <2>1. <<y, x>> \in Nat \X Nat /\ <<y, x>>[1] = y /\ <<y, x>>[2] = x
    OBVIOUS
  <2>2. y < x => <<y, x>> \in Below
    BY <2>1
  <2>3. QED  BY <1>2, <2>2
<1>4. QED  BY <1>3

-----------------------------------------------------------------------------
(* What every part of the state is.                                         *)

Infos == [scan : Paths, app : Paths, title : Titles \cup {NoTitle}, patch : BOOLEAN, to : Paths,
          extra : SUBSET Paths, prepared : BOOLEAN]
PrepareSteps ==
  {"idle", "apply", "open", "place", "backup", "merge", "chmod", "clean", "ok", "failed"}
Prepares == [pc : PrepareSteps, info : Infos, backup : Paths, cleanup : BOOLEAN, again : BOOLEAN,
             apart : BOOLEAN]

DiskTyped == DOMAIN disk \subseteq Paths /\ disk \in [DOMAIN disk -> Node]
PrepareTypeOK ==
  /\ DiskTyped
  /\ prepare \in [Preparers -> Prepares]
  /\ prepareCancel \in BOOLEAN /\ announced \subseteq Paths

LEMMA NamesTyped ==
  /\ Homebrew \in Paths /\ BackupDir \in PathNames
  /\ \A t \in Titles : AppName[t] \in PathNames /\ AppName[t] # BackupDir /\ AppName[t] \notin Preparers
  /\ Preparers \subseteq PathNames /\ BackupDir \notin Preparers
  /\ ToSet(Homebrew) \cap Preparers = {}
  /\ \A n \in PathNames : TitleIn[n] \in Titles \cup {NoTitle}
  /\ NoTitle \notin Titles
<1>1. "data" \in PathNames /\ "homebrew" \in PathNames
  BY PrepareAssumption
<1>2. <<"data", "homebrew">> \in Seq(PathNames)
  BY <1>1
<1>3. Homebrew \in Paths
  BY <1>2 DEF Homebrew, Paths
<1>4. \A t \in Titles : AppName[t] \in PathNames /\ AppName[t] # BackupDir /\ AppName[t] \notin Preparers
  <2> HIDE DEF BackupDir
  <2> QED  BY PrepareAssumption
<1>5. \A n \in PathNames : TitleIn[n] \in Titles \cup {NoTitle}
  BY PrepareAssumption
<1>6. BackupDir \in PathNames /\ BackupDir \notin Preparers /\ Preparers \subseteq PathNames
  BY PrepareAssumption
<1>7. NoTitle \notin Titles
  BY PrepareAssumption
<1>8. ToSet(Homebrew) \cap Preparers = {}
  <2>1. ToSet(Homebrew) \subseteq {"data", "homebrew"}
    BY DEF ToSet, Homebrew
  <2>2. "data" \notin Preparers /\ "homebrew" \notin Preparers
    BY PrepareAssumption
  <2>3. QED  BY <2>1, <2>2
<1>9. QED  BY <1>3, <1>4, <1>5, <1>6, <1>7, <1>8

LEMMA NodeTyped ==
  ASSUME DiskTyped, NEW p \in DOMAIN disk
  PROVE  /\ p \in Paths /\ disk[p] \in Node /\ disk[p].kind \in {"file", "dir", "link"}
         /\ disk[p].origin \in Paths /\ disk[p].open \in BOOLEAN
         /\ disk[p].title \in Titles \cup {NoTitle}
<1>1. p \in Paths /\ disk[p] \in Node
  BY DEF DiskTyped
<1>2. QED  BY <1>1 DEF Node, Paths

LEMMA AppPathTyped ==
  ASSUME NEW r \in Paths, NEW t \in Titles
  PROVE  /\ AppPath(r, t) \in Paths /\ AppPath(r, t) # <<>> /\ Last(AppPath(r, t)) = AppName[t]
         /\ Front(AppPath(r, t)) = r
         /\ ToSet(AppPath(r, t)) \subseteq ToSet(r) \cup {AppName[t]}
<1> DEFINE p == AppPath(r, t)
<1>1. AppName[t] \in PathNames /\ Len(r) \in Nat
  BY NamesTyped, PathBasics
<1>2. /\ p \in Paths /\ p # <<>> /\ Len(p) = Len(r) + 1
      /\ \A i \in 1 .. Len(r) : p[i] = r[i]
      /\ p[Len(r) + 1] = AppName[t]
  BY <1>1, AppendProperties DEF AppPath, Paths
<1> HIDE DEF p
<1>3. Last(p) = AppName[t]
  BY <1>2 DEF Last
<1>4. Front(p) = r
  <2>1. Front(p) \in Paths /\ Len(Front(p)) = Len(r) /\ IsPrefix(Front(p), p)
    BY <1>1, <1>2, FrontIs
  <2>2. \A i \in 1 .. Len(r) : Front(p)[i] = r[i]
    BY <1>2, <2>1, PrefixIs
  <2>3. QED  BY <2>1, <2>2, SamePath
<1>5. ToSet(p) \subseteq ToSet(r) \cup {AppName[t]}
  <2>1. DOMAIN p = 1 .. Len(p) /\ DOMAIN r = 1 .. Len(r)
    BY <1>2, PathBasics
  <2>2. ASSUME NEW i \in 1 .. Len(p)
        PROVE  p[i] \in ToSet(r) \cup {AppName[t]}
    <3>1. i \in 1 .. Len(r) \/ i = Len(r) + 1
      BY <1>1, <1>2
    <3>2. QED  BY <1>2, <2>1, <3>1 DEF ToSet
  <2>3. QED  BY <2>1, <2>2 DEF ToSet
<1>6. QED  BY <1>2, <1>3, <1>4, <1>5 DEF p

LEMMA TitleAtTyped == ASSUME DiskTyped, NEW p PROVE TitleAt(p) \in Titles \cup {NoTitle}
BY NodeTyped DEF TitleAt

(* Of the folders above the nearest that is an app, if one is.               *)
LEMMA ContextIs ==
  ASSUME DiskTyped, NEW scan \in Paths
  PROVE  \/ Context(scan) = <<>> /\ \A p \in Prefixes(scan) : ~IsAppDir(p)
         \/ /\ Context(scan) \in Paths /\ IsPrefix(Context(scan), scan) /\ IsAppDir(Context(scan))
            /\ \A p \in Prefixes(scan) : IsAppDir(p) => Len(p) <= Len(Context(scan))
<1> DEFINE apps == {p \in Prefixes(scan) : IsAppDir(p)}
           lens == {Len(scan) - Len(p) : p \in apps}
<1>1. Context(scan) = IF apps = {} THEN <<>> ELSE CHOOSE p \in apps : \A q \in apps : Len(q) <= Len(p)
  BY DEF Context
<1>2. \A p \in apps : p \in Paths /\ IsPrefix(p, scan) /\ Len(p) \in Nat /\ Len(p) <= Len(scan)
  BY PrefixesAre, PathBasics, PrefixOrder
<1>3. Len(scan) \in Nat
  BY PathBasics
<1>4. CASE apps = {}
  BY <1>1, <1>4
<1>5. CASE apps # {}
  <2>1. lens \in SUBSET Nat /\ lens # {}
    <3>1. \A p \in apps : Len(scan) - Len(p) \in Nat
      BY <1>2, <1>3
    <3>2. QED  BY <1>5, <3>1
  <2>2. PICK n \in lens : \A m \in lens : n <= m
    BY <2>1, LeastNumber
  <2>3. PICK p \in apps : n = Len(scan) - Len(p)
    OBVIOUS
  <2>4. ASSUME NEW q \in apps PROVE Len(q) <= Len(p)
    <3>1. Len(scan) - Len(q) \in lens
      OBVIOUS
    <3>2. Len(scan) - Len(p) <= Len(scan) - Len(q)
      BY <2>2, <2>3, <3>1
    <3>3. QED  BY <1>2, <1>3, <3>2
  <2>5. Context(scan) \in apps /\ \A q \in apps : Len(q) <= Len(Context(scan))
    <3> HIDE DEF apps
    <3> QED  BY <1>1, <1>5, <2>4
  <2>6. QED  BY <1>2, <2>5
<1>6. QED  BY <1>4, <1>5

LEMMA TitleInPathTyped ==
  ASSUME NEW p \in Paths PROVE TitleInPath(p) \in Titles \cup {NoTitle}
<1> DEFINE at == {i \in 1 .. Len(p) : TitleIn[p[i]] # NoTitle}
<1>1. TitleInPath(p) =
        IF at = {} THEN NoTitle ELSE TitleIn[p[CHOOSE i \in at : \A j \in at : i <= j]]
  BY DEF TitleInPath
<1>2. \A i \in at : i \in Nat /\ TitleIn[p[i]] \in Titles \cup {NoTitle}
  BY PathBasics, NamesTyped
<1> HIDE DEF at
<1>3. CASE at # {}
  <2>1. at \in SUBSET Nat
    BY <1>2
  <2>2. \E i \in at : \A j \in at : i <= j
    BY <1>3, <2>1, LeastNumber
  <2>3. (CHOOSE i \in at : \A j \in at : i <= j) \in at
    BY <2>2
  <2>4. QED  BY <1>1, <1>2, <1>3, <2>3
<1>4. QED  BY <1>1, <1>3

LEMMA PatchTitleTyped ==
  ASSUME DiskTyped, NEW here, NEW t \in Titles \cup {NoTitle}, NEW p \in Paths
  PROVE  PatchTitle(here, t, p) \in Titles \cup {NoTitle}
BY TitleAtTyped, TitleInPathTyped DEF PatchTitle

LEMMA CandidateIs ==
  ASSUME DiskTyped, NEW scan \in Paths, NEW c \in Candidates(scan)
  PROVE  /\ c = [path |-> c.path, title |-> c.title, patch |-> c.patch]
         /\ c.path \in TreeAt(scan) /\ c.path \in Paths /\ IsPrefix(scan, c.path) /\ IsDirAt(c.path)
         /\ c.title \in Titles /\ c.patch \in BOOLEAN /\ HasBootFile(c.path)
         /\ ~c.patch => IsAppDir(c.path) /\ c.title = TitleAt(c.path)
<1> DEFINE here == Context(scan)
           inScan == TitleInPath(scan)
           apps == {q \in TreeAt(scan) : IsAppDir(q)}
           patches == {q \in TreeAt(scan) : ~IsAppDir(q) /\ PatchTitle(here, inScan, q) # NoTitle}
<1>1. Candidates(scan) =
        {[path |-> p, title |-> TitleAt(p), patch |-> FALSE] : p \in apps}
        \cup {[path |-> p, title |-> PatchTitle(here, inScan, p), patch |-> TRUE] : p \in patches}
  BY DEF Candidates
<1>2. \A q \in TreeAt(scan) : q \in Paths /\ IsPrefix(scan, q)
  BY DEF TreeAt, DiskTyped
<1>3. inScan \in Titles \cup {NoTitle}
  BY TitleInPathTyped
<1>4. ASSUME NEW p \in apps, c = [path |-> p, title |-> TitleAt(p), patch |-> FALSE]
      PROVE  /\ c = [path |-> c.path, title |-> c.title, patch |-> c.patch]
             /\ c.path \in TreeAt(scan) /\ c.path \in Paths /\ IsPrefix(scan, c.path)
             /\ IsDirAt(c.path)
             /\ c.title \in Titles /\ c.patch \in BOOLEAN /\ HasBootFile(c.path)
             /\ ~c.patch => IsAppDir(c.path) /\ c.title = TitleAt(c.path)
  <2>1. c.path = p /\ c.title = TitleAt(p) /\ c.patch = FALSE
    BY <1>4
  <2>2. IsAppDir(p) /\ IsDirAt(p) /\ HasBootFile(p) /\ TitleAt(p) \in Titles
    BY TitleAtTyped DEF IsAppDir
  <2>3. QED  BY <1>2, <1>4, <2>1, <2>2
<1>5. ASSUME NEW p \in patches,
             c = [path |-> p, title |-> PatchTitle(here, inScan, p), patch |-> TRUE]
      PROVE  /\ c = [path |-> c.path, title |-> c.title, patch |-> c.patch]
             /\ c.path \in TreeAt(scan) /\ c.path \in Paths /\ IsPrefix(scan, c.path)
             /\ IsDirAt(c.path)
             /\ c.title \in Titles /\ c.patch \in BOOLEAN /\ HasBootFile(c.path)
             /\ ~c.patch => IsAppDir(c.path) /\ c.title = TitleAt(c.path)
  <2>1. c.path = p /\ c.title = PatchTitle(here, inScan, p) /\ c.patch = TRUE
    BY <1>5
  <2>2. p \in Paths /\ IsPrefix(scan, p) /\ PatchTitle(here, inScan, p) # NoTitle
    BY <1>2
  <2>3. IsDirAt(p) /\ HasBootFile(p)
    BY <2>2 DEF PatchTitle
  <2>4. PatchTitle(here, inScan, p) \in Titles
    <3> HIDE DEF here, inScan
    <3> QED  BY <1>3, <2>2, PatchTitleTyped
  <2>5. QED  BY <1>2, <1>5, <2>1, <2>3, <2>4
<1>6. QED  BY <1>1, <1>4, <1>5

LEMMA PreparedPathTyped ==
  ASSUME DiskTyped, NEW scan \in Paths, NEW c \in Candidates(scan)
  PROVE  /\ PreparedPath(scan, Context(scan), c) \in Paths
         /\ PreparedPath(scan, Context(scan), c) # <<>>
<1>1. c.title \in Titles /\ c.path \in Paths
  BY CandidateIs
<1>2. /\ AppPath(Homebrew, c.title) \in Paths /\ AppPath(Homebrew, c.title) # <<>>
      /\ AppPath(Front(scan), c.title) \in Paths /\ AppPath(Front(scan), c.title) # <<>>
  BY <1>1, AppPathTyped, NamesTyped, FrontIsPath
<1>3. Context(scan) # <<>> => Context(scan) \in Paths
  BY ContextIs
<1>4. QED  BY <1>1, <1>2, <1>3 DEF PreparedPath, Named

LEMMA InfoTyped ==
  ASSUME DiskTyped, NEW scan \in Paths, NEW info \in Probe(scan)
  PROVE  \E c \in Best(scan) :
           /\ c \in Candidates(scan) /\ info = Info(scan, c) /\ info \in Infos
           /\ info.scan = scan /\ info.app = c.path /\ info.title = c.title
           /\ info.patch = c.patch /\ info.to = PreparedPath(scan, Context(scan), c)
           /\ info.extra = Extras(scan, c.path, info.to)
           /\ info.to # <<>>
<1>1. PICK c \in Best(scan) : info = Info(scan, c)
  BY DEF Probe
<1>2. c \in Candidates(scan)
  BY DEF Best
<1> DEFINE to == PreparedPath(scan, Context(scan), c)
           extra == Extras(scan, c.path, to)
           done == /\ ~c.patch /\ c.path = to /\ extra = {}
                   /\ \A q \in TreeAt(IF to \in DOMAIN disk THEN to ELSE c.path) :
                        disk[q].kind = "link" \/ disk[q].open
<1>3. info = [scan |-> scan, app |-> c.path, title |-> c.title, patch |-> c.patch, to |-> to,
              extra |-> extra, prepared |-> done]
  BY <1>1 DEF Info
<1>4. to \in Paths /\ to # <<>>
  BY <1>2, PreparedPathTyped
<1>5. extra \subseteq Paths
  BY DEF Extras, TreeAt, DiskTyped
<1>6. c.path \in Paths /\ c.title \in Titles /\ c.patch \in BOOLEAN
  BY <1>2, CandidateIs
<1>7. done \in BOOLEAN
  OBVIOUS
<1> HIDE DEF to, extra, done
<1>8. info \in Infos
  BY <1>3, <1>4, <1>5, <1>6, <1>7 DEF Infos
<1>9. /\ info.scan = scan /\ info.app = c.path /\ info.title = c.title /\ info.patch = c.patch
      /\ info.to = to /\ info.extra = extra
  BY <1>3
<1>10. QED  BY <1>1, <1>2, <1>4, <1>8, <1>9 DEF to, extra

-----------------------------------------------------------------------------
(* The disk after a step: what is where, and where it came from.             *)

LEMMA OpenedIs ==
  ASSUME DiskTyped, NEW p \in Paths, disk' = Opened(p)
  PROVE  /\ DiskTyped' /\ DOMAIN disk' = DOMAIN disk
         /\ \A q \in DOMAIN disk :
              /\ disk'[q].kind = disk[q].kind /\ disk'[q].origin = disk[q].origin
              /\ disk'[q].title = disk[q].title
              /\ IsPrefix(p, q) => disk'[q].kind = "link" \/ disk'[q].open
<1> DEFINE node(q) == IF IsPrefix(p, q) /\ disk[q].kind # "link"
                        THEN [disk[q] EXCEPT !.open = TRUE] ELSE disk[q]
<1>1. disk' = [q \in DOMAIN disk |-> node(q)]
  BY DEF Opened
<1>2. ASSUME NEW q \in DOMAIN disk
      PROVE  /\ node(q) \in Node
             /\ node(q).kind = disk[q].kind /\ node(q).origin = disk[q].origin
             /\ node(q).title = disk[q].title
             /\ IsPrefix(p, q) => node(q).kind = "link" \/ node(q).open
  <2>1. disk[q] \in Node
    BY NodeTyped
  <2>2. CASE IsPrefix(p, q) /\ disk[q].kind # "link"
    <3>1. node(q) = [disk[q] EXCEPT !.open = TRUE]
      BY <2>2
    <3>2. QED  BY <2>1, <3>1 DEF Node
  <2>3. CASE ~(IsPrefix(p, q) /\ disk[q].kind # "link")
    <3>1. node(q) = disk[q]
      BY <2>3
    <3>2. QED  BY <2>1, <2>3, <3>1
  <2>4. QED  BY <2>2, <2>3
<1> HIDE DEF node
<1>3. DOMAIN disk' = DOMAIN disk /\ \A q \in DOMAIN disk : disk'[q] = node(q)
  BY <1>1
<1>4. disk' \in [DOMAIN disk -> Node]
  BY <1>1, <1>2
<1>5. QED  BY <1>2, <1>3, <1>4 DEF DiskTyped

LEMMA RemovedIs ==
  ASSUME DiskTyped, NEW q, disk' = [p \in DOMAIN disk \ {q} |-> disk[p]]
  PROVE  /\ DiskTyped' /\ DOMAIN disk' = DOMAIN disk \ {q}
         /\ \A p \in DOMAIN disk \ {q} : disk'[p] = disk[p]
BY DEF DiskTyped

(* The three parts of a disk on which q went to dst, and what was there to saved. *)
Arrived(q, to) == {Rebase(x, q, to) : x \in TreeAt(q)}

LEMMA ArrivedIs ==
  ASSUME DiskTyped, NEW q \in Paths, NEW to \in Paths
  PROVE  /\ \A x \in TreeAt(q) : x \in Paths /\ x \in DOMAIN disk /\ IsPrefix(q, x)
         /\ \A y \in Arrived(q, to) :
              /\ y \in Paths /\ IsPrefix(to, y) /\ Rebase(y, to, q) \in TreeAt(q)
              /\ y = Rebase(Rebase(y, to, q), q, to)
         /\ \A x \in TreeAt(q) :
              Rebase(x, q, to) \in Arrived(q, to) /\ Rebase(Rebase(x, q, to), to, q) = x
<1>1. \A x \in TreeAt(q) : x \in Paths /\ x \in DOMAIN disk /\ IsPrefix(q, x)
  BY DEF TreeAt, DiskTyped
<1>2. \A x \in TreeAt(q) : /\ Rebase(x, q, to) \in Paths /\ IsPrefix(to, Rebase(x, q, to))
                           /\ Rebase(Rebase(x, q, to), to, q) = x
  BY <1>1, RebaseUnder
<1>3. QED  BY <1>1, <1>2 DEF Arrived

LEMMA AsideIs ==
  ASSUME DiskTyped, NEW dst \in Paths, NEW saved \in Paths,
         disk' = [p \in (DOMAIN disk \ TreeAt(dst)) \cup Arrived(dst, saved) |->
                    IF p \in Arrived(dst, saved) THEN disk[Rebase(p, saved, dst)] ELSE disk[p]]
  PROVE  /\ DiskTyped' /\ DOMAIN disk' = (DOMAIN disk \ TreeAt(dst)) \cup Arrived(dst, saved)
         /\ \A x \in TreeAt(dst) :
              Rebase(x, dst, saved) \in DOMAIN disk' /\ disk'[Rebase(x, dst, saved)] = disk[x]
         /\ \A x \in DOMAIN disk \ TreeAt(dst) :
              ~IsPrefix(saved, x) => x \in DOMAIN disk' /\ disk'[x] = disk[x]
<1> DEFINE D == (DOMAIN disk \ TreeAt(dst)) \cup Arrived(dst, saved)
           node(p) == IF p \in Arrived(dst, saved) THEN disk[Rebase(p, saved, dst)] ELSE disk[p]
<1>1. disk' = [p \in D |-> node(p)]
  OBVIOUS
<1>2. \A p \in D : p \in Paths /\ node(p) \in Node
  <2>1. \A p \in Arrived(dst, saved) : p \in Paths /\ disk[Rebase(p, saved, dst)] \in Node
    BY ArrivedIs, NodeTyped
  <2>2. QED  BY <2>1, NodeTyped
<1>3. \A x \in TreeAt(dst) : Rebase(x, dst, saved) \in D /\ node(Rebase(x, dst, saved)) = disk[x]
  BY ArrivedIs
<1>4. \A x \in DOMAIN disk \ TreeAt(dst) : ~IsPrefix(saved, x) => x \in D /\ node(x) = disk[x]
  BY ArrivedIs
<1> HIDE DEF node, D
<1>5. DOMAIN disk' = D /\ \A p \in D : disk'[p] = node(p)
  BY <1>1
<1>6. disk' \in [D -> Node]
  BY <1>1, <1>2
<1>7. DiskTyped'
  BY <1>2, <1>5, <1>6 DEF DiskTyped
<1>8. QED  BY <1>3, <1>4, <1>5, <1>7 DEF D

Moves(q, dst, saved) ==
  /\ DiskTyped'
  /\ DOMAIN disk' = (DOMAIN disk \ (TreeAt(q) \cup TreeAt(dst)))
                      \cup Arrived(dst, saved) \cup Arrived(q, dst)
  /\ \A x \in TreeAt(q) :
       Rebase(x, q, dst) \in DOMAIN disk' /\ disk'[Rebase(x, q, dst)] = disk[x]
  /\ \A x \in TreeAt(dst) :
       /\ Rebase(x, dst, saved) \in DOMAIN disk'
       /\ ~IsPrefix(dst, Rebase(x, dst, saved)) => disk'[Rebase(x, dst, saved)] = disk[x]
  /\ \A x \in DOMAIN disk \ (TreeAt(q) \cup TreeAt(dst)) :
       ~IsPrefix(saved, x) => x \in DOMAIN disk' /\ disk'[x] = disk[x]

LEMMA MoveIs ==
  ASSUME DiskTyped, NEW w, NEW q \in Paths, NEW dst \in Paths, NEW saved \in Paths,
         saved = Rebase(dst, prepare[w].info.to, prepare[w].backup),
         disk' = MoveTo(w, q, dst)
  PROVE  Moves(q, dst, saved)
<1> DEFINE aside == Arrived(dst, saved)
           moved == Arrived(q, dst)
           D == (DOMAIN disk \ (TreeAt(q) \cup TreeAt(dst))) \cup aside \cup moved
           node(p) == IF p \in moved THEN disk[Rebase(p, dst, q)]
                      ELSE IF p \in aside THEN disk[Rebase(p, saved, dst)] ELSE disk[p]
<1>1. disk' = [p \in D |-> node(p)]
  BY DEF MoveTo, Arrived
<1>2. \A p \in D : p \in Paths /\ node(p) \in Node
  <2>1. \A p \in aside : p \in Paths /\ disk[Rebase(p, saved, dst)] \in Node
    BY ArrivedIs, NodeTyped
  <2>2. \A p \in moved : p \in Paths /\ disk[Rebase(p, dst, q)] \in Node
    BY ArrivedIs, NodeTyped
  <2>3. QED  BY <2>1, <2>2, NodeTyped
<1>3. \A x \in TreeAt(q) : Rebase(x, q, dst) \in D /\ node(Rebase(x, q, dst)) = disk[x]
  BY ArrivedIs
<1>4. \A x \in TreeAt(dst) :
        /\ Rebase(x, dst, saved) \in D
        /\ ~IsPrefix(dst, Rebase(x, dst, saved)) => node(Rebase(x, dst, saved)) = disk[x]
  BY ArrivedIs
<1>5. \A x \in DOMAIN disk \ (TreeAt(q) \cup TreeAt(dst)) :
        ~IsPrefix(saved, x) => x \in D /\ node(x) = disk[x]
  <2>1. \A x \in moved : x \in DOMAIN disk => x \in TreeAt(dst)
    BY ArrivedIs DEF TreeAt
  <2>2. \A x \in aside : IsPrefix(saved, x)
    BY ArrivedIs
  <2>3. QED  BY <2>1, <2>2
<1> HIDE DEF node, D
<1>6. DOMAIN disk' = D /\ \A p \in D : disk'[p] = node(p)
  BY <1>1
<1>7. disk' \in [D -> Node]
  BY <1>1, <1>2
<1>8. DiskTyped'
  BY <1>2, <1>6, <1>7 DEF DiskTyped
<1>9. QED  BY <1>3, <1>4, <1>5, <1>6, <1>8 DEF D, Moves

-----------------------------------------------------------------------------
(* Steps keep the types, and touch what is known of one prepare only.         *)

Entries == prepare \in [Preparers -> Prepares]
OthersAlike(w) == \A v \in Preparers \ {w} : prepare'[v] = prepare[v]
Started(w) == OthersAlike(w) /\ prepare'[w].pc # "idle"

Acts(w) ==
  \/ \E scan \in Scans : AskPrepare(w, scan)
  \/ ProbeFails(w) \/ Apply(w) \/ OpenPatch(w) \/ PlaceWhole(w) \/ BeginBackup(w)
  \/ MergeDone(w) \/ MergeFails(w) \/ OpenApp(w) \/ Finish(w)
  \/ \E q \in DOMAIN disk : MergeEntry(w, q) \/ MergeOverItself(w, q) \/ CleanEntry(w, q)

LEMMA EntryTyped ==
  ASSUME Entries, NEW w \in Preparers
  PROVE  /\ prepare[w] \in Prepares /\ prepare[w].pc \in PrepareSteps
         /\ prepare[w].info \in Infos /\ prepare[w].backup \in Paths
         /\ prepare[w].cleanup \in BOOLEAN /\ prepare[w].apart \in BOOLEAN
         /\ prepare[w].info.scan \in Paths /\ prepare[w].info.app \in Paths
         /\ prepare[w].info.to \in Paths /\ prepare[w].info.title \in Titles \cup {NoTitle}
         /\ prepare[w].info.patch \in BOOLEAN
<1>1. prepare[w] \in Prepares
  BY DEF Entries
<1>2. prepare[w].info \in Infos
  BY <1>1 DEF Prepares
<1>3. QED  BY <1>1, <1>2 DEF Prepares, Infos

LEMMA StepIs ==
  ASSUME Entries, NEW w \in Preparers, NEW pc \in PrepareSteps, Step(w, pc)
  PROVE  /\ Entries' /\ OthersAlike(w)
         /\ prepare'[w].pc = pc /\ prepare'[w].info = prepare[w].info
         /\ prepare'[w].backup = prepare[w].backup /\ prepare'[w].cleanup = prepare[w].cleanup
         /\ prepare'[w].apart = prepare[w].apart
<1>1. prepare' = [prepare EXCEPT ![w] = [prepare[w] EXCEPT !.pc = pc]]
  BY DEF Step, Entries
<1>2. prepare[w] \in Prepares
  BY DEF Entries
<1>3. [prepare[w] EXCEPT !.pc = pc] \in Prepares
  BY <1>2 DEF Prepares
<1>4. Entries'
  BY <1>1, <1>3 DEF Entries
<1>5. OthersAlike(w) /\ prepare'[w] = [prepare[w] EXCEPT !.pc = pc]
  BY <1>1 DEF Entries, OthersAlike
<1>6. QED  BY <1>2, <1>4, <1>5 DEF Prepares

LEMMA AskedIs ==
  ASSUME PrepareTypeOK, NEW w \in Preparers, NEW scan \in Scans, AskPrepare(w, scan)
  PROVE  /\ PrepareTypeOK' /\ Started(w) /\ prepare'[w].pc = "apply" /\ scan \in Paths
         /\ prepare'[w].apart = prepare[w].apart /\ prepare'[w].info.scan = scan
         /\ UNCHANGED <<disk, announced>>
<1>1. scan \in Paths /\ UNCHANGED <<disk, announced>>
  BY DEF AskPrepare, IsDirAt, PrepareTypeOK, DiskTyped
<1> DEFINE info == [prepare[w].info EXCEPT !.scan = scan]
           entry == [prepare[w] EXCEPT !.pc = "apply", !.info = info]
<1>2. prepare' = [prepare EXCEPT ![w] = entry]
  BY DEF AskPrepare, PrepareTypeOK
<1>3. prepare[w] \in Prepares /\ prepare[w].info \in Infos
  BY EntryTyped DEF PrepareTypeOK, Entries
<1>4. info \in Infos /\ info.scan = scan
  BY <1>1, <1>3 DEF Infos
<1> HIDE DEF info
<1>5. entry \in Prepares /\ entry.pc = "apply" /\ entry.info = info /\ entry.apart = prepare[w].apart
  BY <1>3, <1>4 DEF Prepares, PrepareSteps
<1> HIDE DEF entry
<1>6. prepare' \in [Preparers -> Prepares] /\ prepare'[w] = entry /\ OthersAlike(w)
  BY <1>2, <1>5 DEF PrepareTypeOK, OthersAlike
<1>7. prepareCancel' \in BOOLEAN
  BY DEF AskPrepare, PrepareTypeOK
<1>8. DiskTyped' /\ announced' \subseteq Paths
  BY <1>1 DEF PrepareTypeOK, DiskTyped
<1>9. QED  BY <1>1, <1>4, <1>5, <1>6, <1>7, <1>8 DEF PrepareTypeOK, Started

(* A folder is prepared as the probe says, unless that is refused.           *)
Refused(i) == i.patch /\ (i.app = i.to \/ ~IsDirAt(i.to) \/ IsPrefix(i.app, i.to))
Planning(w, i) ==
  /\ prepare'[w].info = i /\ prepare'[w].apart = Apart(i)
  /\ prepare'[w].cleanup = (DeleteScanSafe(i.scan, i.app, i.to) /\ (i.patch \/ i.extra # {}))
  /\ prepare'[w].pc = IF i.patch THEN "open" ELSE IF i.app = i.to THEN "chmod" ELSE "place"

LEMMA AppliedIs ==
  ASSUME PrepareTypeOK, NEW w \in Preparers, Apply(w)
  PROVE  /\ PrepareTypeOK' /\ Started(w) /\ UNCHANGED <<disk, prepareCancel>>
         /\ \/ prepare'[w].pc = "failed"
            \/ \E i \in Probe(prepare[w].info.scan) :
                 /\ ~Refused(i) /\ Planning(w, i)
                 /\ announced' = announced \cup {disk[q].origin : q \in i.extra}
<1> DEFINE scan == prepare[w].info.scan
<1>1. Entries /\ DiskTyped /\ scan \in Paths /\ prepare[w] \in Prepares
  BY EntryTyped DEF PrepareTypeOK, Entries
<1>2. PICK i \in Probe(scan) :
        LET clean == /\ DeleteScanSafe(i.scan, i.app, i.to)
                     /\ i.patch \/ i.extra # {}
        IN IF Refused(i) THEN Gives(w, "failed")
           ELSE /\ prepare' = [prepare EXCEPT ![w].info = i, ![w].cleanup = clean,
                                 ![w].apart = Apart(i),
                                 ![w].pc = IF i.patch THEN "open"
                                           ELSE IF i.app = i.to THEN "chmod" ELSE "place"]
                /\ announced' = announced \cup {disk[q].origin : q \in i.extra}
                /\ UNCHANGED <<disk, prepareCancel>>
  BY DEF Apply, Refused
<1>3. i \in Infos /\ i.extra \subseteq DOMAIN disk
  <2>1. i \in Infos /\ \E c : i.extra = Extras(scan, c, i.to)
    BY <1>1, InfoTyped
  <2>2. QED  BY <2>1 DEF Extras, TreeAt
<1>4. CASE Refused(i)
  <2>1. Step(w, "failed") /\ UNCHANGED <<disk, prepareCancel, announced>>
    BY <1>2, <1>4 DEF Gives, KeepRest
  <2>2. Entries' /\ OthersAlike(w) /\ prepare'[w].pc = "failed"
    BY <1>1, <2>1, StepIs DEF PrepareSteps
  <2>3. QED  BY <2>1, <2>2 DEF PrepareTypeOK, DiskTyped, Entries, Started
<1>5. CASE ~Refused(i)
  <2> DEFINE clean == DeleteScanSafe(i.scan, i.app, i.to) /\ (i.patch \/ i.extra # {})
             pc == IF i.patch THEN "open" ELSE IF i.app = i.to THEN "chmod" ELSE "place"
             apart == Apart(i)
             entry == [prepare[w] EXCEPT !.info = i, !.cleanup = clean, !.apart = apart, !.pc = pc]
  <2>1. /\ prepare' = [prepare EXCEPT ![w] = entry] /\ UNCHANGED <<disk, prepareCancel>>
        /\ announced' = announced \cup {disk[q].origin : q \in i.extra}
    BY <1>1, <1>2, <1>5 DEF Entries
  <2>2. clean \in BOOLEAN /\ apart \in BOOLEAN /\ pc \in PrepareSteps /\ pc # "idle"
    BY DEF Apart, PrepareSteps
  <2> HIDE DEF clean, apart, pc
  <2>3. /\ entry \in Prepares /\ entry.pc = pc /\ entry.info = i /\ entry.cleanup = clean
        /\ entry.apart = apart
    BY <1>1, <1>3, <2>2 DEF Prepares
  <2> HIDE DEF entry
  <2>4. prepare' \in [Preparers -> Prepares] /\ prepare'[w] = entry /\ OthersAlike(w)
    BY <1>1, <2>1, <2>3 DEF Entries, OthersAlike
  <2>5. announced' \subseteq Paths
    <3>1. \A q \in i.extra : disk[q].origin \in Paths
      BY <1>1, <1>3, NodeTyped
    <3>2. QED  BY <2>1, <3>1 DEF PrepareTypeOK
  <2>6. PrepareTypeOK'
    BY <2>1, <2>4, <2>5 DEF PrepareTypeOK, DiskTyped
  <2>7. Planning(w, i)
    BY <2>3, <2>4 DEF Planning, clean, apart, pc
  <2>8. QED  BY <1>5, <2>1, <2>2, <2>3, <2>4, <2>6, <2>7 DEF Started
<1>6. QED  BY <1>4, <1>5

LEMMA TypesKept ==
  ASSUME PrepareTypeOK, Entries', DiskTyped', UNCHANGED <<prepareCancel, announced>>
  PROVE  PrepareTypeOK'
BY DEF PrepareTypeOK, Entries

LEMMA GivenIs ==
  ASSUME PrepareTypeOK, NEW w \in Preparers, NEW pc \in PrepareSteps \ {"idle"}, Gives(w, pc)
  PROVE  /\ PrepareTypeOK' /\ Started(w) /\ UNCHANGED <<disk, announced>>
         /\ prepare'[w].pc = pc /\ prepare'[w].info = prepare[w].info
         /\ prepare'[w].backup = prepare[w].backup /\ prepare'[w].cleanup = prepare[w].cleanup
         /\ prepare'[w].apart = prepare[w].apart
<1>1. Step(w, pc) /\ UNCHANGED <<disk, prepareCancel, announced>> /\ Entries /\ pc \in PrepareSteps
  BY DEF Gives, KeepRest, PrepareTypeOK, Entries
<1>2. DiskTyped'
  BY <1>1 DEF PrepareTypeOK, DiskTyped
<1>3. QED  BY <1>1, <1>2, StepIs, TypesKept DEF Started

LEMMA FailedIs ==
  ASSUME PrepareTypeOK, NEW w \in Preparers, Gives(w, "failed")
  PROVE  /\ PrepareTypeOK' /\ Started(w) /\ UNCHANGED <<disk, announced>>
         /\ prepare'[w].pc = "failed"
BY GivenIs DEF PrepareSteps

LEMMA BegunIs ==
  ASSUME PrepareTypeOK, NEW w \in Preparers, BeginBackup(w)
  PROVE  /\ PrepareTypeOK' /\ Started(w) /\ UNCHANGED <<disk, announced>>
         /\ prepare'[w].pc = "merge" /\ prepare'[w].info = prepare[w].info
         /\ prepare'[w].backup = Front(prepare[w].info.to) \o <<BackupDir, w>>
         /\ prepare'[w].cleanup = prepare[w].cleanup /\ prepare'[w].apart = prepare[w].apart
<1>1. Entries /\ DiskTyped /\ prepare[w] \in Prepares /\ prepare[w].info.to \in Paths
  BY EntryTyped DEF PrepareTypeOK, Entries
<1> DEFINE backup == Front(prepare[w].info.to) \o <<BackupDir, w>>
           entry == [prepare[w] EXCEPT !.pc = "merge", !.backup = backup]
<1>2. prepare' = [prepare EXCEPT ![w] = entry] /\ UNCHANGED <<disk, prepareCancel, announced>>
  BY <1>1 DEF BeginBackup, KeepRest, Entries
<1>3. backup \in Paths
  <2>1. BackupDir \in PathNames /\ w \in PathNames /\ Front(prepare[w].info.to) \in Paths
    BY <1>1, NamesTyped, FrontIsPath
  <2>2. <<BackupDir, w>> \in Paths
    BY <2>1 DEF Paths
  <2>3. QED  BY <2>1, <2>2, ConcatProperties DEF Paths
<1> HIDE DEF backup
<1>4. /\ entry \in Prepares /\ entry.pc = "merge" /\ entry.info = prepare[w].info
      /\ entry.backup = backup /\ entry.cleanup = prepare[w].cleanup
      /\ entry.apart = prepare[w].apart
  BY <1>1, <1>3 DEF Prepares, PrepareSteps
<1> HIDE DEF entry
<1>5. prepare' \in [Preparers -> Prepares] /\ prepare'[w] = entry /\ OthersAlike(w)
  BY <1>1, <1>2, <1>4 DEF Entries, OthersAlike
<1>6. DiskTyped'
  BY <1>1, <1>2 DEF DiskTyped
<1>7. QED  BY <1>2, <1>4, <1>5, <1>6, TypesKept DEF Started, Entries, backup

LEMMA FinishedIs ==
  ASSUME PrepareTypeOK, NEW w \in Preparers, Finish(w)
  PROVE  /\ PrepareTypeOK' /\ Started(w) /\ UNCHANGED <<disk, announced>>
         /\ prepare'[w].pc \in {"ok", "failed"} /\ prepare'[w].info = prepare[w].info
         /\ prepare'[w].apart = prepare[w].apart
         /\ prepare[w].info.patch \/ IsDirAt(prepare[w].info.to) =>
              prepare'[w].again \in IF prepare[w].info.patch THEN {TRUE}
                                    ELSE Answers(prepare[w].info.to)
<1>1. /\ Entries /\ DiskTyped /\ prepare[w] \in Prepares /\ prepare[w].info.to \in Paths
  BY EntryTyped DEF PrepareTypeOK, Entries
<1>2. CASE prepare[w].info.patch \/ IsDirAt(prepare[w].info.to)
  <2>1. PICK again \in IF prepare[w].info.patch THEN {TRUE} ELSE Answers(prepare[w].info.to) :
          prepare' = [prepare EXCEPT ![w].pc = "ok", ![w].again = again]
    BY <1>2 DEF Finish
  <2>2. again \in BOOLEAN
    <3>1. \A i \in Probe(prepare[w].info.to) : i \in Infos
      BY <1>1, InfoTyped
    <3>2. QED  BY <2>1, <3>1 DEF Infos, Answers
  <2> DEFINE entry == [prepare[w] EXCEPT !.pc = "ok", !.again = again]
  <2>3. prepare' = [prepare EXCEPT ![w] = entry] /\ UNCHANGED <<disk, prepareCancel, announced>>
    BY <1>1, <2>1 DEF Finish, KeepRest, Entries
  <2>4. /\ entry \in Prepares /\ entry.pc = "ok" /\ entry.info = prepare[w].info
        /\ entry.again = again /\ entry.apart = prepare[w].apart
    BY <1>1, <2>2 DEF Prepares, PrepareSteps
  <2> HIDE DEF entry
  <2>5. prepare' \in [Preparers -> Prepares] /\ prepare'[w] = entry /\ OthersAlike(w)
    BY <1>1, <2>3, <2>4 DEF Entries, OthersAlike
  <2>6. DiskTyped'
    BY <1>1, <2>3 DEF DiskTyped
  <2>7. QED  BY <2>1, <2>3, <2>4, <2>5, <2>6, TypesKept DEF Started, Entries
<1>3. CASE ~(prepare[w].info.patch \/ IsDirAt(prepare[w].info.to))
  <2>1. Gives(w, "failed")
    BY <1>3 DEF Finish, Gives
  <2>2. QED  BY <1>3, <2>1, GivenIs DEF PrepareSteps
<1>4. QED  BY <1>2, <1>3

(* A folder goes to where nothing is.                                       *)
LEMMA PlacedIs ==
  ASSUME DiskTyped, NEW i \in Infos, i.to \notin DOMAIN disk,
         LET parents == Prefixes(Front(i.to)) \ DOMAIN disk
             moved   == {Rebase(q, i.app, i.to) : q \in TreeAt(i.app)}
         IN disk' = [q \in (DOMAIN disk \ TreeAt(i.app)) \cup moved \cup parents |->
                       IF q \in moved THEN disk[Rebase(q, i.to, i.app)]
                       ELSE IF q \in parents
                         THEN [kind |-> "dir", origin |-> q, open |-> TRUE, title |-> NoTitle]
                       ELSE disk[q]]
  PROVE  /\ DiskTyped'
         /\ DOMAIN disk' = (DOMAIN disk \ TreeAt(i.app)) \cup Arrived(i.app, i.to)
                             \cup (Prefixes(Front(i.to)) \ DOMAIN disk)
         /\ \A x \in TreeAt(i.app) :
              Rebase(x, i.app, i.to) \in DOMAIN disk' /\ disk'[Rebase(x, i.app, i.to)] = disk[x]
         /\ \A x \in DOMAIN disk \ TreeAt(i.app) :
              ~IsPrefix(i.to, x) => x \in DOMAIN disk' /\ disk'[x] = disk[x]
<1> DEFINE parents == Prefixes(Front(i.to)) \ DOMAIN disk
           moved == Arrived(i.app, i.to)
           D == (DOMAIN disk \ TreeAt(i.app)) \cup moved \cup parents
           made(q) == [kind |-> "dir", origin |-> q, open |-> TRUE, title |-> NoTitle]
           node(q) == IF q \in moved THEN disk[Rebase(q, i.to, i.app)]
                      ELSE IF q \in parents THEN made(q) ELSE disk[q]
<1>1. disk' = [q \in D |-> node(q)]
  BY DEF Arrived
<1>2. i.app \in Paths /\ i.to \in Paths
  BY DEF Infos
<1>3. \A q \in parents : q \in Paths /\ made(q) \in Node
  <2>1. \A q \in parents : q \in Paths
    BY <1>2, FrontIsPath, PrefixesAre
  <2>2. QED  BY <2>1 DEF Node, Paths
<1>4. \A q \in D : q \in Paths /\ node(q) \in Node
  <2>1. \A q \in moved : q \in Paths /\ disk[Rebase(q, i.to, i.app)] \in Node
    BY <1>2, ArrivedIs, NodeTyped
  <2> HIDE DEF made
  <2>2. QED  BY <1>3, <2>1, NodeTyped
<1>5. \A x \in TreeAt(i.app) : Rebase(x, i.app, i.to) \in D /\ node(Rebase(x, i.app, i.to)) = disk[x]
  BY <1>2, ArrivedIs
<1>6. \A x \in DOMAIN disk \ TreeAt(i.app) :
        ~IsPrefix(i.to, x) => x \in D /\ node(x) = disk[x]
  BY <1>2, ArrivedIs
<1> HIDE DEF node, D
<1>7. DOMAIN disk' = D /\ \A q \in D : disk'[q] = node(q)
  BY <1>1
<1>8. disk' \in [D -> Node]
  <2>1. \A q \in D : node(q) \in Node
    BY <1>4
  <2>2. QED  BY ZenonT(30), <1>1, <2>1
<1>9. DiskTyped'
  BY <1>4, <1>7, <1>8 DEF DiskTyped
<1>10. QED  BY <1>5, <1>6, <1>7, <1>9 DEF D

LEMMA SteppedIs ==
  ASSUME PrepareTypeOK, NEW w \in Preparers, NEW pc \in PrepareSteps \ {"idle"}, Step(w, pc),
         KeepRest, DiskTyped'
  PROVE  /\ PrepareTypeOK' /\ Started(w) /\ announced' = announced
         /\ prepare'[w].pc = pc /\ prepare'[w].info = prepare[w].info
         /\ prepare'[w].backup = prepare[w].backup /\ prepare'[w].cleanup = prepare[w].cleanup
         /\ prepare'[w].apart = prepare[w].apart
<1>1. Entries /\ pc \in PrepareSteps /\ UNCHANGED <<prepareCancel, announced>>
  BY DEF KeepRest, PrepareTypeOK, Entries
<1>2. QED  BY <1>1, StepIs, TypesKept DEF Started

LEMMA UnmovedIs ==
  ASSUME PrepareTypeOK, NEW w \in Preparers, prepare[w].pc # "idle", UNCHANGED prepare,
         KeepRest, DiskTyped'
  PROVE  PrepareTypeOK' /\ Started(w) /\ announced' = announced /\ prepare' = prepare
<1>1. Entries' /\ UNCHANGED <<prepareCancel, announced>>
  BY DEF KeepRest, PrepareTypeOK, Entries
<1>2. QED  BY <1>1, TypesKept DEF Started, OthersAlike

LEMMA ActsTyped ==
  ASSUME PrepareTypeOK, NEW w \in Preparers, Acts(w)
  PROVE  PrepareTypeOK' /\ Started(w)
<1> DEFINE i == prepare[w].info
<1>0. /\ DiskTyped /\ Entries /\ i \in Infos /\ i.app \in Paths /\ i.to \in Paths /\ i.scan \in Paths
      /\ prepare[w].backup \in Paths
  BY EntryTyped DEF PrepareTypeOK, Entries
<1>a. \A d \in Paths : IsPrefix(i.to, d) => Rebase(d, i.to, prepare[w].backup) \in Paths
  BY <1>0, RebaseUnder
<1>1. ASSUME NEW scan \in Scans, AskPrepare(w, scan) PROVE PrepareTypeOK' /\ Started(w)
  BY <1>1, AskedIs
<1>2. CASE ProbeFails(w) \/ MergeFails(w)
  BY <1>2, FailedIs DEF ProbeFails, MergeFails
<1>3. CASE Apply(w)
  BY <1>3, AppliedIs
<1>4. CASE OpenPatch(w)
  <2>1. CASE Gives(w, "failed")
    BY <2>1, FailedIs
  <2>2. CASE disk' = Opened(i.app) /\ Step(w, "backup") /\ KeepRest
    BY <1>0, <2>2, OpenedIs, SteppedIs DEF PrepareSteps
  <2>3. QED  BY <1>4, <2>1, <2>2 DEF OpenPatch
<1>5. CASE OpenApp(w)
  <2>1. CASE Gives(w, "failed")
    BY <2>1, FailedIs
  <2>2. CASE disk' = Opened(i.to) /\ Step(w, "clean") /\ KeepRest
    BY <1>0, <2>2, OpenedIs, SteppedIs DEF PrepareSteps
  <2>3. QED  BY <1>5, <2>1, <2>2 DEF OpenApp
<1>6. CASE PlaceWhole(w)
  <2>1. CASE i.to \in DOMAIN disk
    <3>1. Gives(w, "backup") \/ Gives(w, "failed")
      BY <1>6, <2>1 DEF PlaceWhole
    <3>2. QED  BY <3>1, GivenIs DEF PrepareSteps
  <2>2. CASE i.to \notin DOMAIN disk
    <3>1. CASE i.app \notin DOMAIN disk \/ IsPrefix(i.app, i.to)
      BY <1>6, <2>2, <3>1, FailedIs DEF PlaceWhole
    <3>2. CASE ~(i.app \notin DOMAIN disk \/ IsPrefix(i.app, i.to))
      <4>1. /\ Step(w, "chmod") /\ KeepRest
            /\ LET parents == Prefixes(Front(i.to)) \ DOMAIN disk
                   moved   == {Rebase(q, i.app, i.to) : q \in TreeAt(i.app)}
               IN disk' = [q \in (DOMAIN disk \ TreeAt(i.app)) \cup moved \cup parents |->
                             IF q \in moved THEN disk[Rebase(q, i.to, i.app)]
                             ELSE IF q \in parents
                               THEN [kind |-> "dir", origin |-> q, open |-> TRUE, title |-> NoTitle]
                             ELSE disk[q]]
        BY <1>6, <2>2, <3>2 DEF PlaceWhole
      <4> HIDE DEF i
      <4>2. DiskTyped'
        BY <1>0, <2>2, <4>1, PlacedIs
      <4>3. QED  BY <4>1, <4>2, SteppedIs DEF PrepareSteps
    <3>3. QED  BY <3>1, <3>2
  <2>3. QED  BY <2>1, <2>2
<1>7. CASE BeginBackup(w)
  BY <1>7, BegunIs
<1>8. CASE Finish(w)
  BY <1>8, FinishedIs
<1>9. CASE MergeDone(w)
  <2>1. /\ disk' = [p \in DOMAIN disk \ {i.app} |-> disk[p]] /\ KeepRest
        /\ Step(w, "clean") \/ Step(w, "chmod")
    BY <1>9 DEF MergeDone
  <2>2. DiskTyped'
    BY <1>0, <2>1, RemovedIs
  <2>3. QED  BY <2>1, <2>2, SteppedIs DEF PrepareSteps
<1>10. ASSUME NEW q \in DOMAIN disk, MergeEntry(w, q) PROVE PrepareTypeOK' /\ Started(w)
  <2> DEFINE dst == Rebase(q, i.app, i.to)
  <2>1. prepare[w].pc = "merge" /\ UNCHANGED prepare /\ KeepRest /\ q \in TreeAt(i.app)
        /\ \/ disk' = [p \in DOMAIN disk \ {q} |-> disk[p]]
           \/ disk' = MoveTo(w, q, dst)
    BY <1>10 DEF MergeEntry
  <2>2. q \in Paths /\ IsPrefix(i.app, q)
    BY <1>0, <2>1, ArrivedIs
  <2>3. dst \in Paths /\ IsPrefix(i.to, dst)
    BY <1>0, <2>2, RebaseUnder
  <2> DEFINE saved == Rebase(dst, i.to, prepare[w].backup)
  <2>4. saved \in Paths
    BY <1>a, <2>3
  <2>5. DiskTyped'
    <3>1. CASE disk' = [p \in DOMAIN disk \ {q} |-> disk[p]]
      BY <1>0, <3>1, RemovedIs
    <3>2. CASE disk' = MoveTo(w, q, dst)
      <4> HIDE DEF dst
      <4>1. QED  BY <1>0, <2>2, <2>3, <2>4, <3>2, MoveIs DEF Moves
    <3>3. QED  BY <2>1, <3>1, <3>2
  <2>6. QED  BY <2>1, <2>5, UnmovedIs
<1>11. ASSUME NEW q \in DOMAIN disk, MergeOverItself(w, q) PROVE PrepareTypeOK' /\ Started(w)
  <2> DEFINE dst == Rebase(q, i.app, i.to)
             saved == Rebase(dst, i.to, prepare[w].backup)
  <2>1. /\ Step(w, "failed") /\ KeepRest /\ q \in TreeAt(i.app)
        /\ disk' = [p \in (DOMAIN disk \ TreeAt(dst)) \cup Arrived(dst, saved) |->
                      IF p \in Arrived(dst, saved) THEN disk[Rebase(p, saved, dst)] ELSE disk[p]]
    BY <1>11 DEF MergeOverItself, Arrived
  <2>2. q \in Paths /\ IsPrefix(i.app, q)
    BY <1>0, <2>1, ArrivedIs
  <2>3. dst \in Paths /\ IsPrefix(i.to, dst)
    BY <1>0, <2>2, RebaseUnder
  <2>4. saved \in Paths
    BY <1>a, <2>3
  <2>5. DiskTyped'
    <3> HIDE DEF dst, saved
    <3> QED  BY <1>0, <2>1, <2>3, <2>4, AsideIs
  <2>6. QED  BY <2>1, <2>5, SteppedIs DEF PrepareSteps
<1>12. ASSUME NEW q \in DOMAIN disk, CleanEntry(w, q) PROVE PrepareTypeOK' /\ Started(w)
  <2>1. prepare[w].pc = "clean" /\ UNCHANGED prepare /\ KeepRest
        /\ disk' = [p \in DOMAIN disk \ {q} |-> disk[p]]
    BY <1>12 DEF CleanEntry
  <2>2. QED  BY <1>0, <2>1, RemovedIs, UnmovedIs
<1>13. QED
  BY <1>1, <1>2, <1>3, <1>4, <1>5, <1>6, <1>7, <1>8, <1>9, <1>10, <1>11, <1>12 DEF Acts

LEMMA NextActs ==
  ASSUME [PrepareNext]_prepareVars
  PROVE  \/ \E w \in Preparers : Acts(w)
         \/ UNCHANGED <<disk, prepare, announced>> /\ (prepareCancel' \in {TRUE, prepareCancel})
BY DEF PrepareNext, Acts, CancelPrepare, prepareVars

LEMMA PrepareTyped ==
  ASSUME PrepareTypeOK, [PrepareNext]_prepareVars PROVE PrepareTypeOK'
<1>1. CASE \E w \in Preparers : Acts(w)
  BY <1>1, ActsTyped
<1>2. CASE UNCHANGED <<disk, prepare, announced>> /\ (prepareCancel' \in {TRUE, prepareCancel})
  BY <1>2 DEF PrepareTypeOK, DiskTyped
<1>3. QED  BY <1>1, <1>2, NextActs

LEMMA PrepareStarts == ASSUME PrepareInit PROVE PrepareTypeOK
<1>1. DiskTyped
  BY PrepareAssumption DEF PrepareInit, DiskTyped, Paths
<1>2. <<>> \in Paths
  BY EmptySeq DEF Paths
<1>3. NoInfo \in Infos
  BY <1>2 DEF NoInfo, Infos
<1>4. Waiting \in Prepares
  BY <1>2, <1>3 DEF Waiting, Prepares, PrepareSteps
<1>5. QED  BY <1>1, <1>4 DEF PrepareInit, PrepareTypeOK

(* What the model's variables hold: every path is one, whatever was moved.    *)
THEOREM PrepareTypeCorrect == PrepareSpec => []PrepareTypeOK
<1>1. PrepareTypeOK /\ [PrepareNext]_prepareVars => PrepareTypeOK'
  BY PrepareTyped
<1>2. QED  BY <1>1, PrepareStarts, PTL DEF PrepareSpec

-----------------------------------------------------------------------------
(* AppPrepare: the inductive invariant, of a prepare that is alone.           *)

Alone(w) == \A v \in Preparers \ {w} : prepare[v].pc = "idle"

Moving  == {"open", "place", "backup", "merge"}
Planned == {"open", "place", "backup", "merge", "chmod", "clean"}

(* It has not probed yet, or merges nothing into what it takes away.          *)
Watched(w) ==
  /\ Alone(w)
  /\ prepare[w].pc \in {"idle", "apply"} \/ (prepare[w].pc \in Planned /\ prepare[w].apart)

(* Outside the new backup folder the disk is a tree.                         *)
Treelike(w) ==
  \A p \in DOMAIN disk : w \notin ToSet(p) =>
    \A r \in Paths : IsPrefix(r, p) /\ r # p => IsDirAt(r)

Fresh(w) ==
  prepare[w].pc \in {"idle", "apply", "open", "place", "backup"} =>
    \A p \in DOMAIN disk : w \notin ToSet(p)

PlanOK(w) ==
  LET i == prepare[w].info
  IN prepare[w].pc \in Planned =>
       /\ i.to # <<>> /\ w \notin ToSet(i.app) \cup ToSet(i.to) /\ IsPrefix(i.scan, i.app)
       /\ prepare[w].cleanup => DeleteScanSafe(i.scan, i.app, i.to)
       /\ BackupDir \notin ToSet(i.app) \cup ToSet(i.to)
       /\ prepare[w].pc \in Moving => i.app # i.to /\ IsDirAt(i.app) /\ Apart(i)
       /\ prepare[w].pc = "place" => IsDirAt(Front(i.to))
       /\ prepare[w].pc \in {"open", "backup", "merge"} => IsDirAt(i.to)

(* What is to be deleted was announced, or is still to be moved.             *)
OnlyExtrasLeft(w) ==
  LET i == prepare[w].info
  IN prepare[w].pc \in Planned /\ prepare[w].cleanup =>
       \A p \in TreeAt(i.scan) :
         \/ disk[p].kind = "dir" \/ disk[p].origin \in announced
         \/ prepare[w].pc \in Moving /\ IsPrefix(i.app, p)

(* In the backup folder is nothing that an entry still to be moved would be    *)
(* saved over.                                                              *)
Target(w, q) == Rebase(q, prepare[w].info.app, prepare[w].info.to)
Saved(w, q)  == Rebase(Target(w, q), prepare[w].info.to, prepare[w].backup)
BackupOK(w) ==
  LET i == prepare[w].info
  IN prepare[w].pc = "merge" =>
       /\ prepare[w].backup = Front(i.to) \o <<BackupDir, w>>
       /\ \A p \in DOMAIN disk : w \in ToSet(p) => IsPrefix(prepare[w].backup, p)
       /\ \A p \in DOMAIN disk, q \in TreeAt(i.app) \ {i.app} :
            IsPrefix(Saved(w, q), p) => disk[q].kind = "dir" /\ IsDirAt(Target(w, q))

Sound(w) == Treelike(w) /\ Fresh(w) /\ PlanOK(w) /\ OnlyExtrasLeft(w) /\ BackupOK(w)
PrepareInv == PrepareTypeOK /\ \A w \in Preparers : Watched(w) => Sound(w)

(* A path that no backup is in leads into the backup folder only when it leads  *)
(* to the folder that is in.                                                *)
LEMMA BackupApart ==
  ASSUME NEW f \in Paths, NEW w \in Preparers
  PROVE  /\ f \o <<BackupDir, w>> \in Paths
         /\ \A x \in Paths : IsPrefix(f \o <<BackupDir, w>>, x) =>
              /\ w \in ToSet(x)
              /\ \A a \in Paths : BackupDir \notin ToSet(a) /\ IsPrefix(a, x) => IsPrefix(a, f)
<1> DEFINE s == <<BackupDir, w>>
           b == f \o s
<1>1. BackupDir \in PathNames /\ w \in PathNames /\ Len(f) \in Nat
  BY NamesTyped, PathBasics
<1>2. s \in Paths /\ Len(s) = 2 /\ s[1] = BackupDir /\ s[2] = w
  BY <1>1 DEF Paths
<1> HIDE DEF s
<1>3. /\ b \in Paths /\ Len(b) = Len(f) + 2
      /\ \A i \in 1 .. (Len(f) + 2) : b[i] = IF i <= Len(f) THEN f[i] ELSE s[i - Len(f)]
  <2>1. f \in Seq(PathNames) /\ s \in Seq(PathNames)
    BY <1>2 DEF Paths
  <2>2. /\ f \o s \in Seq(PathNames) /\ Len(f \o s) = Len(f) + Len(s)
        /\ \A i \in 1 .. (Len(f) + Len(s)) :
             (f \o s)[i] = IF i <= Len(f) THEN f[i] ELSE s[i - Len(f)]
    BY <2>1, ConcatProperties
  <2>3. QED  BY <1>2, <2>2 DEF Paths
<1>4. b[Len(f) + 1] = BackupDir /\ b[Len(f) + 2] = w /\ \A i \in 1 .. Len(f) : b[i] = f[i]
  <2>1. /\ Len(f) + 1 \in 1 .. (Len(f) + 2) /\ ~(Len(f) + 1 <= Len(f)) /\ Len(f) + 1 - Len(f) = 1
        /\ Len(f) + 2 \in 1 .. (Len(f) + 2) /\ ~(Len(f) + 2 <= Len(f)) /\ Len(f) + 2 - Len(f) = 2
        /\ \A i \in 1 .. Len(f) : i \in 1 .. (Len(f) + 2) /\ i <= Len(f)
    BY <1>1
  <2>2. QED  BY <1>2, <1>3, <2>1
<1>5. BackupDir \in ToSet(b) /\ w \in ToSet(b)
  <2>1. /\ DOMAIN b = 1 .. (Len(f) + 2)
        /\ Len(f) + 1 \in 1 .. (Len(f) + 2) /\ Len(f) + 2 \in 1 .. (Len(f) + 2)
    <3>1. DOMAIN b = 1 .. Len(b)
      BY <1>3, PathBasics
    <3>2. QED  BY <1>1, <1>3, <3>1
  <2>2. QED  BY <1>4, <2>1 DEF ToSet
<1> HIDE DEF b
<1>6. ASSUME NEW x \in Paths, IsPrefix(b, x)
      PROVE  /\ w \in ToSet(x)
             /\ \A a \in Paths : BackupDir \notin ToSet(a) /\ IsPrefix(a, x) => IsPrefix(a, f)
  <2>1. ToSet(b) \subseteq ToSet(x)
    BY <1>3, <1>6, PrefixOrder
  <2>2. ASSUME NEW a \in Paths, BackupDir \notin ToSet(a), IsPrefix(a, x)
        PROVE  IsPrefix(a, f)
    <3>1. IsPrefix(a, b) \/ IsPrefix(b, a)
      BY <1>3, <1>6, <2>2, PrefixChain
    <3>2. ~IsPrefix(b, a)
      BY <1>3, <1>5, <2>2, PrefixOrder
    <3>3. Len(a) \in Nat /\ DOMAIN a = 1 .. Len(a) /\ \A i \in 1 .. Len(a) : a[i] = b[i]
      BY <1>3, <3>1, <3>2, PathBasics, PrefixIs
    <3>4. Len(a) <= Len(f)
      <4>1. SUFFICES ASSUME ~(Len(a) <= Len(f)) PROVE FALSE
        OBVIOUS
      <4>2. Len(f) + 1 \in 1 .. Len(a)
        BY <1>1, <3>3, <4>1
      <4>3. a[Len(f) + 1] = BackupDir
        BY <1>4, <3>3, <4>2
      <4>4. QED  BY <2>2, <3>3, <4>2, <4>3 DEF ToSet
    <3>5. \A i \in 1 .. Len(a) : a[i] = f[i]
      BY <1>1, <1>4, <3>3, <3>4
    <3>6. QED  BY <3>4, <3>5, PrefixIs
  <2>3. QED  BY <1>5, <2>1, <2>2
<1>7. QED  BY <1>3, <1>6 DEF b, s

(* Where an entry of the app goes: into the target and to nowhere that is taken  *)
(* away.                                                                    *)
LEMMA TargetIs ==
  ASSUME PrepareTypeOK, NEW w \in Preparers, prepare[w].pc \in Moving, PlanOK(w),
         NEW q \in TreeAt(prepare[w].info.app)
  PROVE  LET i == prepare[w].info
         IN /\ q \in Paths /\ IsPrefix(i.app, q)
            /\ Target(w, q) \in Paths /\ IsPrefix(i.to, Target(w, q))
            /\ Target(w, q) = i.to <=> q = i.app
            /\ ~IsPrefix(i.app, Target(w, q)) /\ ~IsPrefix(i.app, i.to)
            /\ prepare[w].cleanup => ~IsPrefix(i.scan, Target(w, q))
            /\ w \notin ToSet(q) => w \notin ToSet(Target(w, q))
<1> DEFINE i == prepare[w].info
           dst == Rebase(q, i.app, i.to)
<1>1. Entries /\ DiskTyped /\ i \in Infos /\ i.app \in Paths /\ i.to \in Paths /\ i.scan \in Paths
  BY EntryTyped DEF PrepareTypeOK, Entries
<1>2. /\ prepare[w].pc \in Planned /\ i.app # i.to /\ IsDirAt(i.app) /\ Apart(i)
      /\ w \notin ToSet(i.to)
      /\ prepare[w].cleanup => DeleteScanSafe(i.scan, i.app, i.to)
  BY DEF PlanOK, Planned, Moving
<1>3. q \in Paths /\ IsPrefix(i.app, q)
  BY <1>1, ArrivedIs
<1>4. /\ dst \in Paths /\ IsPrefix(i.to, dst)
      /\ dst = i.to <=> q = i.app
      /\ ToSet(dst) \subseteq ToSet(i.to) \cup ToSet(q)
  <2> HIDE DEF i
  <2>1. i.app \in Paths /\ i.to \in Paths /\ q \in Paths /\ IsPrefix(i.app, q)
    BY <1>1, <1>3
  <2>2. dst \in Paths /\ IsPrefix(i.to, dst)
    BY <2>1, RebaseUnder
  <2>3. q = i.app <=> dst = i.to
    <3>1. q # i.app => dst # i.to
      BY <2>1, RebaseStrictly
    <3>2. Rebase(i.app, i.app, i.to) = i.to
      BY <2>1, RebaseTop
    <3>3. QED  BY <3>1, <3>2
  <2>4. ToSet(dst) \subseteq ToSet(i.to) \cup ToSet(q)
    BY <2>1, RebaseUnder
  <2>5. QED  BY <2>2, <2>3, <2>4
<1>5. \A x \in TreeAt(i.app) :
        /\ ~IsPrefix(i.app, Rebase(x, i.app, i.to))
        /\ IsStrictPrefix(i.to, i.scan) => ~IsPrefix(i.scan, Rebase(x, i.app, i.to))
  <2> HIDE DEF i
  <2> QED  BY <1>2 DEF Apart
<1>6. ~IsPrefix(i.app, i.to)
  <2>1. i.app \in TreeAt(i.app)
    BY <1>1, <1>2, PrefixOrder DEF TreeAt, IsDirAt
  <2>2. Rebase(i.app, i.app, i.to) = i.to
    BY <1>1, RebaseTop
  <2>3. QED  BY <1>5, <2>1, <2>2
<1>7. ASSUME prepare[w].cleanup PROVE ~IsPrefix(i.scan, dst)
  <2>1. ~IsPrefix(i.scan, i.to)
    BY <1>2, <1>7 DEF DeleteScanSafe
  <2>2. SUFFICES ASSUME IsPrefix(i.scan, dst) PROVE FALSE
    OBVIOUS
  <2>3. IsPrefix(i.to, i.scan)
    BY <1>1, <1>4, <2>1, <2>2, PrefixChain
  <2>4. IsStrictPrefix(i.to, i.scan)
    BY <1>1, <2>1, <2>3, PrefixOrder DEF IsStrictPrefix
  <2>5. QED  BY <1>5, <2>2, <2>4
<1>8. QED  BY <1>2, <1>3, <1>4, <1>5, <1>6, <1>7 DEF Target

(* Nothing of the app, of the target or of a folder that is to be deleted is in  *)
(* the new backup.                                                          *)
LEMMA BackupIs ==
  ASSUME PrepareTypeOK, NEW w \in Preparers, prepare[w].pc = "merge", PlanOK(w), BackupOK(w)
  PROVE  LET i == prepare[w].info
         IN /\ prepare[w].backup \in Paths
            /\ \A x \in Paths : IsPrefix(prepare[w].backup, x) =>
                 /\ w \in ToSet(x) /\ ~IsPrefix(i.to, x)
                 /\ ~IsPrefix(i.app, i.to) => ~IsPrefix(i.app, x)
                 /\ prepare[w].cleanup => ~IsPrefix(i.scan, x)
<1> DEFINE i == prepare[w].info
           f == Front(i.to)
           b == prepare[w].backup
<1>1. Entries /\ i \in Infos /\ i.app \in Paths /\ i.to \in Paths /\ i.scan \in Paths
  BY EntryTyped DEF PrepareTypeOK, Entries
<1>2. b = f \o <<BackupDir, w>>
  BY DEF BackupOK
<1>3. /\ i.to # <<>> /\ BackupDir \notin ToSet(i.app) /\ BackupDir \notin ToSet(i.to)
      /\ IsPrefix(i.scan, i.app)
      /\ prepare[w].cleanup => DeleteScanSafe(i.scan, i.app, i.to)
  BY DEF PlanOK, Planned
<1>4. /\ f \in Paths /\ IsPrefix(f, i.to) /\ f # i.to
  BY <1>1, <1>3, FrontIs
<1> HIDE DEF i, f, b
<1>5. b \in Paths /\ \A x \in Paths : IsPrefix(b, x) =>
        /\ w \in ToSet(x)
        /\ \A a \in Paths : BackupDir \notin ToSet(a) /\ IsPrefix(a, x) => IsPrefix(a, f)
  BY <1>2, <1>4, BackupApart
<1>6. \A a \in Paths : IsPrefix(a, f) => IsPrefix(a, i.to) /\ a # i.to
  BY <1>1, <1>4, PrefixChain, PrefixOrder
<1>7. BackupDir \notin ToSet(i.scan)
  BY <1>1, <1>3, PrefixOrder
<1>8. prepare[w].cleanup => ~IsPrefix(i.scan, i.to)
  BY <1>3 DEF DeleteScanSafe
<1>9. QED  BY <1>1, <1>3, <1>5, <1>6, <1>7, <1>8 DEF i, b

-----------------------------------------------------------------------------
(* What a probe plans.                                                      *)

LEMMA PreparedPathIs ==
  ASSUME PrepareTypeOK, NEW w \in Preparers, Treelike(w), \A p \in DOMAIN disk : w \notin ToSet(p),
         NEW scan \in Paths, IsDirAt(scan), NEW c \in Candidates(scan)
  PROVE  LET to == PreparedPath(scan, Context(scan), c)
             home == AppPath(Homebrew, c.title)
         IN /\ w \notin ToSet(to)
            /\ ~c.patch => to = c.path \/ IsDirAt(Front(to))
            /\ ~c.patch => to = home \/ (~IsDirAt(home) /\ Last(to) = AppName[c.title])
<1> DEFINE here == Context(scan)
           to == PreparedPath(scan, here, c)
           home == AppPath(Homebrew, c.title)
           beside == AppPath(Front(scan), c.title)
<1>1. DiskTyped /\ c.title \in Titles /\ c.path \in Paths /\ c.path \in DOMAIN disk
  BY CandidateIs DEF PrepareTypeOK, TreeAt
<1>2. /\ home \in Paths /\ home # <<>> /\ Front(home) = Homebrew /\ Last(home) = AppName[c.title]
      /\ w \notin ToSet(home)
  <2>1. ToSet(home) \subseteq ToSet(Homebrew) \cup {AppName[c.title]}
    BY <1>1, AppPathTyped, NamesTyped
  <2>2. w \notin ToSet(Homebrew) /\ w # AppName[c.title]
    BY <1>1, NamesTyped
  <2>3. QED  BY <1>1, <2>1, <2>2, AppPathTyped, NamesTyped
<1>3. Front(scan) \in Paths /\ w \notin ToSet(Front(scan)) /\ IsDirAt(Front(scan))
  <2>1. CASE scan = <<>>
    <3>1. SubSeq(scan, 1, Len(scan) - 1) = <<>>
      BY <2>1, SubSeqEmpty
    <3>2. QED  BY <2>1, <3>1 DEF Front, IsDirAt
  <2>2. CASE scan # <<>>
    <3>1. Front(scan) \in Paths /\ IsPrefix(Front(scan), scan) /\ Front(scan) # scan
      BY <2>2, FrontIs
    <3>2. IsDirAt(Front(scan))
      BY <3>1 DEF Treelike, IsDirAt
    <3>3. QED  BY <3>1, <3>2 DEF IsDirAt
  <2>3. QED  BY <2>1, <2>2
<1>4. /\ beside \in Paths /\ beside # <<>> /\ Front(beside) = Front(scan)
      /\ Last(beside) = AppName[c.title] /\ w \notin ToSet(beside)
  <2>1. ToSet(beside) \subseteq ToSet(Front(scan)) \cup {AppName[c.title]}
    BY <1>1, <1>3, AppPathTyped
  <2>2. w # AppName[c.title]
    BY <1>1, NamesTyped
  <2>3. QED  BY <1>1, <1>3, <2>1, <2>2, AppPathTyped
<1>5. here # <<>> => here \in DOMAIN disk
  BY <1>1, ContextIs DEF IsAppDir, IsDirAt
<1>6. IsDirAt(home) => IsDirAt(Homebrew)
  <2>1. IsPrefix(Homebrew, home) /\ Homebrew # home /\ Homebrew \in Paths
    BY <1>2, FrontIs, NamesTyped
  <2>2. QED  BY <1>2, <2>1 DEF Treelike, IsDirAt
<1>7. to = IF c.patch /\ here # <<>> /\ IsStrictPrefix(here, c.path) THEN here
           ELSE IF c.path = home \/ IsDirAt(home) THEN home
           ELSE IF IsDirAt(beside) THEN beside
           ELSE IF IsDirAt(Homebrew) THEN home
           ELSE IF ~c.patch /\ Named(c) THEN c.path
           ELSE beside
  BY DEF PreparedPath
<1> HIDE DEF here, to, home, beside
<1>8. w \notin ToSet(to)
  BY <1>1, <1>2, <1>4, <1>5, <1>7
<1>9. ~c.patch => to = c.path \/ IsDirAt(Front(to))
  BY <1>2, <1>3, <1>4, <1>6, <1>7
<1>10. ~c.patch => to = home \/ (~IsDirAt(home) /\ Last(to) = AppName[c.title])
  BY <1>2, <1>4, <1>7 DEF Named
<1>11. QED  BY <1>8, <1>9, <1>10 DEF to, here, home

(* No step makes a file disappear that is not announced.                     *)
Kept ==
  \A p \in DOMAIN disk : disk[p].kind # "dir" =>
    \/ disk[p].origin \in announced
    \/ \E r \in DOMAIN disk' : disk'[r].kind # "dir" /\ disk'[r].origin = disk[p].origin

LEMMA KeptAsIs == ASSUME UNCHANGED disk PROVE Kept
BY DEF Kept

LEMMA AskSound ==
  ASSUME PrepareTypeOK, NEW w \in Preparers, Watched(w), Sound(w), NEW scan \in Scans,
         AskPrepare(w, scan)
  PROVE  Kept /\ Sound(w)'
<1>1. prepare[w].pc = "idle" /\ UNCHANGED disk /\ prepare'[w].pc = "apply"
  BY AskedIs DEF AskPrepare
<1>2. Treelike(w)' /\ Fresh(w)'
  BY <1>1 DEF Sound, Treelike, Fresh, IsDirAt
<1>3. PlanOK(w)' /\ OnlyExtrasLeft(w)' /\ BackupOK(w)'
  BY <1>1 DEF PlanOK, OnlyExtrasLeft, BackupOK, Planned
<1>4. QED  BY <1>1, <1>2, <1>3, KeptAsIs DEF Sound

LEMMA ApplySound ==
  ASSUME PrepareTypeOK, NEW w \in Preparers, Watched(w), Sound(w), Apply(w)
  PROVE  Kept /\ (Watched(w)' => Sound(w)')
<1> DEFINE scan == prepare[w].info.scan
<1>1. UNCHANGED disk /\ prepare[w].pc = "apply" /\ IsDirAt(scan)
  BY AppliedIs DEF Apply
<1>2. SUFFICES ASSUME Watched(w)' PROVE Sound(w)'
  BY <1>1, KeptAsIs
<1>3. PICK i \in Probe(scan) :
        /\ ~Refused(i) /\ Planning(w, i)
        /\ announced' = announced \cup {disk[q].origin : q \in i.extra}
  <2>1. prepare'[w].pc # "failed"
    BY <1>2 DEF Watched, Planned
  <2>2. QED  BY <2>1, AppliedIs
<1>4. /\ prepare'[w].info = i /\ prepare'[w].apart = Apart(i)
      /\ prepare'[w].cleanup = (DeleteScanSafe(i.scan, i.app, i.to) /\ (i.patch \/ i.extra # {}))
      /\ prepare'[w].pc = IF i.patch THEN "open" ELSE IF i.app = i.to THEN "chmod" ELSE "place"
  BY <1>3 DEF Planning
<1>5. DiskTyped /\ scan \in Paths /\ Treelike(w) /\ \A p \in DOMAIN disk : w \notin ToSet(p)
  BY <1>1, EntryTyped DEF PrepareTypeOK, Entries, Sound, Fresh
<1>6. PICK c \in Candidates(scan) :
        /\ i.scan = scan /\ i.app = c.path /\ i.title = c.title /\ i.patch = c.patch
        /\ i.to = PreparedPath(scan, Context(scan), c) /\ i.extra = Extras(scan, c.path, i.to)
        /\ i.to # <<>>
  BY <1>5, InfoTyped
<1>7. /\ i.app \in Paths /\ i.app \in DOMAIN disk /\ IsDirAt(i.app) /\ IsPrefix(scan, i.app)
  BY <1>5, <1>6, CandidateIs DEF TreeAt
<1>8. /\ w \notin ToSet(i.to)
      /\ ~i.patch => i.to = i.app \/ IsDirAt(Front(i.to))
  BY <1>1, <1>5, <1>6, PreparedPathIs
<1>9. Apart(i)
  BY <1>2, <1>4 DEF Watched, Planned
<1>10. Treelike(w)' /\ Fresh(w)'
  BY <1>1, <1>5 DEF Treelike, Fresh, IsDirAt
<1>11. PlanOK(w)'
  <2>1. prepare'[w].pc \in Moving => i.app # i.to
    BY <1>3, <1>4 DEF Moving, Refused
  <2>2. prepare'[w].pc = "place" => IsDirAt(Front(i.to))
    BY <1>4, <1>8
  <2>3. prepare'[w].pc \in {"open", "backup", "merge"} => IsDirAt(i.to)
    BY <1>3, <1>4 DEF Refused
  <2>4. /\ w \notin ToSet(i.app) /\ BackupDir \notin ToSet(i.app) \cup ToSet(i.to)
    BY <1>5, <1>7, <1>9 DEF Apart
  <2>5. Apart(i)' /\ IsDirAt(i.app)' /\ IsDirAt(Front(i.to))' = IsDirAt(Front(i.to))
        /\ IsDirAt(i.to)' = IsDirAt(i.to)
    BY <1>1, <1>7, <1>9 DEF Apart, IsDirAt, TreeAt
  <2>6. QED  BY <1>4, <1>6, <1>7, <1>8, <2>1, <2>2, <2>3, <2>4, <2>5 DEF PlanOK
<1>12. OnlyExtrasLeft(w)'
  <2>1. SUFFICES ASSUME prepare'[w].cleanup, NEW p \in TreeAt(scan)
                 PROVE  \/ disk[p].kind = "dir" \/ disk[p].origin \in announced'
                        \/ prepare'[w].pc \in Moving /\ IsPrefix(i.app, p)
    BY <1>1, <1>4, <1>6 DEF OnlyExtrasLeft, TreeAt
  <2>2. DeleteScanSafe(scan, i.app, i.to)
    BY <1>4, <1>6, <2>1
  <2>3. prepare'[w].pc \in Moving
    BY <1>4, <2>2 DEF DeleteScanSafe, Moving
  <2>4. CASE p = scan
    BY <1>1, <2>4 DEF IsDirAt
  <2>5. CASE p # scan /\ ~IsPrefix(i.app, p) /\ disk[p].kind # "dir"
    <3>1. p \in i.extra
      BY <1>6, <2>2, <2>5 DEF Extras
    <3>2. QED  BY <1>3, <3>1
  <2>6. QED  BY <2>3, <2>4, <2>5
<1>13. BackupOK(w)'
  BY <1>4 DEF BackupOK
<1>14. QED  BY <1>10, <1>11, <1>12, <1>13 DEF Sound

LEMMA SameShape ==
  ASSUME NEW i, NEW w,
         DOMAIN disk' = DOMAIN disk, \A q \in DOMAIN disk : disk'[q].kind = disk[q].kind
  PROVE  /\ IsDirAt(i.app) => IsDirAt(i.app)'
         /\ IsDirAt(i.to) => IsDirAt(i.to)'
         /\ TreeAt(i.scan)' = TreeAt(i.scan)
         /\ Apart(i) => Apart(i)'
         /\ Treelike(w) => Treelike(w)'
<1>1. IsDirAt(i.app) => IsDirAt(i.app)'
  BY DEF IsDirAt
<1>2. IsDirAt(i.to) => IsDirAt(i.to)'
  BY DEF IsDirAt
<1>3. TreeAt(i.scan)' = TreeAt(i.scan)
  BY DEF TreeAt
<1>4. Apart(i) => Apart(i)'
  BY DEF Apart, TreeAt
<1>5. Treelike(w) => Treelike(w)'
  BY DEF Treelike, IsDirAt
<1>6. QED  BY <1>1, <1>2, <1>3, <1>4, <1>5

LEMMA OpenSound ==
  ASSUME PrepareTypeOK, NEW w \in Preparers, Watched(w), Sound(w), OpenPatch(w) \/ OpenApp(w)
  PROVE  Kept /\ (Watched(w)' => Sound(w)')
<1>0. PICK i : i = prepare[w].info
  OBVIOUS
<1>1. DiskTyped /\ i.app \in Paths /\ i.to \in Paths
  BY <1>0, EntryTyped DEF PrepareTypeOK, Entries
<1>2. CASE Gives(w, "failed")
  <2>1. prepare'[w].pc = "failed" /\ UNCHANGED disk
    BY <1>2, FailedIs
  <2>2. QED  BY <2>1, KeptAsIs DEF Watched, Planned
<1>3. ASSUME NEW p \in Paths, NEW pc \in {"backup", "clean"}, disk' = Opened(p), Step(w, pc), KeepRest,
             pc = "backup" => prepare[w].pc = "open",
             pc = "clean" => prepare[w].pc = "chmod"
      PROVE  Kept /\ Sound(w)'
  <2>1. /\ DiskTyped' /\ DOMAIN disk' = DOMAIN disk
        /\ \A q \in DOMAIN disk : disk'[q].kind = disk[q].kind /\ disk'[q].origin = disk[q].origin
    BY <1>1, <1>3, OpenedIs
  <2>2. /\ announced' = announced /\ prepare'[w].pc = pc /\ prepare'[w].info = i
        /\ prepare'[w].cleanup = prepare[w].cleanup
    BY <1>0, <1>3, <2>1, SteppedIs DEF PrepareSteps
  <2>3. /\ IsDirAt(i.app) => IsDirAt(i.app)'
        /\ IsDirAt(i.to) => IsDirAt(i.to)'
        /\ TreeAt(i.scan)' = TreeAt(i.scan)
        /\ Apart(i) => Apart(i)'
        /\ Treelike(w)'
    BY <2>1, SameShape DEF Sound
  <2>4. Fresh(w)'
    BY <1>3, <2>1, <2>2 DEF Sound, Fresh
  <2>5. PlanOK(w)'
    <3>1. CASE pc = "backup"
      <4>1. prepare[w].pc = "open"
        BY <1>3, <3>1
      <4>2. /\ i.to # <<>> /\ w \notin ToSet(i.app) \cup ToSet(i.to) /\ IsPrefix(i.scan, i.app)
            /\ prepare[w].cleanup => DeleteScanSafe(i.scan, i.app, i.to)
            /\ BackupDir \notin ToSet(i.app) \cup ToSet(i.to)
            /\ i.app # i.to /\ IsDirAt(i.app) /\ Apart(i) /\ IsDirAt(i.to)
        BY <1>0, <4>1 DEF Sound, PlanOK, Planned, Moving
      <4>3. QED  BY <2>2, <2>3, <3>1, <4>2 DEF PlanOK
    <3>2. CASE pc = "clean"
      <4>1. prepare[w].pc = "chmod"
        BY <1>3, <3>2
      <4>2. /\ i.to # <<>> /\ w \notin ToSet(i.app) \cup ToSet(i.to) /\ IsPrefix(i.scan, i.app)
            /\ prepare[w].cleanup => DeleteScanSafe(i.scan, i.app, i.to)
            /\ BackupDir \notin ToSet(i.app) \cup ToSet(i.to)
        BY <1>0, <4>1 DEF Sound, PlanOK, Planned
      <4>3. QED  BY <2>2, <3>2, <4>2 DEF PlanOK, Moving
    <3>3. QED  BY <1>3, <3>1, <3>2
  <2>6. OnlyExtrasLeft(w)'
    <3>1. \A q \in TreeAt(i.scan) : q \in DOMAIN disk
      BY DEF TreeAt
    <3>2. prepare[w].pc \in Planned /\ (prepare[w].pc \in Moving => pc \in Moving)
      BY <1>3 DEF Planned, Moving
    <3>3. prepare[w].cleanup => \A q \in TreeAt(i.scan) :
            \/ disk[q].kind = "dir" \/ disk[q].origin \in announced
            \/ prepare[w].pc \in Moving /\ IsPrefix(i.app, q)
      BY <1>0, <3>2 DEF Sound, OnlyExtrasLeft
    <3>4. QED  BY <2>1, <2>2, <2>3, <3>1, <3>2, <3>3 DEF OnlyExtrasLeft
  <2>7. BackupOK(w)'
    BY <1>3, <2>2 DEF BackupOK
  <2>8. Kept
    BY <2>1 DEF Kept
  <2>9. QED  BY <2>3, <2>4, <2>5, <2>6, <2>7, <2>8 DEF Sound
<1>4. CASE OpenPatch(w)
  <2>1. CASE prepareCancel \/ ~IsDirAt(i.app)
    BY <1>0, <1>2, <1>4, <2>1 DEF OpenPatch
  <2>2. CASE ~(prepareCancel \/ ~IsDirAt(i.app))
    BY <1>0, <1>1, <1>3, <1>4, <2>2 DEF OpenPatch
  <2>3. QED  BY <2>1, <2>2
<1>5. CASE OpenApp(w)
  <2>1. CASE prepareCancel \/ ~IsDirAt(i.to)
    BY <1>0, <1>2, <1>5, <2>1 DEF OpenApp
  <2>2. CASE ~(prepareCancel \/ ~IsDirAt(i.to))
    BY <1>0, <1>1, <1>3, <1>5, <2>2 DEF OpenApp
  <2>3. QED  BY <2>1, <2>2
<1>6. QED  BY <1>4, <1>5

LEMMA BeginSound ==
  ASSUME PrepareTypeOK, NEW w \in Preparers, Watched(w), Sound(w), BeginBackup(w)
  PROVE  Kept /\ Sound(w)'
<1> DEFINE i == prepare[w].info
           b == Front(i.to) \o <<BackupDir, w>>
<1>1. /\ UNCHANGED <<disk, announced>> /\ prepare[w].pc = "backup" /\ prepare'[w].pc = "merge"
      /\ prepare'[w].info = i /\ prepare'[w].backup = b /\ prepare'[w].cleanup = prepare[w].cleanup
  BY BegunIs DEF BeginBackup
<1>2. Treelike(w)' /\ Fresh(w)'
  BY <1>1 DEF Sound, Treelike, Fresh, IsDirAt
<1>3. PlanOK(w)'
  BY <1>1 DEF Sound, PlanOK, Planned, Moving, IsDirAt, Apart, TreeAt
<1>4. OnlyExtrasLeft(w)'
  BY <1>1 DEF Sound, OnlyExtrasLeft, Planned, Moving, TreeAt
<1>5. BackupOK(w)'
  <2>1. \A p \in DOMAIN disk : w \notin ToSet(p)
    BY <1>1 DEF Sound, Fresh
  <2>2. DiskTyped /\ i.app \in Paths /\ i.to \in Paths /\ PlanOK(w) /\ prepare[w].pc \in Moving
    BY <1>1, EntryTyped DEF PrepareTypeOK, Entries, Sound, Moving
  <2>3. b \in Paths /\ \A x \in Paths : IsPrefix(b, x) => w \in ToSet(x)
    BY <2>2, FrontIsPath, BackupApart
  <2>4. ASSUME NEW p \in DOMAIN disk, NEW q \in TreeAt(i.app),
               IsPrefix(Rebase(Rebase(q, i.app, i.to), i.to, b), p)
        PROVE  FALSE
    <3>1. Rebase(q, i.app, i.to) \in Paths /\ IsPrefix(i.to, Rebase(q, i.app, i.to))
      BY <2>2, TargetIs DEF Target
    <3> DEFINE s == Rebase(Rebase(q, i.app, i.to), i.to, b)
    <3>2. s \in Paths /\ IsPrefix(b, s)
      <4> HIDE DEF b
      <4> QED  BY <2>2, <2>3, <3>1, RebaseUnder
    <3> HIDE DEF s
    <3>3. p \in Paths /\ IsPrefix(s, p)
      BY <2>2, <2>4 DEF DiskTyped, s
    <3>4. IsPrefix(b, p)
      <4> HIDE DEF b
      <4> QED  BY <2>3, <3>2, <3>3, PrefixChain
    <3>5. QED  BY <2>1, <2>3, <3>3, <3>4
  <2> HIDE DEF i, b
  <2>5. QED  BY <1>1, <2>1, <2>4 DEF BackupOK, Saved, Target, TreeAt, i, b
<1>6. QED  BY <1>1, <1>2, <1>3, <1>4, <1>5, KeptAsIs DEF Sound

LEMMA KidOf ==
  ASSUME DiskTyped, NEW w, Treelike(w), NEW p \in DOMAIN disk, w \notin ToSet(p),
         NEW q \in Paths, IsPrefix(q, p), q # p
  PROVE  KidsAt(q) # {}
<1> DEFINE k == SubSeq(p, 1, Len(q) + 1)
<1>1. p \in Paths
  BY DEF DiskTyped
<1>2. Len(q) \in Nat /\ Len(p) \in Nat /\ Len(q) < Len(p) /\ \A j \in 1 .. Len(q) : q[j] = p[j]
  <2>1. Len(q) \in Nat /\ Len(p) \in Nat
    BY <1>1, PathBasics
  <2>2. Len(q) <= Len(p) /\ Len(q) # Len(p)
    BY <1>1, PrefixOrder
  <2>3. \A j \in 1 .. Len(q) : q[j] = p[j]
    BY <1>1, PrefixIs
  <2>4. QED  BY <2>1, <2>2, <2>3
<1>3. k \in Paths /\ Len(k) = Len(q) + 1 /\ \A j \in 1 .. (Len(q) + 1) : k[j] = p[j]
  <2>1. Len(q) + 1 \in 0 .. Len(p) /\ 1 \in Nat \ {0} /\ 1 <= Len(q) + 1 + 1
        /\ Len(q) + 1 - 1 + 1 = Len(q) + 1 /\ \A j \in 1 .. (Len(q) + 1) : 1 + j - 1 = j
    BY <1>2
  <2>2. /\ k \in Paths /\ Len(k) = Len(q) + 1 - 1 + 1
        /\ \A j \in 1 .. (Len(q) + 1 - 1 + 1) : k[j] = p[1 + j - 1]
    BY <1>1, <2>1, PartOf
  <2>3. QED  BY <2>1, <2>2
<1> HIDE DEF k
<1>4. IsPrefix(k, p) /\ IsPrefix(q, k)
  <2>1. Len(k) <= Len(p) /\ Len(q) <= Len(k) /\ \A j \in 1 .. Len(q) : j \in 1 .. (Len(q) + 1)
    BY <1>2, <1>3
  <2>2. QED  BY <1>1, <1>2, <1>3, <2>1, PrefixIs
<1>5. k \in DOMAIN disk
  BY <1>3, <1>4 DEF Treelike, IsDirAt
<1>6. QED  BY <1>3, <1>4, <1>5 DEF KidsAt, TreeAt

LEMMA CleanSound ==
  ASSUME PrepareTypeOK, NEW w \in Preparers, Watched(w), Sound(w), NEW q \in DOMAIN disk,
         CleanEntry(w, q)
  PROVE  Kept /\ Sound(w)'
<1>0. PICK i : i = prepare[w].info
  OBVIOUS
<1>1. /\ prepare[w].pc = "clean" /\ prepare[w].cleanup /\ q \in TreeAt(i.scan) /\ KidsAt(q) = {}
      /\ disk' = [p \in DOMAIN disk \ {q} |-> disk[p]] /\ UNCHANGED prepare /\ announced' = announced
  BY <1>0 DEF CleanEntry, KeepRest
<1>2. DiskTyped /\ q \in Paths
  BY DEF PrepareTypeOK, DiskTyped
<1>3. DOMAIN disk' = DOMAIN disk \ {q} /\ \A p \in DOMAIN disk \ {q} : disk'[p] = disk[p]
  BY <1>1
<1>4. \A p \in TreeAt(i.scan) : disk[p].kind = "dir" \/ disk[p].origin \in announced
  BY <1>0, <1>1 DEF Sound, OnlyExtrasLeft, Planned, Moving
<1>5. Kept
  BY <1>1, <1>3, <1>4 DEF Kept
<1>6. Treelike(w)'
  <2>1. SUFFICES ASSUME NEW p \in DOMAIN disk', w \notin ToSet(p),
                        NEW r \in Paths, IsPrefix(r, p), r # p
                 PROVE  IsDirAt(r)'
    BY DEF Treelike
  <2>2. p \in DOMAIN disk /\ IsDirAt(r)
    BY <1>3, <2>1 DEF Sound, Treelike
  <2>3. r # q
    BY <1>1, <1>2, <2>1, <2>2, KidOf DEF Sound
  <2>4. QED  BY <1>3, <2>2, <2>3 DEF IsDirAt
<1>7. Fresh(w)' /\ BackupOK(w)'
  BY <1>1 DEF Fresh, BackupOK
<1>8. PlanOK(w)'
  BY <1>1 DEF Sound, PlanOK, Planned, Moving
<1>9. OnlyExtrasLeft(w)'
  BY <1>0, <1>1, <1>3, <1>4 DEF OnlyExtrasLeft, TreeAt
<1>10. QED  BY <1>5, <1>6, <1>7, <1>8, <1>9 DEF Sound

LEMMA DoneSound ==
  ASSUME PrepareTypeOK, NEW w \in Preparers, Watched(w), Sound(w), MergeDone(w)
  PROVE  Kept /\ Sound(w)'
<1>0. PICK i : i = prepare[w].info
  OBVIOUS
<1>1. /\ prepare[w].pc = "merge" /\ TreeAt(i.app) = {i.app}
      /\ disk' = [p \in DOMAIN disk \ {i.app} |-> disk[p]]
      /\ KeepRest
  BY <1>0 DEF MergeDone
<1>2. PICK pc \in {"clean", "chmod"} : Step(w, pc)
  BY <1>0 DEF MergeDone
<1>3. DiskTyped /\ DiskTyped'
  BY <1>1, RemovedIs DEF PrepareTypeOK
<1>4. /\ prepare'[w].pc = pc /\ prepare'[w].info = i /\ announced' = announced
      /\ prepare'[w].cleanup = prepare[w].cleanup
  BY <1>0, <1>1, <1>2, <1>3, SteppedIs DEF PrepareSteps
<1>5. DOMAIN disk' = DOMAIN disk \ {i.app} /\ \A p \in DOMAIN disk \ {i.app} : disk'[p] = disk[p]
  BY <1>1
<1>6. /\ i.to # <<>> /\ w \notin ToSet(i.app) \cup ToSet(i.to) /\ IsPrefix(i.scan, i.app)
      /\ prepare[w].cleanup => DeleteScanSafe(i.scan, i.app, i.to)
      /\ BackupDir \notin ToSet(i.app) \cup ToSet(i.to)
      /\ IsDirAt(i.app)
  BY <1>0, <1>1 DEF Sound, PlanOK, Planned, Moving
<1>7. \A p \in DOMAIN disk \ {i.app} : ~IsPrefix(i.app, p)
  BY <1>1 DEF TreeAt
<1>8. Kept
  BY <1>5, <1>6 DEF Kept, IsDirAt
<1>9. Treelike(w)'
  <2>1. SUFFICES ASSUME NEW p \in DOMAIN disk', w \notin ToSet(p),
                        NEW r \in Paths, IsPrefix(r, p), r # p
                 PROVE  IsDirAt(r)'
    BY DEF Treelike
  <2>2. p \in DOMAIN disk \ {i.app} /\ IsDirAt(r)
    BY <1>5, <2>1 DEF Sound, Treelike
  <2>3. r # i.app
    BY <1>7, <2>1, <2>2
  <2>4. QED  BY <1>5, <2>2, <2>3 DEF IsDirAt
<1>10. Fresh(w)' /\ BackupOK(w)'
  BY <1>2, <1>4 DEF Fresh, BackupOK
<1>11. PlanOK(w)'
  BY <1>2, <1>4, <1>6 DEF PlanOK, Moving
<1>12. OnlyExtrasLeft(w)'
  <2>1. prepare[w].cleanup => \A p \in TreeAt(i.scan) :
          disk[p].kind = "dir" \/ disk[p].origin \in announced \/ IsPrefix(i.app, p)
    BY <1>0, <1>1 DEF Sound, OnlyExtrasLeft, Planned
  <2>2. QED  BY <1>4, <1>5, <1>7, <2>1 DEF OnlyExtrasLeft, TreeAt
<1>13. QED  BY <1>8, <1>9, <1>10, <1>11, <1>12 DEF Sound

LEMMA PlaceSound ==
  ASSUME PrepareTypeOK, NEW w \in Preparers, Watched(w), Sound(w), PlaceWhole(w)
  PROVE  Kept /\ (Watched(w)' => Sound(w)')
<1>0. PICK i : i = prepare[w].info
  OBVIOUS
<1>1. /\ DiskTyped /\ i \in Infos /\ i.app \in Paths /\ i.to \in Paths /\ i.scan \in Paths
      /\ prepare[w].pc = "place" /\ prepare[w].pc \in Planned /\ prepare[w].pc \in Moving
  BY <1>0, EntryTyped DEF PrepareTypeOK, Entries, PlaceWhole, Planned, Moving
<1>2. /\ i.to # <<>> /\ w \notin ToSet(i.app) \cup ToSet(i.to) /\ IsPrefix(i.scan, i.app)
      /\ prepare[w].cleanup => DeleteScanSafe(i.scan, i.app, i.to)
      /\ BackupDir \notin ToSet(i.app) \cup ToSet(i.to)
      /\ i.app # i.to /\ IsDirAt(i.app) /\ Apart(i) /\ IsDirAt(Front(i.to))
  BY <1>0, <1>1 DEF Sound, PlanOK
<1>3. CASE Gives(w, "failed")
  <2>1. prepare'[w].pc = "failed" /\ UNCHANGED disk
    BY <1>3, FailedIs
  <2>2. QED  BY <2>1, KeptAsIs DEF Watched, Planned
<1>4. CASE Gives(w, "backup") /\ IsDirAt(i.to)
  <2>1. /\ UNCHANGED <<disk, announced>> /\ prepare'[w].pc = "backup" /\ prepare'[w].info = i
        /\ prepare'[w].cleanup = prepare[w].cleanup
    BY <1>0, <1>4, GivenIs DEF PrepareSteps
  <2>2. Treelike(w)' /\ Fresh(w)'
    BY <1>1, <2>1 DEF Sound, Treelike, Fresh, IsDirAt
  <2>3. PlanOK(w)'
    <3>1. IsDirAt(i.app)' /\ Apart(i)' /\ IsDirAt(i.to)'
      BY <1>2, <1>4, <2>1 DEF IsDirAt, Apart, TreeAt
    <3>2. QED  BY <1>2, <2>1, <3>1 DEF PlanOK
  <2>4. OnlyExtrasLeft(w)'
    BY <1>0, <1>1, <2>1 DEF Sound, OnlyExtrasLeft, Planned, Moving, TreeAt
  <2>5. BackupOK(w)'
    BY <2>1 DEF BackupOK
  <2>6. QED  BY <2>1, <2>2, <2>3, <2>4, <2>5, KeptAsIs DEF Sound
<1>5. CASE i.to \notin DOMAIN disk /\ Step(w, "chmod") /\ KeepRest
           /\ LET parents == Prefixes(Front(i.to)) \ DOMAIN disk
                  moved   == {Rebase(q, i.app, i.to) : q \in TreeAt(i.app)}
              IN disk' = [q \in (DOMAIN disk \ TreeAt(i.app)) \cup moved \cup parents |->
                            IF q \in moved THEN disk[Rebase(q, i.to, i.app)]
                            ELSE IF q \in parents
                              THEN [kind |-> "dir", origin |-> q, open |-> TRUE, title |-> NoTitle]
                            ELSE disk[q]]
  <2>1. /\ DiskTyped'
        /\ DOMAIN disk' = (DOMAIN disk \ TreeAt(i.app)) \cup Arrived(i.app, i.to)
                            \cup (Prefixes(Front(i.to)) \ DOMAIN disk)
        /\ \A x \in TreeAt(i.app) :
             Rebase(x, i.app, i.to) \in DOMAIN disk' /\ disk'[Rebase(x, i.app, i.to)] = disk[x]
        /\ \A x \in DOMAIN disk \ TreeAt(i.app) :
             ~IsPrefix(i.to, x) => x \in DOMAIN disk' /\ disk'[x] = disk[x]
    BY <1>1, <1>5, PlacedIs
  <2>2. /\ prepare'[w].pc = "chmod" /\ prepare'[w].info = i /\ announced' = announced
        /\ prepare'[w].cleanup = prepare[w].cleanup
    BY <1>0, <1>5, <2>1, SteppedIs DEF PrepareSteps
  <2>3. \A x \in DOMAIN disk : x \in Paths /\ w \notin ToSet(x)
    BY <1>1 DEF DiskTyped, Sound, Fresh
  <2>4. \A x \in DOMAIN disk, r \in Paths : IsPrefix(r, x) /\ r # x => IsDirAt(r)
    BY <2>3 DEF Sound, Treelike
  <2>5. \A x \in DOMAIN disk : ~IsPrefix(i.to, x)
    BY <1>1, <1>5, <2>4 DEF IsDirAt
  <2>6. /\ Front(i.to) \in Paths
        /\ \A r \in Paths : IsPrefix(r, Front(i.to)) => IsDirAt(r)
        /\ \A r \in Paths : IsPrefix(r, i.to) /\ r # i.to => IsDirAt(r)
    <3>1. Front(i.to) \in Paths /\ Front(i.to) \in DOMAIN disk
      BY <1>1, <1>2, FrontIsPath DEF IsDirAt
    <3>2. \A r \in Paths : IsPrefix(r, Front(i.to)) => IsDirAt(r)
      BY <1>2, <2>4, <3>1
    <3>3. QED  BY <1>1, <1>2, <3>1, <3>2, FrontIs
  <2>7. DOMAIN disk' = (DOMAIN disk \ TreeAt(i.app)) \cup Arrived(i.app, i.to)
    <3>1. Prefixes(Front(i.to)) \ DOMAIN disk = {}
      BY <2>6, PrefixesAre DEF IsDirAt
    <3>2. QED  BY <2>1, <3>1
  <2>8. \A x \in DOMAIN disk \ TreeAt(i.app) : x \in DOMAIN disk' /\ disk'[x] = disk[x]
    BY <2>1, <2>5
  <2>9. \A x \in TreeAt(i.app) : x \in DOMAIN disk /\ IsPrefix(i.app, x)
    BY DEF TreeAt
  <2>10. ~IsPrefix(i.app, i.to) /\ \A x \in TreeAt(i.app) :
           prepare[w].cleanup => ~IsPrefix(i.scan, Rebase(x, i.app, i.to))
    <3>1. i.app \in TreeAt(i.app)
      BY <1>1, <1>2, PrefixOrder DEF TreeAt, IsDirAt
    <3>2. QED  BY <1>0, <1>1, <3>1, TargetIs DEF Sound, Target
  <2>11. Kept
    BY <2>1, <2>8 DEF Kept
  <2>12. Treelike(w)'
    <3>1. SUFFICES ASSUME NEW p \in DOMAIN disk', NEW r \in Paths, IsPrefix(r, p), r # p
                   PROVE  IsDirAt(r)'
      BY DEF Treelike
    <3>2. CASE p \in DOMAIN disk \ TreeAt(i.app)
      <4>1. IsDirAt(r)
        BY <2>4, <3>1, <3>2
      <4>2. ~IsPrefix(i.app, r)
        BY <1>1, <2>3, <3>1, <3>2, PrefixChain DEF TreeAt
      <4>3. r \in DOMAIN disk \ TreeAt(i.app)
        BY <4>1, <4>2 DEF IsDirAt, TreeAt
      <4>4. QED  BY <2>8, <4>1, <4>3 DEF IsDirAt
    <3>3. CASE p \in Arrived(i.app, i.to)
      <4>1. PICK x \in TreeAt(i.app) : p = Rebase(x, i.app, i.to)
        BY <3>3 DEF Arrived
      <4>2. p \in Paths /\ IsPrefix(i.to, p) /\ Rebase(p, i.to, i.app) = x /\ x \in Paths
        BY <1>1, <2>3, <2>9, <4>1, RebaseUnder
      <4>3. CASE IsPrefix(i.to, r)
        <5> DEFINE s == Rebase(r, i.to, i.app)
        <5>1. s \in Paths /\ IsPrefix(i.app, s) /\ Rebase(s, i.app, i.to) = r
          BY <1>1, <4>3, RebaseUnder
        <5>2. IsPrefix(s, x)
          BY <1>1, <3>1, <4>2, <4>3, RebaseOrder
        <5> HIDE DEF s
        <5>3. s # x
          BY <3>1, <4>1, <5>1
        <5>4. IsDirAt(s) /\ s \in TreeAt(i.app)
          BY <2>4, <2>9, <5>1, <5>2, <5>3 DEF IsDirAt, TreeAt
        <5>5. QED  BY <2>1, <5>1, <5>4 DEF IsDirAt
      <4>4. CASE ~IsPrefix(i.to, r)
        <5>1. IsPrefix(r, i.to) /\ r # i.to
          BY <1>1, <3>1, <4>2, <4>4, PrefixChain, PrefixOrder
        <5>2. IsDirAt(r) /\ ~IsPrefix(i.app, r)
          BY <1>1, <2>6, <2>10, <5>1, PrefixChain
        <5>3. QED  BY <2>8, <5>2 DEF IsDirAt, TreeAt
      <4>5. QED  BY <4>3, <4>4
    <3>4. QED  BY <2>7, <3>2, <3>3
  <2>13. Fresh(w)' /\ BackupOK(w)'
    BY <2>2 DEF Fresh, BackupOK
  <2>14. PlanOK(w)'
    BY <1>2, <2>2 DEF PlanOK, Moving
  <2>15. OnlyExtrasLeft(w)'
    <3>1. prepare[w].cleanup => \A p \in TreeAt(i.scan) :
            disk[p].kind = "dir" \/ disk[p].origin \in announced \/ IsPrefix(i.app, p)
      BY <1>0, <1>1 DEF Sound, OnlyExtrasLeft
    <3>2. SUFFICES ASSUME prepare[w].cleanup, NEW p \in DOMAIN disk', IsPrefix(i.scan, p)
                   PROVE  disk'[p].kind = "dir" \/ disk'[p].origin \in announced
      BY <2>2 DEF OnlyExtrasLeft, TreeAt
    <3>3. p \notin Arrived(i.app, i.to)
      BY <2>10, <3>2 DEF Arrived
    <3>4. p \in DOMAIN disk \ TreeAt(i.app)
      BY <2>7, <3>3
    <3>5. QED  BY <2>8, <3>1, <3>2, <3>4 DEF TreeAt
  <2>16. QED  BY <2>11, <2>12, <2>13, <2>14, <2>15 DEF Sound
<1>6. QED
  <2>1. CASE i.to \in DOMAIN disk
    BY <1>0, <1>3, <1>4, <2>1 DEF PlaceWhole
  <2>2. CASE i.to \notin DOMAIN disk /\ (i.app \notin DOMAIN disk \/ IsPrefix(i.app, i.to))
    BY <1>0, <1>3, <2>2 DEF PlaceWhole
  <2>3. CASE i.to \notin DOMAIN disk /\ ~(i.app \notin DOMAIN disk \/ IsPrefix(i.app, i.to))
    BY <1>0, <1>5, <2>3 DEF PlaceWhole
  <2>4. QED  BY <2>1, <2>2, <2>3

-----------------------------------------------------------------------------
(* The merge, entry by entry.                                               *)

(* Where the entries of the app are, go to and would be saved to.             *)
LEMMA MergeFacts ==
  ASSUME PrepareTypeOK, NEW w \in Preparers, Sound(w), prepare[w].pc = "merge",
         NEW i, NEW b, i = prepare[w].info, b = prepare[w].backup
  PROVE  /\ DiskTyped /\ i.app \in Paths /\ i.to \in Paths /\ i.scan \in Paths /\ b \in Paths
         /\ \A x \in TreeAt(i.app) :
              /\ x \in Paths /\ x \in DOMAIN disk /\ IsPrefix(i.app, x) /\ w \notin ToSet(x)
              /\ Rebase(x, i.app, i.to) \in Paths /\ IsPrefix(i.to, Rebase(x, i.app, i.to))
              /\ x # i.app => Rebase(x, i.app, i.to) # i.to
              /\ ~IsPrefix(i.app, Rebase(x, i.app, i.to))
              /\ prepare[w].cleanup => ~IsPrefix(i.scan, Rebase(x, i.app, i.to))
              /\ w \notin ToSet(Rebase(x, i.app, i.to))
              /\ Rebase(Rebase(x, i.app, i.to), i.to, b) \in Paths
              /\ IsPrefix(b, Rebase(Rebase(x, i.app, i.to), i.to, b))
         /\ \A x \in Paths : IsPrefix(b, x) =>
              /\ w \in ToSet(x) /\ ~IsPrefix(i.to, x) /\ ~IsPrefix(i.app, x)
              /\ prepare[w].cleanup => ~IsPrefix(i.scan, x)
         /\ ~IsPrefix(i.app, i.to) /\ i.to # <<>> /\ i.app # i.to /\ IsDirAt(i.app) /\ IsDirAt(i.to)
         /\ Apart(i)
         /\ \A x \in DOMAIN disk : w \in ToSet(x) => IsPrefix(b, x)
         /\ \A p \in DOMAIN disk, x \in TreeAt(i.app) \ {i.app} :
              IsPrefix(Rebase(Rebase(x, i.app, i.to), i.to, b), p) =>
                disk[x].kind = "dir" /\ IsDirAt(Rebase(x, i.app, i.to))
<1>1. /\ DiskTyped /\ i.app \in Paths /\ i.to \in Paths /\ i.scan \in Paths
      /\ prepare[w].pc \in Moving /\ PlanOK(w) /\ BackupOK(w)
  BY EntryTyped DEF PrepareTypeOK, Entries, Moving, Sound
<1>2. /\ i.to # <<>> /\ i.app # i.to /\ IsDirAt(i.app) /\ IsDirAt(i.to) /\ Apart(i)
      /\ w \notin ToSet(i.to)
  BY DEF Sound, PlanOK, Planned, Moving
<1>3. ~IsPrefix(i.app, i.to)
  <2>1. i.app \in TreeAt(i.app)
    BY <1>1, <1>2, PrefixOrder DEF TreeAt, IsDirAt
  <2>2. QED  BY <1>1, <2>1, TargetIs
<1>4. /\ b \in Paths
      /\ \A x \in Paths : IsPrefix(b, x) =>
           /\ w \in ToSet(x) /\ ~IsPrefix(i.to, x) /\ ~IsPrefix(i.app, x)
           /\ prepare[w].cleanup => ~IsPrefix(i.scan, x)
  BY <1>1, <1>3, BackupIs
<1>5. \A x \in DOMAIN disk : w \in ToSet(x) => IsPrefix(b, x)
  BY <1>1 DEF BackupOK
<1>6. ASSUME NEW x \in TreeAt(i.app)
      PROVE  /\ x \in Paths /\ x \in DOMAIN disk /\ IsPrefix(i.app, x) /\ w \notin ToSet(x)
             /\ Rebase(x, i.app, i.to) \in Paths /\ IsPrefix(i.to, Rebase(x, i.app, i.to))
             /\ x # i.app => Rebase(x, i.app, i.to) # i.to
             /\ ~IsPrefix(i.app, Rebase(x, i.app, i.to))
             /\ prepare[w].cleanup => ~IsPrefix(i.scan, Rebase(x, i.app, i.to))
             /\ w \notin ToSet(Rebase(x, i.app, i.to))
             /\ Rebase(Rebase(x, i.app, i.to), i.to, b) \in Paths
             /\ IsPrefix(b, Rebase(Rebase(x, i.app, i.to), i.to, b))
  <2> DEFINE d == Rebase(x, i.app, i.to)
  <2>1. x \in Paths /\ x \in DOMAIN disk /\ IsPrefix(i.app, x) /\ w \notin ToSet(x)
    BY <1>1, <1>4, <1>5 DEF TreeAt, DiskTyped
  <2>2. /\ d \in Paths /\ IsPrefix(i.to, d) /\ ~IsPrefix(i.app, d)
        /\ prepare[w].cleanup => ~IsPrefix(i.scan, d)
        /\ w \notin ToSet(d)
    BY <1>1, <2>1, TargetIs DEF Target
  <2>3. x # i.app => d # i.to
    BY <1>1, <2>1, RebaseStrictly
  <2> HIDE DEF d
  <2>4. i.to \in Paths /\ b \in Paths /\ d \in Paths /\ IsPrefix(i.to, d)
    BY <1>1, <1>4, <2>2
  <2>5. Rebase(d, i.to, b) \in Paths /\ IsPrefix(b, Rebase(d, i.to, b))
    BY <2>4, RebaseUnder
  <2>6. QED  BY <2>1, <2>2, <2>3, <2>5 DEF d
<1>7. \A p \in DOMAIN disk, x \in TreeAt(i.app) \ {i.app} :
        IsPrefix(Rebase(Rebase(x, i.app, i.to), i.to, b), p) =>
          disk[x].kind = "dir" /\ IsDirAt(Rebase(x, i.app, i.to))
  BY <1>1 DEF BackupOK, Saved, Target
<1>8. QED  BY <1>1, <1>2, <1>3, <1>4, <1>5, <1>6, <1>7

(* Entries go to the target, and to the backup, in the order they lie in.     *)
LEMMA SameOrder ==
  ASSUME NEW a \in Paths, NEW t \in Paths, NEW b \in Paths, NEW x \in Paths, NEW y \in Paths,
         IsPrefix(a, x), IsPrefix(a, y)
  PROVE  /\ IsPrefix(x, y) <=> IsPrefix(Rebase(x, a, t), Rebase(y, a, t))
         /\ IsPrefix(x, y) <=>
              IsPrefix(Rebase(Rebase(x, a, t), t, b), Rebase(Rebase(y, a, t), t, b))
<1> DEFINE u == Rebase(x, a, t)
           v == Rebase(y, a, t)
<1>1. u \in Paths /\ v \in Paths /\ IsPrefix(t, u) /\ IsPrefix(t, v)
  BY RebaseUnder
<1>2. IsPrefix(x, y) <=> IsPrefix(u, v)
  BY RebaseOrder
<1> HIDE DEF u, v
<1>3. IsPrefix(u, v) <=> IsPrefix(Rebase(u, t, b), Rebase(v, t, b))
  BY <1>1, RebaseOrder
<1>4. QED  BY <1>2, <1>3 DEF u, v

LEMMA OverSound ==
  ASSUME PrepareTypeOK, NEW w \in Preparers, Watched(w), Sound(w), NEW q \in DOMAIN disk,
         MergeOverItself(w, q)
  PROVE  Kept /\ ~Watched(w)'
<1>0. PICK i, b : i = prepare[w].info /\ b = prepare[w].backup
  OBVIOUS
<1> DEFINE dst == Rebase(q, i.app, i.to)
           saved == Rebase(dst, i.to, b)
<1>1. /\ prepare[w].pc = "merge" /\ q \in TreeAt(i.app) /\ q # i.app
      /\ disk[q].kind = "file" \/ ~IsDirAt(dst)
      /\ disk' = [p \in (DOMAIN disk \ TreeAt(dst)) \cup Arrived(dst, saved) |->
                    IF p \in Arrived(dst, saved) THEN disk[Rebase(p, saved, dst)] ELSE disk[p]]
      /\ Step(w, "failed") /\ KeepRest
  <2>1. /\ prepare[w].info = i /\ prepare[w].backup = b
        /\ dst = Rebase(q, i.app, i.to) /\ saved = Rebase(dst, i.to, b)
        /\ dst = Rebase(q, prepare[w].info.app, prepare[w].info.to)
        /\ saved = Rebase(dst, prepare[w].info.to, prepare[w].backup)
    BY <1>0
  <2> HIDE DEF dst, saved
  <2>2. QED  BY <2>1 DEF MergeOverItself, Arrived
<1>2. /\ DiskTyped /\ dst \in Paths /\ saved \in Paths
      /\ \A p \in DOMAIN disk : IsPrefix(saved, p) => disk[q].kind = "dir" /\ IsDirAt(dst)
  <2>1. dst = Rebase(q, i.app, i.to) /\ saved = Rebase(Rebase(q, i.app, i.to), i.to, b)
    OBVIOUS
  <2> HIDE DEF dst, saved
  <2>2. /\ DiskTyped /\ q \in TreeAt(i.app) \ {i.app}
        /\ Rebase(q, i.app, i.to) \in Paths /\ Rebase(Rebase(q, i.app, i.to), i.to, b) \in Paths
    BY <1>0, <1>1, MergeFacts
  <2>3. \A p \in DOMAIN disk : IsPrefix(Rebase(Rebase(q, i.app, i.to), i.to, b), p) =>
          disk[q].kind = "dir" /\ IsDirAt(Rebase(q, i.app, i.to))
    BY <1>0, <1>1, <2>2, MergeFacts
  <2>4. QED  BY <2>1, <2>2, <2>3
<1> HIDE DEF dst, saved
<1>3. /\ DiskTyped'
      /\ \A x \in TreeAt(dst) :
           Rebase(x, dst, saved) \in DOMAIN disk' /\ disk'[Rebase(x, dst, saved)] = disk[x]
      /\ \A x \in DOMAIN disk \ TreeAt(dst) :
           ~IsPrefix(saved, x) => x \in DOMAIN disk' /\ disk'[x] = disk[x]
  BY <1>1, <1>2, AsideIs
<1>4. \A x \in DOMAIN disk \ TreeAt(dst) : x \in DOMAIN disk' /\ disk'[x] = disk[x]
  BY <1>1, <1>2, <1>3
<1>5. Kept
  BY <1>3, <1>4 DEF Kept
<1>6. prepare'[w].pc = "failed"
  BY <1>1, <1>3, SteppedIs DEF PrepareSteps
<1>7. QED  BY <1>5, <1>6 DEF Watched, Planned

(* BackupOK of a plan and a backup that are at hand.                         *)
BackupHolds(w, i, b) ==
  /\ prepare[w].info = i /\ prepare[w].backup = b
  /\ b = Front(i.to) \o <<BackupDir, w>>
  /\ \A p \in DOMAIN disk : w \in ToSet(p) => IsPrefix(b, p)
  /\ \A p \in DOMAIN disk, x \in DOMAIN disk :
       IsPrefix(i.app, x) /\ x # i.app
       /\ IsPrefix(Rebase(Rebase(x, i.app, i.to), i.to, b), p) =>
         /\ disk[x].kind = "dir"
         /\ Rebase(x, i.app, i.to) \in DOMAIN disk
         /\ disk[Rebase(x, i.app, i.to)].kind = "dir"

LEMMA BackupThen ==
  ASSUME NEW w, NEW i, NEW b, BackupHolds(w, i, b)'
  PROVE  BackupOK(w)'
BY DEF BackupHolds, BackupOK, Saved, Target, TreeAt, IsDirAt

LEMMA EmptySound ==
  ASSUME PrepareTypeOK, NEW w \in Preparers, Sound(w), prepare[w].pc = "merge",
         NEW q \in TreeAt(prepare[w].info.app), q # prepare[w].info.app,
         IsDirAt(q), KidsAt(q) = {}, disk' = [p \in DOMAIN disk \ {q} |-> disk[p]],
         UNCHANGED <<prepare, announced>>
  PROVE  Kept /\ Sound(w)'
<1>0. PICK i, b : i = prepare[w].info /\ b = prepare[w].backup
  OBVIOUS
<1>1. /\ DiskTyped /\ i.app \in Paths /\ i.to \in Paths
      /\ \A x \in TreeAt(i.app) : x \in Paths /\ IsPrefix(i.app, x)
                                  /\ ~IsPrefix(i.app, Rebase(x, i.app, i.to))
      /\ ~IsPrefix(i.app, i.to) /\ i.to # <<>> /\ i.app # i.to /\ IsDirAt(i.app) /\ IsDirAt(i.to)
      /\ Apart(i)
      /\ \A x \in DOMAIN disk : w \in ToSet(x) => IsPrefix(b, x)
      /\ \A p \in DOMAIN disk, x \in TreeAt(i.app) \ {i.app} :
           IsPrefix(Rebase(Rebase(x, i.app, i.to), i.to, b), p) =>
             disk[x].kind = "dir" /\ IsDirAt(Rebase(x, i.app, i.to))
  BY <1>0, MergeFacts
<1>2. DOMAIN disk' = DOMAIN disk \ {q} /\ \A p \in DOMAIN disk \ {q} : disk'[p] = disk[p]
  OBVIOUS
<1>3. Kept
  BY <1>2 DEF Kept, IsDirAt
<1>4. Treelike(w)'
  <2>1. SUFFICES ASSUME NEW p \in DOMAIN disk', w \notin ToSet(p),
                        NEW r \in Paths, IsPrefix(r, p), r # p
                 PROVE  IsDirAt(r)'
    BY DEF Treelike
  <2>2. p \in DOMAIN disk /\ IsDirAt(r)
    BY <1>2, <2>1 DEF Sound, Treelike
  <2>3. r # q
    BY <1>1, <2>1, <2>2, KidOf DEF Sound
  <2>4. QED  BY <1>2, <2>2, <2>3 DEF IsDirAt
<1>5. Fresh(w)'
  BY DEF Fresh
<1>6. q \in DOMAIN disk /\ IsPrefix(i.app, q) /\ q # i.app /\ q # i.to
  BY <1>0, <1>1 DEF TreeAt
<1>7. PlanOK(w)'
  <2>1. IsDirAt(i.app)' /\ IsDirAt(i.to)'
    BY <1>1, <1>2, <1>6 DEF IsDirAt
  <2>2. Apart(i)'
    BY <1>1, <1>2 DEF Apart, TreeAt
  <2>3. /\ w \notin ToSet(i.app) \cup ToSet(i.to) /\ IsPrefix(i.scan, i.app)
        /\ prepare[w].cleanup => DeleteScanSafe(i.scan, i.app, i.to)
        /\ BackupDir \notin ToSet(i.app) \cup ToSet(i.to)
    BY <1>0 DEF Sound, PlanOK, Planned
  <2>4. QED  BY <1>0, <1>1, <2>1, <2>2, <2>3 DEF PlanOK
<1>8. OnlyExtrasLeft(w)'
  <2>1. prepare[w].cleanup => \A p \in TreeAt(i.scan) :
          disk[p].kind = "dir" \/ disk[p].origin \in announced \/ IsPrefix(i.app, p)
    BY <1>0 DEF Sound, OnlyExtrasLeft, Planned
  <2>2. prepare[w].pc \in Moving
    BY DEF Moving
  <2>3. QED  BY <1>0, <1>2, <2>1, <2>2 DEF OnlyExtrasLeft, TreeAt
<1>9. BackupOK(w)'
  <2>1. b = Front(i.to) \o <<BackupDir, w>>
    BY <1>0 DEF Sound, BackupOK
  <2>2. \A p \in DOMAIN disk' : w \in ToSet(p) => IsPrefix(b, p)
    BY <1>1, <1>2
  <2>3. ASSUME NEW p \in DOMAIN disk', NEW x \in DOMAIN disk', IsPrefix(i.app, x), x # i.app,
               IsPrefix(Rebase(Rebase(x, i.app, i.to), i.to, b), p)
        PROVE  /\ disk'[x].kind = "dir"
               /\ Rebase(x, i.app, i.to) \in DOMAIN disk'
               /\ disk'[Rebase(x, i.app, i.to)].kind = "dir"
    <3>1. x \in TreeAt(i.app) \ {i.app} /\ p \in DOMAIN disk /\ x # q
      BY <1>2, <2>3 DEF TreeAt
    <3>2. disk[x].kind = "dir" /\ IsDirAt(Rebase(x, i.app, i.to))
      BY <1>1, <2>3, <3>1
    <3>3. Rebase(x, i.app, i.to) # q
      BY <1>1, <1>6, <3>1
    <3>4. QED  BY <1>2, <3>1, <3>2, <3>3 DEF IsDirAt
  <2>4. prepare'[w].info = i /\ prepare'[w].backup = b
    BY <1>0
  <2>5. \A p \in DOMAIN disk', x \in DOMAIN disk' :
          IsPrefix(i.app, x) /\ x # i.app
          /\ IsPrefix(Rebase(Rebase(x, i.app, i.to), i.to, b), p) =>
            /\ disk'[x].kind = "dir"
            /\ Rebase(x, i.app, i.to) \in DOMAIN disk'
            /\ disk'[Rebase(x, i.app, i.to)].kind = "dir"
    BY <2>3
  <2> HIDE <1>2
  <2>6. BackupHolds(w, i, b)'
    BY <2>1, <2>2, <2>4, <2>5 DEF BackupHolds
  <2>7. QED  BY <2>6, BackupThen
<1>10. QED  BY <1>3, <1>4, <1>5, <1>7, <1>8, <1>9 DEF Sound

-----------------------------------------------------------------------------
(* AppPrepare: the app that is prepared.                                    *)

(* What lies in a folder.                                                   *)
LEMMA ChildIs ==
  ASSUME NEW p \in Paths, NEW n \in PathNames
  PROVE  /\ Append(p, n) \in Paths /\ Append(p, n) # <<>> /\ Append(p, n) # p
         /\ Front(Append(p, n)) = p /\ IsPrefix(p, Append(p, n))
         /\ \A r \in Paths : IsPrefix(r, Append(p, n)) /\ r # Append(p, n) => IsPrefix(r, p)
<1> DEFINE c == Append(p, n)
<1>1. p \in Seq(PathNames)
  BY DEF Paths
<1>2. /\ c \in Seq(PathNames) /\ Len(c) = Len(p) + 1
      /\ \A i \in 1 .. Len(p) : c[i] = p[i]
  BY <1>1, AppendProperties
<1>3. c \in Paths /\ Len(p) \in Nat
  BY <1>1, <1>2, PathBasics DEF Paths
<1>4. c # <<>>
  <2>1. Len(<<>>) = 0
    BY EmptySeq
  <2>2. QED  BY <1>2, <1>3, <2>1
<1>5. /\ Front(c) \in Paths /\ IsPrefix(Front(c), c) /\ Front(c) # c
      /\ \A r \in Paths : IsPrefix(r, c) /\ r # c => IsPrefix(r, Front(c))
      /\ Len(Front(c)) = Len(c) - 1
  <2> HIDE DEF c
  <2> QED  BY <1>3, <1>4, FrontIs
<1>6. IsPrefix(p, c)
  <2>1. Len(p) <= Len(c)
    BY <1>2, <1>3
  <2> HIDE DEF c
  <2>2. QED  BY <1>2, <1>3, <2>1, PrefixIs
<1>7. Front(c) = p
  <2>1. p # c
    BY <1>2, <1>3
  <2>2. IsPrefix(p, Front(c)) /\ Len(p) = Len(Front(c))
    BY <1>2, <1>3, <1>5, <1>6, <2>1
  <2> HIDE DEF c
  <2>3. QED  BY <1>5, <2>2, PrefixOrder
<1> HIDE DEF c
<1>8. QED
  <2>1. Append(p, n) = c
    BY DEF c
  <2>2. QED  BY <1>3, <1>4, <1>5, <1>6, <1>7, <2>1

LEMMA RebaseChild ==
  ASSUME NEW from \in Paths, NEW to \in Paths, NEW n \in PathNames
  PROVE  Rebase(Append(from, n), from, to) = Append(to, n)
<1> DEFINE c == Append(from, n)
<1>1. from \in Seq(PathNames) /\ to \in Seq(PathNames)
  BY DEF Paths
<1>2. Len(c) = Len(from) + 1 /\ c[Len(from) + 1] = n
  BY <1>1, AppendProperties
<1>3. /\ Append(to, n) \in Seq(PathNames) /\ Len(Append(to, n)) = Len(to) + 1
      /\ Append(to, n)[Len(to) + 1] = n /\ \A i \in 1 .. Len(to) : Append(to, n)[i] = to[i]
  BY <1>1, AppendProperties
<1>4. c \in Paths /\ IsPrefix(from, c)
  BY ChildIs
<1> HIDE DEF c
<1>5. /\ Rebase(c, from, to) \in Paths
      /\ Len(Rebase(c, from, to)) = Len(to) + (Len(c) - Len(from))
      /\ \A i \in 1 .. Len(to) : Rebase(c, from, to)[i] = to[i]
      /\ \A i \in 1 .. (Len(c) - Len(from)) : Rebase(c, from, to)[Len(to) + i] = c[Len(from) + i]
  BY <1>4, RebaseIs
<1>6. PICK r, a : r = Rebase(c, from, to) /\ a = Append(to, n)
  OBVIOUS
<1>7. Len(from) \in Nat /\ Len(to) \in Nat
  BY PathBasics
<1>8. r \in Paths /\ a \in Paths /\ Len(r) = Len(a) /\ Len(a) = Len(to) + 1
  BY <1>2, <1>3, <1>5, <1>6, <1>7 DEF Paths
<1>9. r[Len(to) + 1] = n
  <2>1. 1 \in 1 .. (Len(c) - Len(from))
    BY <1>2, <1>7
  <2>2. QED  BY <1>2, <1>5, <1>6, <2>1
<1>10. \A i \in 1 .. Len(r) : r[i] = a[i]
  <2>1. \A i \in 1 .. Len(to) : r[i] = a[i]
    BY <1>3, <1>5, <1>6
  <2>2. r[Len(to) + 1] = a[Len(to) + 1]
    BY <1>3, <1>6, <1>9
  <2>3. QED  BY <1>7, <1>8, <2>1, <2>2
<1>11. r = a
  BY <1>8, <1>10, SamePath
<1>12. QED  BY <1>6, <1>11 DEF c

(* The home of a title is in no folder that is named like an app.              *)
Home(t) == AppPath(Homebrew, t)

LEMMA HomeIs ==
  ASSUME NEW t \in Titles, NEW to \in Paths, to # <<>>, Last(to) = AppName[t], IsPrefix(to, Home(t))
  PROVE  to = Home(t)
<1>1. Home(t) \in Paths /\ Home(t) # <<>> /\ Front(Home(t)) = Homebrew
  BY NamesTyped, AppPathTyped DEF Home
<1>2. SUFFICES ASSUME to # Home(t) PROVE FALSE
  OBVIOUS
<1>3. IsPrefix(to, Homebrew) /\ Homebrew \in Paths
  BY <1>1, <1>2, FrontIs, NamesTyped
<1>4. AppName[t] # "data" /\ AppName[t] # "homebrew"
  BY PrepareAssumption DEF Titles
<1>5. /\ Len(to) \in Nat \ {0} /\ Len(to) <= Len(Homebrew) /\ \A i \in 1 .. Len(to) : to[i] = Homebrew[i]
  BY <1>3, FrontIs, PrefixIs
<1>6. Len(Homebrew) = 2 /\ Homebrew[1] = "data" /\ Homebrew[2] = "homebrew"
  BY DEF Homebrew
<1>7. Len(to) \in {1, 2} /\ Len(to) \in 1 .. Len(to)
  <2>1. PICK n : n = Len(to)
    OBVIOUS
  <2>2. n \in Nat \ {0} /\ n <= 2
    BY <1>5, <1>6, <2>1
  <2>3. n \in {1, 2} /\ n \in 1 .. n
    BY <2>2
  <2>4. QED  BY <2>1, <2>3
<1>8. Last(to) = Homebrew[Len(to)]
  BY <1>5, <1>7 DEF Last
<1>9. QED  BY <1>4, <1>6, <1>7, <1>8

(* What makes a folder an app is in it.                                      *)
AppFiles == {"eboot.bin", "param.json"}
HasFile(p, n, t) ==
  /\ Append(p, n) \in DOMAIN disk /\ disk[Append(p, n)].kind = "file"
  /\ n = "param.json" => disk[Append(p, n)].title = t
LEMMA AppFilesAre == \A n \in AppFiles : n \in PathNames
BY PrepareAssumption DEF AppFiles

(* Where the app is, until it is prepared.  Its home, if it is not the target,  *)
(* is not there, so that the second probe finds the target again.              *)
AppIs(w, i, pc) ==
  /\ i.title \in Titles /\ pc # "open"
  /\ i.to = Home(i.title) \/ (~IsDirAt(Home(i.title)) /\ Last(i.to) = AppName[i.title])
  /\ \A n \in AppFiles :
       /\ prepare[w].cleanup => ~IsPrefix(i.scan, Append(i.to, n))
       /\ \/ pc \in Moving /\ HasFile(i.app, n, i.title)
          \/ /\ pc = "merge" /\ HasFile(i.to, n, i.title)
             /\ Append(i.app, n) \notin DOMAIN disk
          \/ pc \in {"chmod", "clean"} /\ HasFile(i.to, n, i.title)
  /\ pc = "clean" =>
       IsDirAt(i.to) /\ \A q \in TreeAt(i.to) : disk[q].kind = "link" \/ disk[q].open
AppKept(w) ==
  prepare[w].pc \in Planned /\ ~prepare[w].info.patch => AppIs(w, prepare[w].info, prepare[w].pc)

LEMMA AppThen ==
  ASSUME NEW w, NEW i, NEW pc, prepare'[w].info = i, prepare'[w].pc = pc, AppIs(w, i, pc)'
  PROVE  AppKept(w)'
BY DEF AppKept, AppIs, HasFile, IsDirAt, TreeAt

LEMMA AppNow ==
  ASSUME NEW w, NEW i, prepare[w].info = i, AppKept(w), prepare[w].pc \in Planned, ~i.patch
  PROVE  AppIs(w, i, prepare[w].pc)
BY DEF AppKept

(* An entry goes to its place, and what was there to the backup.               *)
LEMMA MoveSound ==
  ASSUME PrepareTypeOK, NEW w \in Preparers, Sound(w), prepare[w].pc = "merge",
         NEW q \in TreeAt(prepare[w].info.app), q # prepare[w].info.app,
         NEW dst, dst = Rebase(q, prepare[w].info.app, prepare[w].info.to),
         IsDirAt(Front(dst)), disk[q].kind = "file" \/ ~IsDirAt(dst),
         ~IsPrefix(dst, q), ~IsPrefix(q, dst), disk' = MoveTo(w, q, dst),
         UNCHANGED <<prepare, announced>>
  PROVE  Kept /\ Sound(w)' /\ (AppKept(w) => AppKept(w)')
<1>0. PICK i, b : i = prepare[w].info /\ b = prepare[w].backup
  OBVIOUS
<1>1. PICK saved : saved = Rebase(dst, i.to, b)
  OBVIOUS
<1>2. /\ DiskTyped /\ i.app \in Paths /\ i.to \in Paths /\ i.scan \in Paths /\ b \in Paths
      /\ \A x \in TreeAt(i.app) :
           /\ x \in Paths /\ x \in DOMAIN disk /\ IsPrefix(i.app, x) /\ w \notin ToSet(x)
           /\ Rebase(x, i.app, i.to) \in Paths /\ IsPrefix(i.to, Rebase(x, i.app, i.to))
           /\ x # i.app => Rebase(x, i.app, i.to) # i.to
           /\ ~IsPrefix(i.app, Rebase(x, i.app, i.to))
           /\ prepare[w].cleanup => ~IsPrefix(i.scan, Rebase(x, i.app, i.to))
           /\ w \notin ToSet(Rebase(x, i.app, i.to))
           /\ Rebase(Rebase(x, i.app, i.to), i.to, b) \in Paths
           /\ IsPrefix(b, Rebase(Rebase(x, i.app, i.to), i.to, b))
  BY <1>0, MergeFacts
<1>3. /\ \A x \in Paths : IsPrefix(b, x) =>
           /\ w \in ToSet(x) /\ ~IsPrefix(i.to, x) /\ ~IsPrefix(i.app, x)
           /\ prepare[w].cleanup => ~IsPrefix(i.scan, x)
      /\ ~IsPrefix(i.app, i.to) /\ i.to # <<>> /\ i.app # i.to /\ IsDirAt(i.app) /\ IsDirAt(i.to)
      /\ Apart(i)
      /\ \A x \in DOMAIN disk : w \in ToSet(x) => IsPrefix(b, x)
      /\ \A p \in DOMAIN disk, x \in TreeAt(i.app) \ {i.app} :
           IsPrefix(Rebase(Rebase(x, i.app, i.to), i.to, b), p) =>
             disk[x].kind = "dir" /\ IsDirAt(Rebase(x, i.app, i.to))
  BY <1>0, MergeFacts
<1>4. /\ q \in Paths /\ q \in DOMAIN disk /\ IsPrefix(i.app, q) /\ q # i.app /\ w \notin ToSet(q)
      /\ dst = Rebase(q, i.app, i.to) /\ dst \in Paths /\ IsPrefix(i.to, dst) /\ dst # i.to
      /\ w \notin ToSet(dst)
      /\ saved \in Paths /\ IsPrefix(b, saved)
      /\ \A p \in DOMAIN disk : ~IsPrefix(saved, p)
  BY <1>0, <1>1, <1>2, <1>3
<1>5. \A x \in TreeAt(dst) :
        /\ x \in Paths /\ Rebase(x, dst, saved) \in Paths /\ IsPrefix(saved, Rebase(x, dst, saved))
        /\ IsPrefix(b, Rebase(x, dst, saved)) /\ ~IsPrefix(dst, Rebase(x, dst, saved))
  <2>1. SUFFICES ASSUME NEW x \in TreeAt(dst)
                 PROVE  /\ x \in Paths /\ Rebase(x, dst, saved) \in Paths
                        /\ IsPrefix(saved, Rebase(x, dst, saved))
                        /\ IsPrefix(b, Rebase(x, dst, saved)) /\ ~IsPrefix(dst, Rebase(x, dst, saved))
    OBVIOUS
  <2>2. x \in Paths /\ IsPrefix(dst, x)
    BY <1>2 DEF TreeAt, DiskTyped
  <2>3. Rebase(x, dst, saved) \in Paths /\ IsPrefix(saved, Rebase(x, dst, saved))
    BY <1>4, <2>2, RebaseUnder
  <2>4. IsPrefix(b, Rebase(x, dst, saved))
    BY <1>2, <1>4, <2>3, PrefixChain
  <2>5. ~IsPrefix(i.to, Rebase(x, dst, saved))
    BY <1>3, <2>3, <2>4
  <2>6. QED  BY <1>2, <1>4, <2>2, <2>3, <2>4, <2>5, PrefixChain
<1>6. /\ DiskTyped'
      /\ DOMAIN disk' = (DOMAIN disk \ (TreeAt(q) \cup TreeAt(dst)))
                          \cup Arrived(dst, saved) \cup Arrived(q, dst)
      /\ \A x \in TreeAt(q) :
           Rebase(x, q, dst) \in DOMAIN disk' /\ disk'[Rebase(x, q, dst)] = disk[x]
      /\ \A x \in TreeAt(dst) :
           Rebase(x, dst, saved) \in DOMAIN disk' /\ disk'[Rebase(x, dst, saved)] = disk[x]
      /\ \A x \in DOMAIN disk : ~IsPrefix(q, x) /\ ~IsPrefix(dst, x) =>
           x \in DOMAIN disk' /\ disk'[x] = disk[x]
  <2>1. saved = Rebase(dst, prepare[w].info.to, prepare[w].backup)
    BY <1>0, <1>1
  <2>2. /\ DiskTyped'
        /\ DOMAIN disk' = (DOMAIN disk \ (TreeAt(q) \cup TreeAt(dst)))
                            \cup Arrived(dst, saved) \cup Arrived(q, dst)
        /\ \A x \in TreeAt(q) :
             Rebase(x, q, dst) \in DOMAIN disk' /\ disk'[Rebase(x, q, dst)] = disk[x]
        /\ \A x \in TreeAt(dst) :
             /\ Rebase(x, dst, saved) \in DOMAIN disk'
             /\ ~IsPrefix(dst, Rebase(x, dst, saved)) => disk'[Rebase(x, dst, saved)] = disk[x]
        /\ \A x \in DOMAIN disk \ (TreeAt(q) \cup TreeAt(dst)) :
             ~IsPrefix(saved, x) => x \in DOMAIN disk' /\ disk'[x] = disk[x]
    <3>1. DiskTyped /\ q \in Paths /\ dst \in Paths /\ saved \in Paths
      BY <1>2, <1>4
    <3>2. disk' = MoveTo(w, q, dst)
      OBVIOUS
    <3>3. Moves(q, dst, saved)
      BY <2>1, <3>1, <3>2, MoveIs
    <3>4. QED  BY <3>3 DEF Moves
  <2>3. \A x \in DOMAIN disk : ~IsPrefix(q, x) /\ ~IsPrefix(dst, x) =>
          x \in DOMAIN disk' /\ disk'[x] = disk[x]
    BY <1>4, <2>2 DEF TreeAt
  <2>4. QED  BY <1>5, <2>2, <2>3
<1>7. Kept
  <2>1. SUFFICES ASSUME NEW p \in DOMAIN disk
                 PROVE  \E r \in DOMAIN disk' : disk'[r] = disk[p]
    BY DEF Kept
  <2>2. CASE p \in TreeAt(q)
    BY <1>6, <2>2
  <2>3. CASE p \in TreeAt(dst)
    BY <1>6, <2>3
  <2>4. CASE p \notin TreeAt(q) /\ p \notin TreeAt(dst)
    BY <1>6, <2>4 DEF TreeAt
  <2>5. QED  BY <2>2, <2>3, <2>4

<1>8. \A p \in DOMAIN disk' :
        \/ p \in DOMAIN disk /\ ~IsPrefix(q, p) /\ ~IsPrefix(dst, p)
        \/ \E x \in TreeAt(q) : p = Rebase(x, q, dst)
        \/ p \in Paths /\ IsPrefix(b, p) /\ IsPrefix(saved, p)
  <2>1. SUFFICES ASSUME NEW p \in DOMAIN disk'
                 PROVE  \/ p \in DOMAIN disk /\ ~IsPrefix(q, p) /\ ~IsPrefix(dst, p)
                        \/ \E x \in TreeAt(q) : p = Rebase(x, q, dst)
                        \/ p \in Paths /\ IsPrefix(b, p) /\ IsPrefix(saved, p)
    OBVIOUS
  <2>2. CASE p \in Arrived(q, dst)
    BY <2>2 DEF Arrived
  <2>3. CASE p \in Arrived(dst, saved)
    BY <1>5, <2>3 DEF Arrived
  <2>4. CASE p \in DOMAIN disk \ (TreeAt(q) \cup TreeAt(dst))
    BY <2>4 DEF TreeAt
  <2>5. QED  BY <1>6, <2>1, <2>2, <2>3, <2>4
<1>9. ASSUME NEW x \in TreeAt(q)
      PROVE  /\ x \in TreeAt(i.app) /\ x \in DOMAIN disk /\ x \in Paths /\ IsPrefix(q, x)
             /\ Rebase(x, q, dst) = Rebase(x, i.app, i.to) /\ Rebase(x, q, dst) \in Paths
             /\ IsPrefix(dst, Rebase(x, q, dst)) /\ w \notin ToSet(x)
  <2>1. x \in DOMAIN disk /\ x \in Paths /\ IsPrefix(q, x)
    BY <1>2 DEF TreeAt, DiskTyped
  <2>2. IsPrefix(i.app, x) /\ Rebase(x, q, Rebase(q, i.app, i.to)) = Rebase(x, i.app, i.to)
    BY <1>2, <1>4, <2>1, RebaseTwice
  <2>3. x \in TreeAt(i.app) /\ w \notin ToSet(x)
    BY <1>2, <2>1, <2>2 DEF TreeAt
  <2>4. Rebase(x, q, dst) \in Paths /\ IsPrefix(dst, Rebase(x, q, dst))
    BY <1>4, <2>1, RebaseUnder
  <2>5. QED  BY <1>4, <2>1, <2>2, <2>3, <2>4
<1>10. \A p \in DOMAIN disk' : p \in Paths
  BY <1>6 DEF DiskTyped
<1>11. \A r \in DOMAIN disk : disk[r].kind = "dir" /\ ~IsPrefix(q, r) /\ ~IsPrefix(dst, r) =>
         r \in DOMAIN disk' /\ disk'[r].kind = "dir"
  BY <1>6
<1>12. \A r \in Paths : IsPrefix(r, dst) /\ r # dst =>
         /\ r \in DOMAIN disk /\ disk[r].kind = "dir" /\ ~IsPrefix(q, r) /\ ~IsPrefix(dst, r)
         /\ r \in DOMAIN disk' /\ disk'[r].kind = "dir"
  <2>1. SUFFICES ASSUME NEW r \in Paths, IsPrefix(r, dst), r # dst
                 PROVE  /\ r \in DOMAIN disk /\ disk[r].kind = "dir"
                        /\ ~IsPrefix(q, r) /\ ~IsPrefix(dst, r)
    BY <1>11
  <2>2. dst # <<>>
    <3>1. i.to \in Paths /\ IsPrefix(i.to, dst) /\ dst \in Paths
      BY <1>2, <1>4
    <3>2. Len(i.to) <= Len(dst) /\ Len(i.to) \in Nat /\ Len(dst) \in Nat
      BY <3>1, PrefixOrder, PathBasics
    <3>3. Len(i.to) # 0
      <4>1. i.to \in Seq(PathNames)
        BY <3>1 DEF Paths
      <4>2. QED  BY <1>3, <4>1, EmptySeq
    <3>4. Len(<<>>) = 0
      BY EmptySeq
    <3>5. QED  BY <3>2, <3>3, <3>4
  <2>3. /\ Front(dst) \in Paths /\ IsPrefix(Front(dst), dst) /\ IsPrefix(r, Front(dst))
    BY <1>4, <2>1, <2>2, FrontIs
  <2>4. w \notin ToSet(Front(dst))
    BY <1>4, <2>3, PrefixOrder
  <2>5. Front(dst) \in DOMAIN disk /\ disk[Front(dst)].kind = "dir"
    BY DEF IsDirAt
  <2>6. r \in DOMAIN disk /\ disk[r].kind = "dir"
    <3>1. CASE r = Front(dst)
      BY <2>5, <3>1
    <3>2. CASE r # Front(dst)
      <4>1. IsDirAt(r)
        BY <2>3, <2>4, <2>5, <3>2 DEF Sound, Treelike
      <4>2. QED  BY <4>1 DEF IsDirAt
    <3>3. QED  BY <3>1, <3>2
  <2>7. ~IsPrefix(dst, r)
    BY <1>4, <2>1, PrefixOrder
  <2>8. ~IsPrefix(q, r)
    BY <1>4, <2>1, PrefixChain
  <2>9. QED  BY <2>6, <2>7, <2>8
<1>13. Treelike(w)'
  <2>1. SUFFICES ASSUME NEW p \in DOMAIN disk', w \notin ToSet(p),
                        NEW r \in Paths, IsPrefix(r, p), r # p
                 PROVE  r \in DOMAIN disk' /\ disk'[r].kind = "dir"
    BY DEF Treelike, IsDirAt
  <2>2. p \in Paths
    BY <1>10
  <2>3. CASE p \in DOMAIN disk /\ ~IsPrefix(q, p) /\ ~IsPrefix(dst, p)
    <3>1. r \in DOMAIN disk /\ disk[r].kind = "dir"
      BY <2>1, <2>3 DEF Sound, Treelike, IsDirAt
    <3>2. ~IsPrefix(q, r) /\ ~IsPrefix(dst, r)
      BY <1>4, <2>1, <2>2, <2>3, PrefixChain
    <3>3. QED  BY <1>11, <3>1, <3>2
  <2>4. CASE \E x \in TreeAt(q) : p = Rebase(x, q, dst)
    <3>1. PICK x \in TreeAt(q) : p = Rebase(x, q, dst)
      BY <2>4
    <3>2. x \in DOMAIN disk /\ x \in Paths /\ IsPrefix(q, x) /\ w \notin ToSet(x) /\ IsPrefix(dst, p)
      BY <1>9, <3>1
    <3>3. CASE IsPrefix(dst, r)
      <4>1. PICK s : s = Rebase(r, dst, q)
        OBVIOUS
      <4>2. s \in Paths /\ IsPrefix(q, s) /\ Rebase(s, q, dst) = r
        BY <1>4, <3>3, <4>1, RebaseUnder
      <4>3. IsPrefix(s, x)
        BY <1>4, <2>1, <3>1, <3>2, <4>2, RebaseOrder
      <4>4. s # x
        BY <2>1, <3>1, <4>2
      <4>5. s \in DOMAIN disk /\ disk[s].kind = "dir"
        BY <3>2, <4>2, <4>3, <4>4 DEF Sound, Treelike, IsDirAt
      <4>6. s \in TreeAt(q)
        BY <4>2, <4>5 DEF TreeAt
      <4>7. QED  BY <1>6, <4>2, <4>5, <4>6
    <3>4. CASE ~IsPrefix(dst, r)
      <4>1. IsPrefix(r, dst) /\ r # dst
        BY <1>4, <2>1, <2>2, <3>2, <3>4, PrefixChain, PrefixOrder
      <4>2. QED  BY <1>12, <4>1
    <3>5. QED  BY <3>3, <3>4
  <2>5. CASE p \in Paths /\ IsPrefix(b, p)
    BY <1>3, <2>1, <2>5
  <2>6. QED  BY <1>8, <2>3, <2>4, <2>5

<1>14. \A x \in DOMAIN disk' : IsPrefix(i.app, x) =>
         x \in TreeAt(i.app) /\ ~IsPrefix(q, x) /\ ~IsPrefix(dst, x) /\ disk'[x] = disk[x]
  <2>1. SUFFICES ASSUME NEW x \in DOMAIN disk', IsPrefix(i.app, x)
                 PROVE  x \in DOMAIN disk /\ ~IsPrefix(q, x) /\ ~IsPrefix(dst, x)
    BY <1>6 DEF TreeAt
  <2>2. CASE \E y \in TreeAt(q) : x = Rebase(y, q, dst)
    BY <1>2, <1>9, <2>1, <2>2
  <2>3. CASE x \in Paths /\ IsPrefix(b, x)
    BY <1>3, <2>1, <2>3
  <2>4. QED  BY <1>8, <2>2, <2>3
<1>15. PlanOK(w)'
  <2>1. IsDirAt(i.app)'
    <3>1. ~IsPrefix(q, i.app) /\ ~IsPrefix(dst, i.app)
      BY <1>2, <1>4, PrefixChain, PrefixOrder
    <3>2. QED  BY <1>3, <1>11, <3>1 DEF IsDirAt
  <2>2. IsDirAt(i.to)'
    BY <1>2, <1>4, <1>12 DEF IsDirAt
  <2>3. Apart(i)'
    BY <1>3, <1>14 DEF Apart, TreeAt
  <2>4. /\ w \notin ToSet(i.app) \cup ToSet(i.to) /\ IsPrefix(i.scan, i.app)
        /\ prepare[w].cleanup => DeleteScanSafe(i.scan, i.app, i.to)
        /\ BackupDir \notin ToSet(i.app) \cup ToSet(i.to)
    BY <1>0 DEF Sound, PlanOK, Planned
  <2>5. QED  BY <1>0, <1>3, <2>1, <2>2, <2>3, <2>4 DEF PlanOK
<1>16. Fresh(w)'
  BY DEF Fresh
<1>17. OnlyExtrasLeft(w)'
  <2>1. prepare[w].cleanup => \A p \in DOMAIN disk : IsPrefix(i.scan, p) =>
          disk[p].kind = "dir" \/ disk[p].origin \in announced \/ IsPrefix(i.app, p)
    BY <1>0 DEF Sound, OnlyExtrasLeft, Planned, TreeAt
  <2>2. ASSUME prepare[w].cleanup, NEW p \in DOMAIN disk', IsPrefix(i.scan, p)
        PROVE  disk'[p].kind = "dir" \/ disk'[p].origin \in announced \/ IsPrefix(i.app, p)
    <3>1. CASE p \in DOMAIN disk /\ ~IsPrefix(q, p) /\ ~IsPrefix(dst, p)
      <4>1. disk'[p] = disk[p]
        BY <1>6, <3>1
      <4>2. QED  BY <2>1, <2>2, <3>1, <4>1
    <3>2. CASE \E y \in TreeAt(q) : p = Rebase(y, q, dst)
      BY <1>2, <1>9, <2>2, <3>2
    <3>3. CASE p \in Paths /\ IsPrefix(b, p)
      BY <1>3, <2>2, <3>3
    <3>4. QED  BY <1>8, <3>1, <3>2, <3>3
  <2>3. prepare'[w].pc \in Moving /\ prepare'[w].info = i /\ prepare' = prepare /\ announced' = announced
    BY <1>0 DEF Moving
  <2>4. QED  BY <2>2, <2>3 DEF OnlyExtrasLeft, TreeAt
<1>18. \A p \in DOMAIN disk' : w \in ToSet(p) => IsPrefix(b, p)
  <2>1. SUFFICES ASSUME NEW p \in DOMAIN disk', w \in ToSet(p) PROVE IsPrefix(b, p)
    OBVIOUS
  <2>2. CASE p \in DOMAIN disk
    BY <1>3, <2>1, <2>2
  <2>3. CASE \E y \in TreeAt(q) : p = Rebase(y, q, dst)
    BY <1>2, <1>9, <2>1, <2>3
  <2>4. QED  BY <1>8, <2>2, <2>3
<1>19. ASSUME NEW p \in DOMAIN disk', NEW x \in DOMAIN disk', IsPrefix(i.app, x), x # i.app,
              IsPrefix(Rebase(Rebase(x, i.app, i.to), i.to, b), p)
       PROVE  /\ disk'[x].kind = "dir"
              /\ Rebase(x, i.app, i.to) \in DOMAIN disk'
              /\ disk'[Rebase(x, i.app, i.to)].kind = "dir"
  <2>1. x \in TreeAt(i.app) \ {i.app} /\ ~IsPrefix(q, x) /\ disk'[x] = disk[x]
    BY <1>14, <1>19
  <2>2. PICK y, s : y = Rebase(x, i.app, i.to) /\ s = Rebase(y, i.to, b)
    OBVIOUS
  <2>3. /\ x \in Paths /\ x \in DOMAIN disk /\ y \in Paths /\ s \in Paths
        /\ IsPrefix(b, s) /\ IsPrefix(s, p) /\ ~IsPrefix(i.app, y)
    BY <1>2, <1>19, <2>1, <2>2
  <2>4. ~IsPrefix(dst, y) /\ ~IsPrefix(saved, s)
    <3>1. /\ IsPrefix(q, x) <=> IsPrefix(Rebase(q, i.app, i.to), Rebase(x, i.app, i.to))
          /\ IsPrefix(q, x) <=>
               IsPrefix(Rebase(Rebase(q, i.app, i.to), i.to, b), Rebase(Rebase(x, i.app, i.to), i.to, b))
      <4>1. /\ i.app \in Paths /\ i.to \in Paths /\ b \in Paths /\ q \in Paths /\ x \in Paths
            /\ IsPrefix(i.app, q) /\ IsPrefix(i.app, x)
        BY <1>2, <1>4, <1>19, <2>3
      <4>2. QED  BY <4>1, SameOrder
    <3>2. QED  BY <1>1, <1>4, <2>1, <2>2, <3>1
  <2>5. ~IsPrefix(q, y)
    BY <1>2, <1>4, <2>3, PrefixChain
  <2>6. disk[x].kind = "dir" /\ y \in DOMAIN disk /\ disk[y].kind = "dir"
    <3>1. p \in Paths
      BY <1>10
    <3>2. CASE p \in DOMAIN disk
      BY <1>3, <1>19, <2>1, <2>2, <3>2 DEF IsDirAt
    <3>3. CASE \E z \in TreeAt(q) : p = Rebase(z, q, dst)
      <4>1. w \notin ToSet(p)
        BY <1>2, <1>9, <3>3
      <4>2. IsPrefix(b, p)
        BY <1>2, <2>3, <3>1, PrefixChain
      <4>3. QED  BY <1>3, <3>1, <4>1, <4>2
    <3>4. CASE IsPrefix(b, p) /\ IsPrefix(saved, p)
      <4>1. IsPrefix(s, saved)
        BY <1>4, <2>3, <2>4, <3>1, <3>4, PrefixChain
      <4>2. IsPrefix(x, q) /\ IsPrefix(y, dst)
        <5>1. /\ IsPrefix(x, q) <=> IsPrefix(Rebase(x, i.app, i.to), Rebase(q, i.app, i.to))
              /\ IsPrefix(x, q) <=>
                   IsPrefix(Rebase(Rebase(x, i.app, i.to), i.to, b),
                             Rebase(Rebase(q, i.app, i.to), i.to, b))
          <6>1. /\ i.app \in Paths /\ i.to \in Paths /\ b \in Paths /\ q \in Paths /\ x \in Paths
                /\ IsPrefix(i.app, q) /\ IsPrefix(i.app, x)
            BY <1>2, <1>4, <1>19, <2>3
          <6>2. QED  BY <6>1, SameOrder
        <5>2. QED  BY <1>1, <1>4, <2>2, <4>1, <5>1
      <4>3. x # q /\ y # dst
        BY <1>4, <2>1, <2>4, PrefixOrder
      <4>4. disk[x].kind = "dir"
        BY <1>4, <2>3, <4>2, <4>3 DEF Sound, Treelike, IsDirAt
      <4>5. QED  BY <1>12, <2>3, <4>2, <4>3, <4>4
    <3>5. QED  BY <1>8, <3>2, <3>3, <3>4
  <2>7. y \in DOMAIN disk' /\ disk'[y].kind = "dir"
    BY <1>11, <2>4, <2>5, <2>6
  <2>8. QED  BY <2>1, <2>2, <2>6, <2>7
<1>20. BackupOK(w)'
  <2>1. b = Front(i.to) \o <<BackupDir, w>>
    BY <1>0 DEF Sound, BackupOK
  <2>2. prepare'[w].info = i /\ prepare'[w].backup = b
    BY <1>0
  <2>3. \A p \in DOMAIN disk', x \in DOMAIN disk' :
          IsPrefix(i.app, x) /\ x # i.app
          /\ IsPrefix(Rebase(Rebase(x, i.app, i.to), i.to, b), p) =>
            /\ disk'[x].kind = "dir"
            /\ Rebase(x, i.app, i.to) \in DOMAIN disk'
            /\ disk'[Rebase(x, i.app, i.to)].kind = "dir"
    BY <1>19
  <2>4. BackupHolds(w, i, b)'
    BY ZenonT(60), <1>18, <2>1, <2>2, <2>3 DEF BackupHolds
  <2>5. QED  BY <2>4, BackupThen
<1>21. ASSUME AppKept(w) PROVE AppKept(w)'
  <2>1. prepare'[w].info = i /\ prepare'[w].pc = "merge" /\ prepare'[w].cleanup = prepare[w].cleanup
    BY <1>0
  <2>2. CASE i.patch
    BY <2>1, <2>2 DEF AppKept
  <2>3. CASE ~i.patch
    <3>1. AppIs(w, i, "merge")
      BY <1>0, <1>21, <2>3 DEF AppKept, Planned
    <3>2. ASSUME i.to # Home(i.title)
          PROVE  /\ ~(Home(i.title) \in DOMAIN disk' /\ disk'[Home(i.title)].kind = "dir")
                 /\ Last(i.to) = AppName[i.title]
      <4>1. /\ i.title \in Titles /\ Last(i.to) = AppName[i.title]
            /\ ~(Home(i.title) \in DOMAIN disk /\ disk[Home(i.title)].kind = "dir")
        BY <3>1, <3>2 DEF AppIs, IsDirAt
      <4>2. ~IsPrefix(i.to, Home(i.title))
        BY <1>2, <1>3, <3>2, <4>1, HomeIs
      <4>3. w \notin ToSet(Home(i.title))
        BY <4>1, AppPathTyped, NamesTyped DEF Home
      <4>4. CASE Home(i.title) \in DOMAIN disk'
        <5>1. CASE \E x \in TreeAt(q) : Home(i.title) = Rebase(x, q, dst)
          BY <1>2, <1>9, <4>2, <5>1
        <5>2. CASE Home(i.title) \in Paths /\ IsPrefix(b, Home(i.title))
          BY <1>3, <4>3, <5>2
        <5>3. CASE /\ Home(i.title) \in DOMAIN disk
                   /\ ~IsPrefix(q, Home(i.title)) /\ ~IsPrefix(dst, Home(i.title))
          BY <1>6, <4>1, <5>3
        <5>4. QED  BY <1>8, <4>4, <5>1, <5>2, <5>3
      <4>5. QED  BY <4>1, <4>4
    <3>3. ASSUME NEW n \in AppFiles
          PROVE  \/ HasFile(i.app, n, i.title)'
                 \/ HasFile(i.to, n, i.title)' /\ Append(i.app, n) \notin DOMAIN disk'
      <4>1. PICK x, y : x = Append(i.app, n) /\ y = Append(i.to, n)
        OBVIOUS
      <4>2. n \in PathNames /\ i.app \in Paths /\ i.to \in Paths /\ q \in TreeAt(i.app)
        BY <1>0, <1>2, AppFilesAre
      <4>3. /\ x \in Paths /\ x # i.app /\ IsPrefix(i.app, x)
            /\ \A r \in Paths : IsPrefix(r, x) /\ r # x => IsPrefix(r, i.app)
        BY <4>1, <4>2, ChildIs
      <4>4. /\ y \in Paths /\ IsPrefix(i.to, y)
            /\ \A r \in Paths : IsPrefix(r, y) /\ r # y => IsPrefix(r, i.to)
        BY <4>1, <4>2, ChildIs
      <4>5. y = Rebase(x, i.app, i.to)
        BY <4>1, <4>2, RebaseChild
      <4>6. x \in DOMAIN disk' => x \in DOMAIN disk /\ ~IsPrefix(q, x)
        BY <1>14, <4>3 DEF TreeAt
      <4>7. CASE HasFile(i.app, n, i.title) /\ IsPrefix(q, x)
        <5>1. x \in TreeAt(q)
          BY <4>1, <4>7 DEF HasFile, TreeAt
        <5>2. Rebase(x, q, dst) = y
          BY <1>9, <4>5, <5>1
        <5>3. y \in DOMAIN disk' /\ disk'[y] = disk[x] /\ x \notin DOMAIN disk'
          BY <1>6, <4>6, <4>7, <5>1, <5>2
        <5>4. QED  BY <4>1, <4>7, <5>3 DEF HasFile
      <4>8. CASE HasFile(i.app, n, i.title) /\ ~IsPrefix(q, x)
        <5>1. dst # x
          BY <1>2, <1>4, <4>2, <4>3
        <5>2. IsPrefix(dst, i.app) => IsPrefix(dst, q)
          BY <1>4, <4>2, PrefixChain
        <5>3. ~IsPrefix(dst, x)
          BY <1>4, <4>3, <5>1, <5>2
        <5>4. x \in DOMAIN disk' /\ disk'[x] = disk[x]
          BY <1>6, <4>1, <4>8, <5>3 DEF HasFile
        <5>5. QED  BY <4>1, <4>8, <5>4 DEF HasFile
      <4>9. CASE HasFile(i.to, n, i.title) /\ Append(i.app, n) \notin DOMAIN disk
        <5>1. y \in DOMAIN disk /\ disk[y].kind = "file" /\ x \notin DOMAIN disk
          BY <4>1, <4>9 DEF HasFile
        <5>2. ~IsPrefix(i.app, y)
          BY <1>3, <4>2, <4>4, <5>1 DEF IsDirAt
        <5>3. ~IsPrefix(q, y)
          BY <1>4, <4>2, <4>4, <5>2, PrefixChain
        <5>4. dst # y
          <6>1. q # x
            BY <1>4, <5>1
          <6>2. IsPrefix(q, x) <=> IsPrefix(Rebase(q, i.app, i.to), Rebase(x, i.app, i.to))
            BY <1>4, <4>2, <4>3, RebaseOrder
          <6>3. IsPrefix(x, q) <=> IsPrefix(Rebase(x, i.app, i.to), Rebase(q, i.app, i.to))
            BY <1>4, <4>2, <4>3, RebaseOrder
          <6>4. QED  BY <1>4, <4>3, <4>4, <4>5, <6>1, <6>2, <6>3, PrefixOrder
        <5>5. ~IsPrefix(dst, y)
          BY <1>4, <4>2, <4>4, <5>4, PrefixOrder
        <5>6. y \in DOMAIN disk' /\ disk'[y] = disk[y] /\ x \notin DOMAIN disk'
          BY <1>6, <4>6, <5>1, <5>3, <5>5
        <5>7. QED  BY <4>1, <4>9, <5>6 DEF HasFile
      <4>10. QED  BY <3>1, <4>7, <4>8, <4>9 DEF AppIs
    <3>4. AppIs(w, i, "merge")'
      BY <2>1, <3>1, <3>2, <3>3 DEF AppIs, HasFile, IsDirAt, Moving
    <3>5. QED  BY <2>1, <3>4, AppThen
  <2>4. QED  BY <2>2, <2>3
<1>22. QED  BY <1>7, <1>13, <1>15, <1>16, <1>17, <1>20, <1>21 DEF Sound

-----------------------------------------------------------------------------
(* AppPrepare: the invariant.                                               *)

LEMMA EntrySound ==
  ASSUME PrepareTypeOK, NEW w \in Preparers, Watched(w), Sound(w), NEW q \in DOMAIN disk,
         MergeEntry(w, q)
  PROVE  Kept /\ Sound(w)'
<1>1. PICK dst : dst = Rebase(q, prepare[w].info.app, prepare[w].info.to)
  OBVIOUS
<1>2. /\ prepare[w].pc = "merge" /\ q \in TreeAt(prepare[w].info.app) /\ q # prepare[w].info.app
      /\ IsDirAt(Front(dst)) /\ UNCHANGED <<prepare, announced>>
  BY <1>1 DEF MergeEntry, KeepRest
<1>3. CASE disk[q].kind = "dir" /\ KidsAt(q) = {} /\ disk' = [p \in DOMAIN disk \ {q} |-> disk[p]]
  BY <1>2, <1>3, EmptySound DEF IsDirAt
<1>4. CASE /\ disk[q].kind = "file" \/ ~IsDirAt(dst)
           /\ ~IsPrefix(dst, q) /\ ~IsPrefix(q, dst) /\ disk' = MoveTo(w, q, dst)
  BY <1>1, <1>2, <1>4, MoveSound
<1>5. QED  BY <1>1, <1>3, <1>4 DEF MergeEntry

LEMMA ActsSound ==
  ASSUME PrepareTypeOK, NEW w \in Preparers, Watched(w), Sound(w), Acts(w)
  PROVE  Kept /\ (Watched(w)' => Sound(w)')
<1>1. ASSUME NEW scan \in Scans, AskPrepare(w, scan) PROVE Kept /\ Sound(w)'
  BY <1>1, AskSound
<1>2. CASE ProbeFails(w) \/ MergeFails(w)
  <2>1. UNCHANGED disk /\ prepare'[w].pc = "failed"
    BY <1>2, FailedIs DEF ProbeFails, MergeFails
  <2>2. QED  BY <2>1, KeptAsIs DEF Watched, Planned
<1>3. CASE Apply(w)
  BY <1>3, ApplySound
<1>4. CASE OpenPatch(w) \/ OpenApp(w)
  BY <1>4, OpenSound
<1>5. CASE PlaceWhole(w)
  BY <1>5, PlaceSound
<1>6. CASE BeginBackup(w)
  BY <1>6, BeginSound
<1>7. CASE MergeDone(w)
  BY <1>7, DoneSound
<1>8. CASE Finish(w)
  <2>1. UNCHANGED disk
    BY <1>8 DEF Finish
  <2>2. prepare'[w].pc \in {"ok", "failed"}
    BY <1>8, FinishedIs
  <2>3. QED  BY <2>1, <2>2, KeptAsIs DEF Watched, Planned
<1>9. ASSUME NEW q \in DOMAIN disk, MergeEntry(w, q) \/ MergeOverItself(w, q) \/ CleanEntry(w, q)
      PROVE  Kept /\ (Watched(w)' => Sound(w)')
  BY <1>9, EntrySound, OverSound, CleanSound
<1>10. QED  BY <1>1, <1>2, <1>3, <1>4, <1>5, <1>6, <1>7, <1>8, <1>9 DEF Acts

(* Where a prepare is when it does something.                               *)
LEMMA ActsAt ==
  ASSUME NEW w \in Preparers, Acts(w)
  PROVE  \/ prepare[w].pc = "idle" /\ \E scan \in Scans : AskPrepare(w, scan)
         \/ prepare[w].pc = "apply" /\ (ProbeFails(w) \/ Apply(w))
         \/ prepare[w].pc \in Planned
<1>1. \A scan \in Scans : AskPrepare(w, scan) => prepare[w].pc = "idle"
  BY Zenon DEF AskPrepare
<1>2. ProbeFails(w) => prepare[w].pc = "apply"
  BY Zenon DEF ProbeFails
<1>3. Apply(w) => prepare[w].pc = "apply"
  BY Zenon DEF Apply
<1>4. OpenPatch(w) \/ PlaceWhole(w) \/ BeginBackup(w) => prepare[w].pc \in {"open", "place", "backup"}
  BY Zenon DEF OpenPatch, PlaceWhole, BeginBackup
<1>5. MergeDone(w) \/ MergeFails(w) \/ OpenApp(w) \/ Finish(w) =>
        prepare[w].pc \in {"merge", "chmod", "clean"}
  BY Zenon DEF MergeDone, MergeFails, OpenApp, Finish
<1>6. \A q \in DOMAIN disk : MergeEntry(w, q) \/ MergeOverItself(w, q) \/ CleanEntry(w, q) =>
        prepare[w].pc \in {"merge", "clean"}
  BY Zenon DEF MergeEntry, MergeOverItself, CleanEntry
<1>7. QED  BY <1>1, <1>2, <1>3, <1>4, <1>5, <1>6 DEF Acts, Planned

(* Who has probed goes on, and its merge is into what it takes away or is not.  *)
LEMMA GoesOn ==
  ASSUME PrepareTypeOK, NEW w \in Preparers, Acts(w), prepare[w].pc \notin {"idle", "apply"}
  PROVE  /\ prepare[w].pc \in Planned /\ prepare'[w].apart = prepare[w].apart
         /\ prepare'[w].pc \notin {"idle", "apply"}
<1>0. prepare \in [Preparers -> Prepares] /\ prepare[w] \in Prepares
  BY EntryTyped DEF PrepareTypeOK, Entries
<1>1. ASSUME NEW pc \in PrepareSteps, Step(w, pc)
      PROVE  prepare'[w].apart = prepare[w].apart /\ prepare'[w].pc = pc
  BY <1>0, <1>1 DEF Step, Prepares
<1>2. CASE MergeFails(w)
  BY <1>1, <1>2 DEF MergeFails, Gives, Planned, PrepareSteps
<1>3. CASE OpenPatch(w) \/ OpenApp(w)
  BY <1>1, <1>3 DEF OpenPatch, OpenApp, Gives, Planned, PrepareSteps
<1>4. CASE PlaceWhole(w)
  <2>1. prepare[w].pc = "place" /\ (Step(w, "backup") \/ Step(w, "failed") \/ Step(w, "chmod"))
    BY <1>4 DEF PlaceWhole, Gives
  <2>2. QED  BY <1>1, <2>1 DEF Planned, PrepareSteps
<1>5. CASE BeginBackup(w)
  BY <1>0, <1>5 DEF BeginBackup, Planned, Prepares
<1>6. CASE MergeDone(w)
  <2>1. prepare[w].pc = "merge" /\ (Step(w, "clean") \/ Step(w, "chmod"))
    BY <1>6 DEF MergeDone
  <2>2. QED  BY <1>1, <2>1 DEF Planned, PrepareSteps
<1>7. CASE Finish(w)
  BY <1>7, FinishedIs DEF Finish, Planned
<1>8. ASSUME NEW q \in DOMAIN disk, MergeEntry(w, q) \/ MergeOverItself(w, q) \/ CleanEntry(w, q)
      PROVE  /\ prepare[w].pc \in Planned /\ prepare'[w].apart = prepare[w].apart
             /\ prepare'[w].pc \notin {"idle", "apply"}
  <2>1. CASE MergeOverItself(w, q)
    <3>1. prepare[w].pc = "merge" /\ Step(w, "failed")
      BY <2>1 DEF MergeOverItself
    <3>2. QED  BY <1>1, <3>1 DEF Planned, PrepareSteps
  <2>2. CASE MergeEntry(w, q) \/ CleanEntry(w, q)
    BY <2>2 DEF MergeEntry, CleanEntry, Planned
  <2>3. QED  BY <1>8, <2>1, <2>2
<1>9. ~ProbeFails(w) /\ ~Apply(w) /\ \A scan \in Scans : ~AskPrepare(w, scan)
  BY Zenon DEF AskPrepare, ProbeFails, Apply
<1>10. QED  BY <1>2, <1>3, <1>4, <1>5, <1>6, <1>7, <1>8, <1>9 DEF Acts

LEMMA InvKept ==
  ASSUME PrepareInv, NEW w \in Preparers, Acts(w) PROVE PrepareInv'
<1>1. PrepareTypeOK' /\ Started(w) /\ PrepareTypeOK
  BY ActsTyped DEF PrepareInv
<1>2. ASSUME NEW v \in Preparers, Watched(v)' PROVE Sound(v)'
  <2>1. v = w
    BY <1>1, <1>2 DEF Watched, Alone, Started
  <2>2. Alone(w)
    BY <1>1, <1>2, <2>1 DEF Watched, Alone, Started, OthersAlike
  <2>3. Watched(w)
    BY <1>1, <1>2, <2>1, <2>2, GoesOn DEF Watched
  <2>4. QED  BY <1>1, <1>2, <2>1, <2>3, ActsSound DEF PrepareInv
<1>3. QED  BY <1>1, <1>2 DEF PrepareInv

(* Every step of anybody keeps the invariant, and a file that a prepare alone   *)
(* takes away was announced.                                                *)
LEMMA InvNext == ASSUME PrepareInv, [PrepareNext]_prepareVars PROVE PrepareInv'
<1>1. CASE \E w \in Preparers : Acts(w)
  BY <1>1, InvKept
<1>2. CASE UNCHANGED <<disk, prepare, announced>> /\ (prepareCancel' \in {TRUE, prepareCancel})
  <2>1. PrepareTypeOK'
    BY PrepareTyped DEF PrepareInv
  <2>2. ASSUME NEW w \in Preparers, Watched(w)' PROVE Sound(w)'
    <3>1. Watched(w)
      BY <1>2, <2>2 DEF Watched, Alone
    <3>2. Sound(w)
      BY <3>1 DEF PrepareInv
    <3>3. Treelike(w)' /\ Fresh(w)'
      BY <1>2, <3>2 DEF Sound, Treelike, Fresh, IsDirAt
    <3>4. PlanOK(w)'
      BY <1>2, <3>2 DEF Sound, PlanOK, IsDirAt, Apart, TreeAt
    <3>5. OnlyExtrasLeft(w)' /\ BackupOK(w)'
      BY <1>2, <3>2 DEF Sound, OnlyExtrasLeft, BackupOK, Saved, Target, IsDirAt, TreeAt
    <3>6. QED  BY <3>3, <3>4, <3>5 DEF Sound
  <2>3. QED  BY <2>1, <2>2 DEF PrepareInv
<1>3. QED  BY <1>1, <1>2, NextActs

LEMMA InvStarts == ASSUME PrepareInit PROVE PrepareInv
<1>1. PrepareTypeOK
  BY PrepareStarts
<1>2. ASSUME NEW w \in Preparers PROVE Sound(w)
  <2>1. prepare[w].pc = "idle"
    BY DEF PrepareInit, Waiting
  <2>2. \A p \in DOMAIN disk : ToSet(p) \cap Preparers = {} /\ p \in Paths
    BY <1>1, PrepareAssumption DEF PrepareInit, PrepareTypeOK, DiskTyped
  <2>3. \A p \in DOMAIN disk : \A r \in Prefixes(p) \ {p} : r \in DOMAIN disk /\ disk[r].kind = "dir"
    BY PrepareAssumption DEF PrepareInit
  <2>4. Treelike(w)
    BY <2>2, <2>3, PrefixesAre DEF Treelike, IsDirAt
  <2>5. Fresh(w)
    BY <2>2 DEF Fresh
  <2>6. PlanOK(w) /\ OnlyExtrasLeft(w) /\ BackupOK(w)
    BY <2>1 DEF PlanOK, OnlyExtrasLeft, BackupOK, Planned
  <2>7. QED  BY <2>4, <2>5, <2>6 DEF Sound
<1>3. QED  BY <1>1, <1>2 DEF PrepareInv

(* What a prepare that is alone may rely on, from the first disk on.           *)
THEOREM PrepareInvariant == PrepareSpec => []PrepareInv
<1>1. PrepareInv /\ [PrepareNext]_prepareVars => PrepareInv'
  BY InvNext
<1>2. QED  BY <1>1, InvStarts, PTL DEF PrepareSpec

(* A step while somebody is alone in the sense of Undisturbed, with its effect. *)
LEMMA OnlyExtrasStep ==
  ASSUME PrepareInv, [PrepareNext]_prepareVars, NEW w \in Preparers, Undisturbed(w)
  PROVE  Origins \ Origins' \subseteq announced
<1>1. ASSUME Kept PROVE Origins \ Origins' \subseteq announced
  <2>1. SUFFICES ASSUME NEW o \in Origins, o \notin Origins' PROVE o \in announced
    OBVIOUS
  <2>2. PICK p \in DOMAIN disk : disk[p].kind # "dir" /\ disk[p].origin = o
    BY <2>1 DEF Origins
  <2>3. \A r \in DOMAIN disk' : disk'[r].kind # "dir" => disk'[r].origin # o
    BY <2>1 DEF Origins
  <2>4. QED  BY <1>1, <2>2, <2>3 DEF Kept
<1>2. CASE UNCHANGED disk
  BY <1>1, <1>2, KeptAsIs
<1>3. ASSUME NEW v \in Preparers, Acts(v), disk' # disk PROVE Kept
  <2>1. PrepareTypeOK
    BY DEF PrepareInv
  <2>2. \A scan \in Scans : ~AskPrepare(v, scan)
    BY <1>3, <2>1, AskedIs
  <2>3. ~ProbeFails(v) /\ ~Apply(v)
    BY <1>3, <2>1, AppliedIs, FailedIs DEF ProbeFails
  <2>4. prepare[v].pc \in Planned /\ v = w
    BY <1>3, <2>2, <2>3, ActsAt DEF Undisturbed, Planned
  <2>5. Watched(w)
    BY <2>4 DEF Undisturbed, Watched, Alone
  <2>6. QED  BY <1>3, <2>1, <2>4, <2>5, ActsSound DEF PrepareInv
<1>4. QED  BY <1>1, <1>2, <1>3, NextActs

(* PrepareDeletesOnlyExtras for any disk, folder, titles and places.            *)
THEOREM OnlyExtrasGo == PrepareSpec => PrepareDeletesOnlyExtras
<1>1. PrepareInv /\ [PrepareNext]_prepareVars =>
        [(\E w \in Preparers : Undisturbed(w)) => Origins \ Origins' \subseteq announced]_prepareVars
  BY OnlyExtrasStep
<1>2. QED  BY <1>1, PrepareInvariant, PTL DEF PrepareSpec, PrepareDeletesOnlyExtras

LEMMA ApplyApp ==
  ASSUME PrepareTypeOK, NEW w \in Preparers, Watched(w), Sound(w), Apply(w), Watched(w)'
  PROVE  AppKept(w)'
<1>0. PICK scan : scan = prepare[w].info.scan
  OBVIOUS
<1>1. UNCHANGED disk /\ prepare[w].pc = "apply" /\ IsDirAt(scan)
  <2>1. UNCHANGED disk
    BY AppliedIs
  <2>2. prepare[w].pc = "apply" /\ IsDirAt(prepare[w].info.scan)
    BY Zenon DEF Apply
  <2>3. QED  BY <1>0, <2>1, <2>2
<1>2. PICK i \in Probe(scan) : ~Refused(i) /\ Planning(w, i)
  <2>1. prepare'[w].pc # "failed"
    BY DEF Watched, Planned
  <2>2. QED  BY <1>0, <2>1, AppliedIs
<1>3. /\ prepare'[w].info = i /\ prepare'[w].apart = Apart(i)
      /\ prepare'[w].cleanup = (DeleteScanSafe(i.scan, i.app, i.to) /\ (i.patch \/ i.extra # {}))
      /\ prepare'[w].pc = IF i.patch THEN "open" ELSE IF i.app = i.to THEN "chmod" ELSE "place"
  BY <1>2 DEF Planning
<1>4. DiskTyped /\ scan \in Paths /\ Treelike(w) /\ \A p \in DOMAIN disk : w \notin ToSet(p)
  BY <1>0, <1>1, EntryTyped DEF PrepareTypeOK, Entries, Sound, Fresh
<1>5. PICK c \in Candidates(scan) :
        /\ i.scan = scan /\ i.app = c.path /\ i.title = c.title /\ i.patch = c.patch
        /\ i.to = PreparedPath(scan, Context(scan), c) /\ i \in Infos
  BY <1>4, InfoTyped
<1>a. PICK pc : pc = prepare'[w].pc
  OBVIOUS
<1>6. SUFFICES ASSUME ~i.patch PROVE AppIs(w, i, pc)'
  <2>1. ~i.patch => AppKept(w)'
    BY <1>3, <1>6, <1>a, AppThen
  <2>2. i.patch => AppKept(w)'
    BY <1>3 DEF AppKept
  <2>3. QED  BY <2>1, <2>2
<1>7. /\ i.app \in Paths /\ i.to \in Paths /\ IsAppDir(i.app) /\ i.title = TitleAt(i.app)
      /\ i.title \in Titles /\ IsPrefix(scan, i.app)
  BY <1>4, <1>5, <1>6, CandidateIs DEF Infos
<1>8. Apart(i)
  BY <1>3 DEF Watched, Planned
<1>9. i.to = Home(i.title) \/ (~IsDirAt(Home(i.title)) /\ Last(i.to) = AppName[i.title])
  BY <1>1, <1>4, <1>5, <1>6, PreparedPathIs DEF Home
<1>10. ASSUME NEW n \in AppFiles PROVE HasFile(i.app, n, i.title)
  <2>1. TitleAt(i.app) # NoTitle /\ HasBootFile(i.app)
    BY <1>7 DEF IsAppDir
  <2>2. CASE n = "eboot.bin"
    BY <2>1, <2>2 DEF HasBootFile, HasFile
  <2>3. CASE n = "param.json"
    BY <1>7, <2>1, <2>3 DEF TitleAt, HasFile
  <2>4. QED  BY <2>2, <2>3 DEF AppFiles
<1>11. ASSUME NEW n \in AppFiles, prepare'[w].cleanup PROVE ~IsPrefix(scan, Append(i.to, n))
  <2>1. ~IsPrefix(scan, i.to) /\ scan # i.to
    BY <1>3, <1>5, <1>11 DEF DeleteScanSafe
  <2>2. i.app # i.to
    BY <1>7, <2>1
  <2>3. /\ n \in PathNames /\ Append(i.app, n) \in Paths /\ Append(i.to, n) \in Paths
        /\ IsPrefix(i.app, Append(i.app, n)) /\ IsPrefix(i.to, Append(i.to, n))
    BY <1>7, AppFilesAre, ChildIs
  <2>4. Append(i.app, n) \in TreeAt(i.app)
    BY <1>10, <2>3 DEF HasFile, TreeAt
  <2>5. Rebase(Append(i.app, n), i.app, i.to) = Append(i.to, n)
    BY <1>7, <2>3, RebaseChild
  <2>6. IsStrictPrefix(i.to, scan) => ~IsPrefix(scan, Append(i.to, n))
    BY <1>5, <1>8, <2>2, <2>4, <2>5 DEF Apart
  <2>7. IsPrefix(i.to, scan) => IsStrictPrefix(i.to, scan)
    BY <2>1 DEF IsStrictPrefix
  <2>8. QED  BY <1>4, <1>7, <2>1, <2>3, <2>6, <2>7, PrefixChain
<1>12. QED
  <2>1. \A n \in AppFiles :
          /\ Append(i.app, n) \in DOMAIN disk' /\ disk'[Append(i.app, n)].kind = "file"
          /\ n = "param.json" => disk'[Append(i.app, n)].title = i.title
    BY <1>1, <1>10 DEF HasFile
  <2>2. \/ i.to = Home(i.title)
        \/ /\ ~(Home(i.title) \in DOMAIN disk' /\ disk'[Home(i.title)].kind = "dir")
           /\ Last(i.to) = AppName[i.title]
    BY <1>1, <1>9 DEF IsDirAt
  <2>3. pc = IF i.app = i.to THEN "chmod" ELSE "place"
    BY <1>3, <1>6, <1>a
  <2>4. \A n \in AppFiles : prepare'[w].cleanup => ~IsPrefix(i.scan, Append(i.to, n))
    BY <1>5, <1>11
  <2>5. CASE i.app = i.to
    BY <1>7, <2>1, <2>2, <2>3, <2>4, <2>5 DEF AppIs, HasFile, IsDirAt
  <2>6. CASE i.app # i.to
    BY <1>7, <2>1, <2>2, <2>3, <2>4, <2>6 DEF AppIs, HasFile, IsDirAt, Moving
  <2>7. QED  BY <2>5, <2>6

(* The app is where it is to be: there, opened, and nothing before it.          *)
LEMMA OpenApps ==
  ASSUME PrepareTypeOK, NEW w \in Preparers, AppKept(w), OpenPatch(w) \/ OpenApp(w)
  PROVE  AppKept(w)' \/ prepare'[w].pc = "failed"
<1>0. PICK i : i = prepare[w].info
  OBVIOUS
<1>1. DiskTyped /\ i.app \in Paths /\ i.to \in Paths
  BY <1>0, EntryTyped DEF PrepareTypeOK, Entries
<1>2. CASE Gives(w, "failed")
  BY <1>2, FailedIs
<1>3. CASE prepare[w].pc = "open" /\ disk' = Opened(i.app) /\ Step(w, "backup") /\ KeepRest
  <2>1. DiskTyped'
    BY <1>1, <1>3, OpenedIs
  <2>2. prepare'[w].info = i
    BY <1>0, <1>3, <2>1, SteppedIs DEF PrepareSteps
  <2>3. i.patch
    BY <1>0, <1>3 DEF AppKept, AppIs, Planned
  <2>4. QED  BY <2>2, <2>3 DEF AppKept
<1>4. CASE /\ prepare[w].pc = "chmod" /\ disk' = Opened(i.to) /\ Step(w, "clean") /\ KeepRest
           /\ IsDirAt(i.to)
  <2>1. /\ DiskTyped' /\ DOMAIN disk' = DOMAIN disk
        /\ \A q \in DOMAIN disk :
             /\ disk'[q].kind = disk[q].kind /\ disk'[q].title = disk[q].title
             /\ IsPrefix(i.to, q) => disk'[q].kind = "link" \/ disk'[q].open
    BY <1>1, <1>4, OpenedIs
  <2>2. /\ prepare'[w].info = i /\ prepare'[w].pc = "clean"
        /\ prepare'[w].cleanup = prepare[w].cleanup
    BY <1>0, <1>4, <2>1, SteppedIs DEF PrepareSteps
  <2>3. CASE i.patch
    BY <2>2, <2>3 DEF AppKept
  <2>4. CASE ~i.patch
    <3>1. AppIs(w, i, "chmod")
      BY <1>0, <1>4, <2>4 DEF AppKept, Planned
    <3>2. \A n \in AppFiles : HasFile(i.to, n, i.title)
      BY <3>1 DEF AppIs, Moving
    <3>3. \A n \in AppFiles :
            /\ Append(i.to, n) \in DOMAIN disk' /\ disk'[Append(i.to, n)].kind = "file"
            /\ n = "param.json" => disk'[Append(i.to, n)].title = i.title
      BY <2>1, <3>2 DEF HasFile
    <3>4. i.to \in DOMAIN disk' /\ disk'[i.to].kind = "dir"
      BY <1>4, <2>1 DEF IsDirAt
    <3>5. \A q \in DOMAIN disk' : IsPrefix(i.to, q) => disk'[q].kind = "link" \/ disk'[q].open
      BY <2>1
    <3>6. \/ i.to = Home(i.title)
          \/ /\ ~(Home(i.title) \in DOMAIN disk' /\ disk'[Home(i.title)].kind = "dir")
             /\ Last(i.to) = AppName[i.title]
      BY <2>1, <3>1 DEF AppIs, IsDirAt
    <3>7. /\ i.title \in Titles
          /\ \A n \in AppFiles : prepare'[w].cleanup => ~IsPrefix(i.scan, Append(i.to, n))
      BY <2>2, <3>1 DEF AppIs
    <3>8. AppIs(w, i, "clean")'
      BY <3>3, <3>4, <3>5, <3>6, <3>7 DEF AppIs, HasFile, IsDirAt, TreeAt
    <3>9. QED  BY <2>2, <3>8, AppThen
  <2>5. QED  BY <2>3, <2>4
<1>5. CASE OpenPatch(w)
  BY <1>0, <1>2, <1>3, <1>5 DEF OpenPatch
<1>6. CASE OpenApp(w)
  BY <1>0, <1>2, <1>4, <1>6 DEF OpenApp
<1>7. QED  BY <1>5, <1>6

(* Its files are what they were, in the folder that is still to be moved.      *)
LEMMA StaysApp ==
  ASSUME NEW w, AppKept(w), NEW i, i = prepare[w].info, UNCHANGED disk,
         prepare[w].pc \in {"place", "backup"}, NEW pc \in {"backup", "merge"},
         prepare'[w].info = i, prepare'[w].pc = pc, prepare'[w].cleanup = prepare[w].cleanup
  PROVE  AppKept(w)'
<1>1. CASE i.patch
  BY <1>1 DEF AppKept
<1>2. CASE ~i.patch
  <2>1. AppIs(w, i, prepare[w].pc)
    BY <1>2 DEF AppKept, Planned
  <2>2. \A n \in AppFiles : HasFile(i.app, n, i.title)
    BY <2>1 DEF AppIs
  <2>3. \A n \in AppFiles :
          /\ Append(i.app, n) \in DOMAIN disk' /\ disk'[Append(i.app, n)].kind = "file"
          /\ n = "param.json" => disk'[Append(i.app, n)].title = i.title
    BY <2>2 DEF HasFile
  <2>4. \/ i.to = Home(i.title)
        \/ /\ ~(Home(i.title) \in DOMAIN disk' /\ disk'[Home(i.title)].kind = "dir")
           /\ Last(i.to) = AppName[i.title]
    BY <2>1 DEF AppIs, IsDirAt
  <2>5. /\ i.title \in Titles
        /\ \A n \in AppFiles : prepare'[w].cleanup => ~IsPrefix(i.scan, Append(i.to, n))
    BY <2>1 DEF AppIs
  <2>6. pc \in Moving /\ pc \notin {"open", "clean"}
    BY DEF Moving
  <2>7. AppIs(w, i, pc)'
    BY <2>3, <2>4, <2>5, <2>6 DEF AppIs, HasFile, IsDirAt
  <2>8. QED  BY <2>7, AppThen
<1>3. QED  BY <1>1, <1>2

LEMMA BeginApps ==
  ASSUME PrepareTypeOK, NEW w \in Preparers, AppKept(w), BeginBackup(w)
  PROVE  AppKept(w)'
<1>1. PICK i : i = prepare[w].info
  OBVIOUS
<1>2. prepare[w].pc = "backup"
  BY Zenon DEF BeginBackup
<1>3. /\ UNCHANGED disk /\ prepare'[w].pc = "merge" /\ prepare'[w].info = i
      /\ prepare'[w].cleanup = prepare[w].cleanup
  BY <1>1, BegunIs
<1>4. QED  BY <1>1, <1>2, <1>3, StaysApp

LEMMA CleanApps ==
  ASSUME PrepareTypeOK, NEW w \in Preparers, Watched(w), Sound(w), AppKept(w),
         NEW q \in DOMAIN disk, CleanEntry(w, q)
  PROVE  AppKept(w)'
<1>0. PICK i : i = prepare[w].info
  OBVIOUS
<1>1. /\ prepare[w].pc = "clean" /\ prepare[w].cleanup /\ q \in TreeAt(i.scan)
      /\ disk' = [p \in DOMAIN disk \ {q} |-> disk[p]] /\ UNCHANGED prepare
  BY <1>0 DEF CleanEntry, KeepRest
<1>2. DOMAIN disk' = DOMAIN disk \ {q} /\ \A p \in DOMAIN disk \ {q} : disk'[p] = disk[p]
  BY <1>1
<1>3. IsPrefix(i.scan, q) /\ ~IsPrefix(i.scan, i.to)
  BY <1>0, <1>1 DEF Sound, PlanOK, Planned, DeleteScanSafe, TreeAt
<1>4. CASE i.patch
  BY <1>0, <1>1, <1>4 DEF AppKept
<1>5. CASE ~i.patch
  <2>1. AppIs(w, i, "clean")
    BY <1>0, <1>1, <1>5 DEF AppKept, Planned
  <2>2. \A n \in AppFiles : HasFile(i.to, n, i.title) /\ ~IsPrefix(i.scan, Append(i.to, n))
    BY <1>1, <2>1 DEF AppIs, Moving
  <2>3. \A n \in AppFiles :
          /\ Append(i.to, n) \in DOMAIN disk' /\ disk'[Append(i.to, n)].kind = "file"
          /\ n = "param.json" => disk'[Append(i.to, n)].title = i.title
    BY <1>2, <1>3, <2>2 DEF HasFile
  <2>4. i.to \in DOMAIN disk' /\ disk'[i.to].kind = "dir"
    BY <1>2, <1>3, <2>1 DEF AppIs, IsDirAt
  <2>5. \A p \in DOMAIN disk' : IsPrefix(i.to, p) => disk'[p].kind = "link" \/ disk'[p].open
    BY <1>2, <2>1 DEF AppIs, TreeAt
  <2>6. \/ i.to = Home(i.title)
        \/ /\ ~(Home(i.title) \in DOMAIN disk' /\ disk'[Home(i.title)].kind = "dir")
           /\ Last(i.to) = AppName[i.title]
    BY <1>2, <2>1 DEF AppIs, IsDirAt
  <2>7. /\ i.title \in Titles
        /\ \A n \in AppFiles : prepare'[w].cleanup => ~IsPrefix(i.scan, Append(i.to, n))
    BY <2>1, <2>2 DEF AppIs
  <2>8. AppIs(w, i, "clean")'
    BY <2>3, <2>4, <2>5, <2>6, <2>7 DEF AppIs, HasFile, IsDirAt, TreeAt
  <2>9. prepare'[w].info = i /\ prepare'[w].pc = "clean"
    BY <1>0, <1>1
  <2>10. QED  BY <2>8, <2>9, AppThen
<1>6. QED  BY <1>4, <1>5

LEMMA DoneApps ==
  ASSUME PrepareTypeOK, NEW w \in Preparers, Watched(w), Sound(w), AppKept(w), MergeDone(w)
  PROVE  AppKept(w)'
<1>0. PICK i : i = prepare[w].info
  OBVIOUS
<1>1. /\ prepare[w].pc = "merge" /\ TreeAt(i.app) = {i.app}
      /\ disk' = [p \in DOMAIN disk \ {i.app} |-> disk[p]] /\ KeepRest
      /\ Step(w, IF i.patch THEN "clean" ELSE "chmod")
  BY <1>0 DEF MergeDone
<1>2. DiskTyped /\ DiskTyped' /\ i.app \in Paths /\ i.to \in Paths /\ i.patch \in BOOLEAN
  BY <1>0, <1>1, RemovedIs, EntryTyped DEF PrepareTypeOK, Entries
<1>3. DOMAIN disk' = DOMAIN disk \ {i.app} /\ \A p \in DOMAIN disk \ {i.app} : disk'[p] = disk[p]
  BY <1>1
<1>4. CASE i.patch
  <2>1. Step(w, "clean")
    BY <1>1, <1>4
  <2>2. prepare'[w].info = i
    BY <1>0, <1>1, <1>2, <2>1, SteppedIs DEF PrepareSteps
  <2>3. QED  BY <1>4, <2>2 DEF AppKept
<1>5. CASE ~i.patch
  <2>1. Step(w, "chmod")
    BY <1>1, <1>5
  <2>2. /\ prepare'[w].info = i /\ prepare'[w].pc = "chmod"
        /\ prepare'[w].cleanup = prepare[w].cleanup
    BY <1>0, <1>1, <1>2, <2>1, SteppedIs DEF PrepareSteps
  <2>3. AppIs(w, i, "merge")
    BY <1>0, <1>1, <1>5 DEF AppKept, Planned
  <2>4. IsDirAt(i.app)
    BY <1>0, <1>1 DEF Sound, PlanOK, Planned, Moving
  <2>5. ASSUME NEW n \in AppFiles PROVE HasFile(i.to, n, i.title)
    <3>1. /\ Append(i.app, n) # i.app /\ IsPrefix(i.app, Append(i.app, n))
      BY <1>2, AppFilesAre, ChildIs
    <3>2. Append(i.app, n) \notin DOMAIN disk
      BY <1>1, <3>1 DEF TreeAt
    <3>3. QED  BY <2>3, <3>2 DEF AppIs, HasFile
  <2>6. \A n \in AppFiles :
          /\ Append(i.to, n) \in DOMAIN disk' /\ disk'[Append(i.to, n)].kind = "file"
          /\ n = "param.json" => disk'[Append(i.to, n)].title = i.title
    BY <1>3, <2>4, <2>5 DEF HasFile, IsDirAt
  <2>7. \/ i.to = Home(i.title)
        \/ /\ ~(Home(i.title) \in DOMAIN disk' /\ disk'[Home(i.title)].kind = "dir")
           /\ Last(i.to) = AppName[i.title]
    BY <1>3, <2>3 DEF AppIs, IsDirAt
  <2>8. /\ i.title \in Titles
        /\ \A n \in AppFiles : prepare'[w].cleanup => ~IsPrefix(i.scan, Append(i.to, n))
    BY <2>2, <2>3 DEF AppIs
  <2>9. AppIs(w, i, "chmod")'
    BY <2>6, <2>7, <2>8 DEF AppIs, HasFile, IsDirAt, Moving
  <2>10. QED  BY <2>2, <2>9, AppThen
<1>6. QED  BY <1>2, <1>4, <1>5

(* An empty folder of the app is none of its files.                           *)
LEMMA EmptyApps ==
  ASSUME PrepareTypeOK, NEW w \in Preparers, Sound(w), AppKept(w), prepare[w].pc = "merge",
         NEW q \in TreeAt(prepare[w].info.app), IsDirAt(q),
         disk' = [p \in DOMAIN disk \ {q} |-> disk[p]], UNCHANGED prepare
  PROVE  AppKept(w)'
<1>0. PICK i : i = prepare[w].info
  OBVIOUS
<1>1. DOMAIN disk' = DOMAIN disk \ {q} /\ \A p \in DOMAIN disk \ {q} : disk'[p] = disk[p]
  OBVIOUS
<1>2. CASE i.patch
  BY <1>0, <1>2 DEF AppKept
<1>3. CASE ~i.patch
  <2>1. AppIs(w, i, "merge")
    BY <1>0, <1>3 DEF AppKept, Planned
  <2>2. \A n \in AppFiles :
          \/ HasFile(i.app, n, i.title)
          \/ HasFile(i.to, n, i.title) /\ Append(i.app, n) \notin DOMAIN disk
    BY <2>1 DEF AppIs
  <2>3. \A n \in AppFiles :
          \/ /\ Append(i.app, n) \in DOMAIN disk' /\ disk'[Append(i.app, n)].kind = "file"
             /\ n = "param.json" => disk'[Append(i.app, n)].title = i.title
          \/ /\ Append(i.to, n) \in DOMAIN disk' /\ disk'[Append(i.to, n)].kind = "file"
             /\ n = "param.json" => disk'[Append(i.to, n)].title = i.title
             /\ Append(i.app, n) \notin DOMAIN disk'
    BY <1>1, <2>2 DEF HasFile, IsDirAt
  <2>4. \/ i.to = Home(i.title)
        \/ /\ ~(Home(i.title) \in DOMAIN disk' /\ disk'[Home(i.title)].kind = "dir")
           /\ Last(i.to) = AppName[i.title]
    BY <1>1, <2>1 DEF AppIs, IsDirAt
  <2>5. /\ i.title \in Titles
        /\ \A n \in AppFiles : prepare'[w].cleanup => ~IsPrefix(i.scan, Append(i.to, n))
    BY <2>1 DEF AppIs
  <2>6. AppIs(w, i, "merge")'
    BY <2>3, <2>4, <2>5 DEF AppIs, HasFile, IsDirAt, Moving
  <2>7. prepare'[w].info = i /\ prepare'[w].pc = "merge"
    BY <1>0
  <2>8. QED  BY <2>6, <2>7, AppThen
<1>4. QED  BY <1>2, <1>3

LEMMA EntryApps ==
  ASSUME PrepareTypeOK, NEW w \in Preparers, Sound(w), AppKept(w), NEW q \in DOMAIN disk,
         MergeEntry(w, q)
  PROVE  AppKept(w)'
<1>1. PICK dst : dst = Rebase(q, prepare[w].info.app, prepare[w].info.to)
  OBVIOUS
<1>2. /\ prepare[w].pc = "merge" /\ q \in TreeAt(prepare[w].info.app) /\ q # prepare[w].info.app
      /\ IsDirAt(Front(dst)) /\ UNCHANGED <<prepare, announced>>
  BY <1>1 DEF MergeEntry, KeepRest
<1>3. CASE disk[q].kind = "dir" /\ KidsAt(q) = {} /\ disk' = [p \in DOMAIN disk \ {q} |-> disk[p]]
  BY <1>2, <1>3, EmptyApps DEF IsDirAt
<1>4. CASE /\ disk[q].kind = "file" \/ ~IsDirAt(dst)
           /\ ~IsPrefix(dst, q) /\ ~IsPrefix(q, dst) /\ disk' = MoveTo(w, q, dst)
  BY <1>1, <1>2, <1>4, MoveSound
<1>5. QED  BY <1>1, <1>3, <1>4 DEF MergeEntry

LEMMA PlaceApps ==
  ASSUME PrepareTypeOK, NEW w \in Preparers, Watched(w), Sound(w), AppKept(w), PlaceWhole(w)
  PROVE  AppKept(w)' \/ prepare'[w].pc = "failed"
<1>0. PICK i : i = prepare[w].info
  OBVIOUS
<1>1. /\ DiskTyped /\ i \in Infos /\ i.app \in Paths /\ i.to \in Paths
      /\ prepare[w].pc = "place" /\ prepare[w].pc \in Planned /\ prepare[w].pc \in Moving
  BY <1>0, EntryTyped DEF PrepareTypeOK, Entries, PlaceWhole, Planned, Moving
<1>2. i.to # <<>> /\ IsDirAt(Front(i.to))
  BY <1>0, <1>1 DEF Sound, PlanOK
<1>3. CASE Gives(w, "failed")
  BY <1>3, FailedIs
<1>4. CASE Gives(w, "backup")
  <2>1. /\ UNCHANGED disk /\ prepare'[w].pc = "backup" /\ prepare'[w].info = i
        /\ prepare'[w].cleanup = prepare[w].cleanup
    BY <1>0, <1>4, GivenIs DEF PrepareSteps
  <2>2. QED  BY <1>0, <1>1, <2>1, StaysApp
<1>5. CASE i.to \notin DOMAIN disk /\ Step(w, "chmod") /\ KeepRest
           /\ LET parents == Prefixes(Front(i.to)) \ DOMAIN disk
                  moved   == {Rebase(q, i.app, i.to) : q \in TreeAt(i.app)}
              IN disk' = [q \in (DOMAIN disk \ TreeAt(i.app)) \cup moved \cup parents |->
                            IF q \in moved THEN disk[Rebase(q, i.to, i.app)]
                            ELSE IF q \in parents
                              THEN [kind |-> "dir", origin |-> q, open |-> TRUE, title |-> NoTitle]
                            ELSE disk[q]]
  <2>1. /\ DiskTyped'
        /\ DOMAIN disk' = (DOMAIN disk \ TreeAt(i.app)) \cup Arrived(i.app, i.to)
                            \cup (Prefixes(Front(i.to)) \ DOMAIN disk)
        /\ \A x \in TreeAt(i.app) :
             Rebase(x, i.app, i.to) \in DOMAIN disk' /\ disk'[Rebase(x, i.app, i.to)] = disk[x]
        /\ \A x \in DOMAIN disk \ TreeAt(i.app) :
             ~IsPrefix(i.to, x) => x \in DOMAIN disk' /\ disk'[x] = disk[x]
    BY <1>1, <1>5, PlacedIs
  <2>2. /\ prepare'[w].pc = "chmod" /\ prepare'[w].info = i
        /\ prepare'[w].cleanup = prepare[w].cleanup
    BY <1>0, <1>5, <2>1, SteppedIs DEF PrepareSteps
  <2>3. CASE i.patch
    BY <2>2, <2>3 DEF AppKept
  <2>4. CASE ~i.patch
    <3>1. AppIs(w, i, "place")
      BY <1>0, <1>1, <2>4 DEF AppKept
    <3>2. ASSUME NEW n \in AppFiles
          PROVE  /\ Append(i.to, n) \in DOMAIN disk' /\ disk'[Append(i.to, n)].kind = "file"
                 /\ n = "param.json" => disk'[Append(i.to, n)].title = i.title
      <4>1. HasFile(i.app, n, i.title)
        BY <3>1 DEF AppIs
      <4>2. IsPrefix(i.app, Append(i.app, n)) /\ Rebase(Append(i.app, n), i.app, i.to) = Append(i.to, n)
        <5>1. i.app \in Paths /\ i.to \in Paths /\ n \in PathNames
          BY <1>1, AppFilesAre
        <5>2. IsPrefix(i.app, Append(i.app, n))
          BY <5>1, ChildIs
        <5>3. QED  BY <5>1, <5>2, RebaseChild
      <4>3. Append(i.app, n) \in TreeAt(i.app)
        BY <4>1, <4>2 DEF HasFile, TreeAt
      <4>4. Append(i.to, n) \in DOMAIN disk' /\ disk'[Append(i.to, n)] = disk[Append(i.app, n)]
        BY <2>1, <4>2, <4>3
      <4>5. QED  BY <4>1, <4>4 DEF HasFile
    <3>3. ASSUME i.to # Home(i.title)
          PROVE  /\ ~(Home(i.title) \in DOMAIN disk' /\ disk'[Home(i.title)].kind = "dir")
                 /\ Last(i.to) = AppName[i.title]
      <4>1. i.title \in Titles /\ Last(i.to) = AppName[i.title] /\ ~IsDirAt(Home(i.title))
        BY <3>1, <3>3 DEF AppIs
      <4>2. ~IsPrefix(i.to, Home(i.title))
        BY <1>1, <1>2, <3>3, <4>1, HomeIs
      <4>3. Prefixes(Front(i.to)) \ DOMAIN disk = {}
        <5>1. Front(i.to) \in Paths /\ Front(i.to) \in DOMAIN disk /\ w \notin ToSet(Front(i.to))
          BY <1>1, <1>2, FrontIsPath DEF IsDirAt, Sound, Fresh
        <5>2. \A r \in Paths : IsPrefix(r, Front(i.to)) => r \in DOMAIN disk
          BY <5>1 DEF Sound, Treelike, IsDirAt
        <5>3. QED  BY <5>1, <5>2, PrefixesAre
      <4>4. Home(i.title) \notin Arrived(i.app, i.to)
        BY <1>1, <4>2, ArrivedIs
      <4>5. Home(i.title) \in DOMAIN disk' =>
              Home(i.title) \in DOMAIN disk /\ disk'[Home(i.title)] = disk[Home(i.title)]
        BY <2>1, <4>2, <4>3, <4>4
      <4>6. QED  BY <4>1, <4>5 DEF IsDirAt
    <3>4. /\ i.title \in Titles
          /\ \A n \in AppFiles : prepare'[w].cleanup => ~IsPrefix(i.scan, Append(i.to, n))
      BY <2>2, <3>1 DEF AppIs
    <3>5. AppIs(w, i, "chmod")'
      BY <3>2, <3>3, <3>4 DEF AppIs, HasFile, IsDirAt, Moving
    <3>6. QED  BY <2>2, <3>5, AppThen
  <2>5. QED  BY <2>3, <2>4
<1>6. QED
  <2>1. CASE i.to \in DOMAIN disk
    BY <1>0, <1>3, <1>4, <2>1 DEF PlaceWhole
  <2>2. CASE i.to \notin DOMAIN disk /\ (i.app \notin DOMAIN disk \/ IsPrefix(i.app, i.to))
    BY <1>0, <1>3, <2>2 DEF PlaceWhole
  <2>3. CASE i.to \notin DOMAIN disk /\ ~(i.app \notin DOMAIN disk \/ IsPrefix(i.app, i.to))
    BY <1>0, <1>5, <2>3 DEF PlaceWhole
  <2>4. QED  BY <2>1, <2>2, <2>3

LEMMA BesideIs ==
  ASSUME NEW to \in Paths, to # <<>>, NEW t \in Titles, Last(to) = AppName[t]
  PROVE  AppPath(Front(to), t) = to
<1>1. Front(to) \in Paths /\ Len(to) \in Nat \ {0} /\ Len(Front(to)) = Len(to) - 1
      /\ IsPrefix(Front(to), to)
  BY FrontIs
<1>2. \A k \in 1 .. Len(Front(to)) : Front(to)[k] = to[k]
  BY <1>1, PrefixIs
<1>3. PICK f : f = Front(to)
  OBVIOUS
<1>4. f \in Seq(PathNames) /\ f \in Paths /\ AppName[t] \in PathNames /\ Len(f) \in Nat
  BY <1>1, <1>3, NamesTyped, PathBasics DEF Paths
<1>5. /\ Append(f, AppName[t]) \in Seq(PathNames) /\ Len(Append(f, AppName[t])) = Len(f) + 1
      /\ Append(f, AppName[t])[Len(f) + 1] = AppName[t]
      /\ \A k \in 1 .. Len(f) : Append(f, AppName[t])[k] = f[k]
  BY <1>4, AppendProperties
<1>6. PICK a : a = Append(f, AppName[t])
  OBVIOUS
<1>7. a \in Paths /\ Len(a) = Len(to)
  BY <1>1, <1>3, <1>4, <1>5, <1>6 DEF Paths
<1>8. to[Len(to)] = AppName[t]
  BY DEF Last
<1>9. ASSUME NEW k \in 1 .. Len(a) PROVE a[k] = to[k]
  <2>1. CASE k \in 1 .. Len(f)
    BY <1>2, <1>3, <1>5, <1>6, <2>1
  <2>2. CASE k \notin 1 .. Len(f)
    <3>1. k = Len(f) + 1 /\ k = Len(to)
      BY <1>1, <1>3, <1>4, <1>7, <2>2
    <3>2. QED  BY <1>5, <1>6, <1>8, <3>1
  <2>3. QED  BY <2>1, <2>2
<1>10. a = to
  BY <1>7, <1>9, SamePath
<1>11. QED  BY <1>3, <1>6, <1>10 DEF AppPath

(* The second probe finds the app that was placed, and nothing to do.           *)
LEMMA ProbedAgain ==
  ASSUME DiskTyped, NEW to \in Paths, to # <<>>, NEW t \in Titles, IsDirAt(to),
         \A n \in AppFiles : HasFile(to, n, t),
         to = Home(t) \/ (~IsDirAt(Home(t)) /\ Last(to) = AppName[t]),
         \A q \in TreeAt(to) : disk[q].kind = "link" \/ disk[q].open
  PROVE  Probe(to) # {} /\ \A j \in Probe(to) : j.prepared
<1> DEFINE c0 == [path |-> to, title |-> t, patch |-> FALSE]
<1>1. TitleAt(to) = t /\ HasBootFile(to) /\ t # NoTitle
  <2>1. HasFile(to, "eboot.bin", t) /\ HasFile(to, "param.json", t)
    BY DEF AppFiles
  <2>2. QED  BY <2>1, NamesTyped DEF HasFile, TitleAt, HasBootFile
<1>2. IsAppDir(to) /\ to \in TreeAt(to)
  BY <1>1, PrefixOrder DEF IsAppDir, IsDirAt, TreeAt
<1>3. c0 \in Candidates(to)
  <2>1. [path |-> to, title |-> TitleAt(to), patch |-> FALSE] \in
          {[path |-> p, title |-> TitleAt(p), patch |-> FALSE] : p \in {q \in TreeAt(to) : IsAppDir(q)}}
    BY <1>2
  <2>2. QED  BY <1>1, <2>1 DEF Candidates
<1>4. ASSUME NEW c \in Best(to) PROVE c = c0
  <2>1. /\ c \in Candidates(to)
        /\ Rank(to, c) < Rank(to, c0) \/ Rank(to, c) = Rank(to, c0)
    BY <1>3, <1>4 DEF Best
  <2>2. /\ c = [path |-> c.path, title |-> c.title, patch |-> c.patch] /\ c.patch \in BOOLEAN
        /\ ~c.patch => c.title = TitleAt(c.path)
    BY <2>1, CandidateIs
  <2>3. Rank(to, c0) \in {0, 1}
    BY DEF Rank
  <2>4. c.patch \/ c.path # to => Rank(to, c) \in {2, 3, 4, 5, 6, 7}
    BY <2>2 DEF Rank
  <2>5. ~c.patch /\ c.path = to
    BY <2>1, <2>2, <2>3, <2>4
  <2>6. QED  BY <1>1, <2>2, <2>5
<1>5. c0 \in Best(to)
  <2>1. SUFFICES ASSUME NEW d \in Candidates(to)
                 PROVE  \/ Rank(to, c0) < Rank(to, d)
                        \/ Rank(to, c0) = Rank(to, d) /\ Len(c0.path) <= Len(d.path)
    BY <1>3 DEF Best
  <2>2. /\ d = [path |-> d.path, title |-> d.title, patch |-> d.patch] /\ d.patch \in BOOLEAN
        /\ ~d.patch => d.title = TitleAt(d.path)
    BY CandidateIs
  <2>3. Rank(to, c0) \in {0, 1}
    BY DEF Rank
  <2>4. CASE d.patch \/ d.path # to
    <3>1. Rank(to, d) \in {2, 3, 4, 5, 6, 7}
      BY <2>2, <2>4 DEF Rank
    <3>2. QED  BY <2>3, <3>1
  <2>5. CASE ~d.patch /\ d.path = to
    <3>1. d = c0
      BY <1>1, <2>2, <2>5
    <3>2. Len(c0.path) \in Nat
      BY PathBasics
    <3>3. QED  BY <2>3, <3>1, <3>2
  <2>6. QED  BY <2>4, <2>5
<1>6. PreparedPath(to, Context(to), c0) = to
  <2>1. ~c0.patch /\ c0.title = t /\ c0.path = to
    OBVIOUS
  <2>2. CASE to = Home(t)
    BY <2>1, <2>2 DEF PreparedPath, Home
  <2>3. CASE to # Home(t)
    <3>1. ~IsDirAt(Home(t)) /\ Last(to) = AppName[t]
      BY <2>3
    <3>2. AppPath(Front(to), t) = to
      BY <3>1, BesideIs
    <3>3. QED  BY <2>1, <2>3, <3>1, <3>2 DEF PreparedPath, Home
  <2>4. QED  BY <2>2, <2>3
<1>7. Extras(to, to, to) = {}
  BY DEF Extras, DeleteScanSafe
<1> HIDE DEF c0
<1>8. Info(to, c0).prepared
  <2>1. ~c0.patch /\ c0.title = t /\ c0.path = to /\ to \in DOMAIN disk
    BY DEF c0, IsDirAt
  <2>2. QED  BY <1>6, <1>7, <2>1 DEF Info
<1>9. QED  BY <1>4, <1>5, <1>8 DEF Probe

(* One that ends well is answered what the second probe says.                  *)
LEMMA EndsWell ==
  ASSUME PrepareTypeOK, NEW w \in Preparers, Watched(w), Sound(w), AppKept(w), Finish(w)
  PROVE  prepare'[w].again
<1>0. PICK i : i = prepare[w].info
  OBVIOUS
<1>1. prepare[w].pc = "clean"
  BY Zenon DEF Finish
<1>2. DiskTyped /\ i.to \in Paths /\ i.to # <<>> /\ i.patch \in BOOLEAN
  BY <1>0, <1>1, EntryTyped DEF PrepareTypeOK, Entries, Sound, PlanOK, Planned
<1>3. i.patch \/ IsDirAt(i.to) =>
        prepare'[w].again \in IF i.patch THEN {TRUE} ELSE Answers(i.to)
  BY <1>0, FinishedIs
<1>4. CASE i.patch
  BY <1>3, <1>4
<1>5. CASE ~i.patch
  <2>1. AppIs(w, i, "clean")
    BY <1>0, <1>1, <1>5 DEF AppKept, Planned
  <2>2. /\ i.title \in Titles /\ IsDirAt(i.to) /\ \A n \in AppFiles : HasFile(i.to, n, i.title)
        /\ i.to = Home(i.title) \/ (~IsDirAt(Home(i.title)) /\ Last(i.to) = AppName[i.title])
        /\ \A q \in TreeAt(i.to) : disk[q].kind = "link" \/ disk[q].open
    BY <2>1 DEF AppIs, Moving
  <2>3. Probe(i.to) # {} /\ \A j \in Probe(i.to) : j.prepared
    BY <1>2, <2>2, ProbedAgain
  <2>4. PICK j \in Probe(i.to) : prepare'[w].again = j.prepared
    BY <1>3, <1>5, <2>2, <2>3 DEF Answers
  <2>5. QED  BY <2>3, <2>4
<1>6. QED  BY <1>2, <1>4, <1>5

LEMMA AppsKept ==
  ASSUME PrepareTypeOK, NEW w \in Preparers, Watched(w), Sound(w), AppKept(w), Acts(w),
         prepare[w].pc \in Planned, Watched(w)'
  PROVE  AppKept(w)'
<1>1. prepare'[w].pc \notin {"failed", "ok"}
  BY DEF Watched, Planned
<1>2. ~ProbeFails(w) /\ ~Apply(w) /\ \A scan \in Scans : ~AskPrepare(w, scan)
  BY Zenon DEF AskPrepare, ProbeFails, Apply, Planned
<1>3. ~MergeFails(w)
  BY <1>1, FailedIs DEF MergeFails
<1>4. ~Finish(w)
  BY <1>1, FinishedIs
<1>5. CASE OpenPatch(w) \/ OpenApp(w)
  BY <1>1, <1>5, OpenApps
<1>6. CASE PlaceWhole(w)
  BY <1>1, <1>6, PlaceApps
<1>7. CASE BeginBackup(w)
  BY <1>7, BeginApps
<1>8. CASE MergeDone(w)
  BY <1>8, DoneApps
<1>9. ASSUME NEW q \in DOMAIN disk, MergeEntry(w, q) \/ MergeOverItself(w, q) \/ CleanEntry(w, q)
      PROVE  AppKept(w)'
  <2>1. CASE MergeOverItself(w, q)
    <3>1. ~Watched(w)'
      BY <2>1, OverSound
    <3>2. QED  BY <3>1
  <2>2. CASE MergeEntry(w, q)
    BY <2>2, EntryApps
  <2>3. CASE CleanEntry(w, q)
    BY <2>3, CleanApps
  <2>4. QED  BY <1>9, <2>1, <2>2, <2>3
<1>10. QED  BY <1>2, <1>3, <1>4, <1>5, <1>6, <1>7, <1>8, <1>9 DEF Acts

(* Only the last step ends one well.                                        *)
LEMMA OnlyFinish ==
  ASSUME PrepareTypeOK, NEW w \in Preparers, Acts(w), prepare'[w].pc = "ok"
  PROVE  Finish(w) /\ prepare[w].pc = "clean"
<1>1. ASSUME NEW pc \in PrepareSteps, Step(w, pc) PROVE pc = "ok"
  BY <1>1, StepIs DEF PrepareTypeOK, Entries
<1>2. \A scan \in Scans : ~AskPrepare(w, scan)
  BY AskedIs
<1>3. ~ProbeFails(w) /\ ~MergeFails(w)
  BY FailedIs DEF ProbeFails, MergeFails
<1>4. ~Apply(w)
  <2>1. ASSUME NEW i, Planning(w, i) PROVE FALSE
    BY <2>1 DEF Planning
  <2>2. QED  BY <2>1, AppliedIs
<1>5. ~OpenPatch(w) /\ ~OpenApp(w)
  BY <1>1 DEF OpenPatch, OpenApp, Gives, PrepareSteps
<1>6. ~PlaceWhole(w)
  <2>1. PlaceWhole(w) => Step(w, "backup") \/ Step(w, "failed") \/ Step(w, "chmod")
    BY DEF PlaceWhole, Gives
  <2>2. QED  BY <1>1, <2>1 DEF PrepareSteps
<1>7. ~BeginBackup(w)
  BY BegunIs
<1>8. ~MergeDone(w)
  <2>1. MergeDone(w) => Step(w, "clean") \/ Step(w, "chmod")
    BY DEF MergeDone
  <2>2. QED  BY <1>1, <2>1 DEF PrepareSteps
<1>9. \A q \in DOMAIN disk : ~MergeOverItself(w, q)
  BY <1>1 DEF MergeOverItself, PrepareSteps
<1>10. \A q \in DOMAIN disk : ~MergeEntry(w, q) /\ ~CleanEntry(w, q)
  BY DEF MergeEntry, CleanEntry
<1>11. Finish(w)
  BY <1>2, <1>3, <1>4, <1>5, <1>6, <1>7, <1>8, <1>9, <1>10 DEF Acts
<1>12. prepare[w].pc = "clean"
  BY Zenon, <1>11 DEF Finish
<1>13. QED  BY <1>11, <1>12

(* The app that a prepare alone places, and what it answers.                   *)
AppInv ==
  /\ PrepareInv
  /\ \A w \in Preparers : Watched(w) => AppKept(w)
  /\ PreparedStays

LEMMA AppActs == ASSUME AppInv, NEW w \in Preparers, Acts(w) PROVE AppInv'
<1>1. PrepareInv /\ PrepareTypeOK /\ PrepareInv'
  BY InvKept DEF AppInv, PrepareInv
<1>2. Started(w)
  BY <1>1, ActsTyped
<1>3. ASSUME NEW v \in Preparers, Watched(v)' PROVE AppKept(v)'
  <2>1. v = w
    BY <1>2, <1>3 DEF Watched, Alone, Started
  <2>2. Alone(w)
    BY <1>2, <1>3, <2>1 DEF Watched, Alone, Started, OthersAlike
  <2>3. CASE prepare[w].pc \in {"idle", "apply"}
    <3>1. Watched(w) /\ Sound(w)
      BY <1>1, <2>2, <2>3 DEF Watched, PrepareInv
    <3>2. CASE \E scan \in Scans : AskPrepare(w, scan)
      <4>1. prepare'[w].pc = "apply"
        BY <1>1, <3>2, AskedIs
      <4>2. QED  BY <2>1, <4>1 DEF AppKept, Planned
    <3>3. CASE ProbeFails(w)
      <4>1. prepare'[w].pc = "failed"
        BY <1>1, <3>3, FailedIs DEF ProbeFails
      <4>2. QED  BY <2>1, <4>1 DEF AppKept, Planned
    <3>4. CASE Apply(w)
      BY <1>1, <1>3, <2>1, <3>1, <3>4, ApplyApp
    <3>5. QED  BY <2>3, <3>2, <3>3, <3>4, ActsAt DEF Planned
  <2>4. CASE prepare[w].pc \notin {"idle", "apply"}
    <3>1. /\ prepare[w].pc \in Planned /\ prepare'[w].apart = prepare[w].apart
          /\ prepare'[w].pc \notin {"idle", "apply"}
      BY <1>1, <2>4, GoesOn
    <3>2. Watched(w)
      BY <1>3, <2>1, <2>2, <3>1 DEF Watched
    <3>3. Sound(w) /\ AppKept(w)
      BY <1>1, <3>2 DEF AppInv, PrepareInv
    <3>4. QED  BY <1>1, <1>3, <2>1, <3>1, <3>2, <3>3, AppsKept
  <2>5. QED  BY <2>3, <2>4
<1>4. ASSUME NEW v \in Preparers, prepare'[v].pc = "ok", Undisturbed(v)' PROVE prepare'[v].again
  <2>1. v = w
    BY <1>2, <1>4 DEF Undisturbed, Started
  <2>2. Finish(w) /\ prepare[w].pc = "clean"
    BY <1>1, <1>4, <2>1, OnlyFinish
  <2>3. prepare[w].apart /\ Alone(w)
    BY <1>1, <1>2, <1>4, <2>1, <2>2, FinishedIs DEF Undisturbed, Alone, Started, OthersAlike
  <2>4. Watched(w)
    BY <2>2, <2>3 DEF Watched, Planned
  <2>5. Sound(w) /\ AppKept(w)
    BY <1>1, <2>4 DEF AppInv, PrepareInv
  <2>6. QED  BY <1>1, <2>1, <2>2, <2>4, <2>5, EndsWell
<1>5. PreparedStays'
  BY <1>4 DEF PreparedStays
<1>6. QED  BY <1>1, <1>3, <1>5 DEF AppInv

LEMMA AppNext == ASSUME AppInv, [PrepareNext]_prepareVars PROVE AppInv'
<1>1. CASE \E w \in Preparers : Acts(w)
  BY <1>1, AppActs
<1>2. CASE UNCHANGED <<disk, prepare, announced>> /\ (prepareCancel' \in {TRUE, prepareCancel})
  <2>1. PrepareInv'
    BY InvNext DEF AppInv
  <2>2. ASSUME NEW w \in Preparers, Watched(w)' PROVE AppKept(w)'
    <3>1. Watched(w)
      BY <1>2, <2>2 DEF Watched, Alone
    <3>2. AppKept(w)
      BY <3>1 DEF AppInv
    <3>3. QED  BY <1>2, <3>2 DEF AppKept, AppIs, HasFile, IsDirAt, TreeAt
  <2>3. PreparedStays'
    BY <1>2 DEF AppInv, PreparedStays, Undisturbed
  <2>4. QED  BY <2>1, <2>2, <2>3 DEF AppInv
<1>3. QED  BY <1>1, <1>2, NextActs

LEMMA AppStarts == ASSUME PrepareInit PROVE AppInv
<1>1. \A w \in Preparers : prepare[w].pc = "idle"
  BY DEF PrepareInit, Waiting
<1>2. QED  BY <1>1, InvStarts DEF AppInv, AppKept, PreparedStays, Planned

(* PreparedStays for any disk, folder, titles and places.                      *)
THEOREM PreparedIsPrepared == PrepareSpec => []PreparedStays
<1>1. AppInv /\ [PrepareNext]_prepareVars => AppInv'
  BY AppNext
<1>2. AppInv => PreparedStays
  BY DEF AppInv
<1>3. QED  BY <1>1, <1>2, AppStarts, PTL DEF PrepareSpec
=============================================================================
