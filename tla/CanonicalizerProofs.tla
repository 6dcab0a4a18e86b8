------------------------- MODULE CanonicalizerProofs -------------------------
(***************************************************************************)
(* Proofs about Canonicalizer, for hosts, names and capitals of any kind:  *)
(* URLs that lead to one directory mean one repository, which is also what *)
(* is fetched into it, and URLs that mean one repository and are written   *)
(* in the usual ways lead to one directory.                                *)
(*                                                                         *)
(* The argument: what the canonicalizers and filepath.Join leave of a path *)
(* is the name or the name with one more ending, so that whoever takes all *)
(* endings off finds the name again.                                       *)
(***************************************************************************)
EXTENDS Integers, Canonicalizer, SequenceTheorems, TLAPS

(***************************************************************************)
(* Facts about the operators of the model.                                 *)
(***************************************************************************)
TrimEndpoint(s) == TrimSuffix(s, Endpoints)
TrimSlash(s) == TrimSuffix(s, {"/"})
TrimGit(s) == TrimSuffix(s, {".git"})

\* Something that a host may have under that name.
Proper(name) == name # <<>> /\ Last(name) \notin Endings

\* Three kinds of endings.
LEMMA Kinds ==
  /\ "/" \notin Endpoints /\ ".git" \notin Endpoints /\ "/" # ".git"
  /\ Endpoints \subseteq Endings /\ "/" \in Endings /\ ".git" \in Endings
  /\ \A t \in Endings : t \in Endpoints \/ t = "/" \/ t = ".git"
BY DEF Endpoints, Endings

\* The code and the reference in those terms.
LEMMA Trims ==
  ASSUME NEW s
  PROVE  TrimPath(s) = TrimGit(TrimEndpoint(s)) /\ NameOf(s) = TrimGit(TrimSlash(TrimEndpoint(s)))
BY DEF TrimPath, NameOf, TrimEndpoint, TrimSlash, TrimGit

\* What the three do.
LEMMA Trimmed ==
  ASSUME NEW s
  PROVE  /\ s = <<>> => TrimEndpoint(s) = s /\ TrimSlash(s) = s /\ TrimGit(s) = s
         /\ s # <<>> =>
              /\ TrimEndpoint(s) = IF Last(s) \in Endpoints THEN Front(s) ELSE s
              /\ TrimSlash(s) = IF Last(s) = "/" THEN Front(s) ELSE s
              /\ TrimGit(s) = IF Last(s) = ".git" THEN Front(s) ELSE s
BY DEF TrimEndpoint, TrimSlash, TrimGit, TrimSuffix

\* A proper name is left alone.
LEMMA ProperStays ==
  ASSUME NEW s, Proper(s)
  PROVE  TrimEndpoint(s) = s /\ TrimSlash(s) = s /\ TrimGit(s) = s /\ TrimPath(s) = s /\ NameOf(s) = s
<1>1. TrimEndpoint(s) = s /\ TrimSlash(s) = s /\ TrimGit(s) = s
  BY Trimmed, Kinds DEF Proper
<1> QED
  BY <1>1, Trims

\* A path without its endpoint: what may be at its end.
LEMMA WithoutEndpoint ==
  ASSUME NEW s, Proper(NameOf(s))
  PROVE  LET a == TrimEndpoint(s)
         IN  /\ a # <<>> /\ TrimEndpoint(a) = a
             /\ \/ Last(a) = "/" /\ TrimGit(a) = a /\ TrimSlash(a) = Front(a) /\ NameOf(s) = TrimGit(Front(a))
                \/ Last(a) # "/" /\ TrimSlash(a) = a /\ TrimGit(a) = NameOf(s)
<1> DEFINE a == TrimEndpoint(s)
           n == NameOf(s)
<1>1. n = TrimGit(TrimSlash(a))
  BY Trims
<1>2. n # <<>> /\ Last(n) \notin Endings
  BY DEF Proper
<1> HIDE DEF a, n
<1>3. a # <<>>
  BY <1>1, <1>2, Trimmed
<1>4. CASE Last(a) = "/"
  <2>1. TrimEndpoint(a) = a /\ TrimGit(a) = a /\ TrimSlash(a) = Front(a)
    BY <1>3, <1>4, Trimmed, Kinds
  <2> QED
    BY <1>1, <1>3, <1>4, <2>1 DEF a, n
<1>5. CASE Last(a) # "/"
  <2>1. TrimSlash(a) = a
    BY <1>3, <1>5, Trimmed
  <2>2. n = TrimGit(a)
    BY <1>1, <2>1
  <2>3. Last(a) \notin Endpoints
    BY <1>2, <1>3, <2>2, Trimmed, Kinds
  <2>4. TrimEndpoint(a) = a
    BY <1>3, <2>3, Trimmed
  <2> QED
    BY <1>3, <1>5, <2>1, <2>2, <2>4 DEF a, n
<1> QED
  BY <1>4, <1>5

\* What the code leaves of a path: the path itself, without its endpoint, or also without
\* its ".git".
Left(s) == {s, TrimEndpoint(s), TrimGit(TrimEndpoint(s))}

\* The name is found again in all of them, with or without a slash at the end.
LEMMA NameStays ==
  ASSUME NEW s, Proper(NameOf(s)), NEW c \in Left(s)
  PROVE  NameOf(c) = NameOf(s) /\ NameOf(TrimSlash(c)) = NameOf(s)
<1> DEFINE a == TrimEndpoint(s)
           n == NameOf(s)
<1>1. Proper(n) /\ NameOf(n) = n /\ TrimSlash(n) = n
  BY ProperStays
<1>2. /\ a # <<>> /\ TrimEndpoint(a) = a
      /\ \/ Last(a) = "/" /\ TrimGit(a) = a /\ TrimSlash(a) = Front(a) /\ n = TrimGit(Front(a))
         \/ Last(a) # "/" /\ TrimSlash(a) = a /\ TrimGit(a) = n
  BY WithoutEndpoint
<1>3. n = TrimGit(TrimSlash(a))
  BY Trims
<1>4. NameOf(a) = n
  BY <1>2, <1>3, Trims
<1> HIDE DEF n
<1>5. NameOf(TrimSlash(a)) = n
  <2>1. CASE Last(a) = "/"
    <3> DEFINE b == Front(a)
    <3>1. n = TrimGit(b) /\ TrimSlash(a) = b
      BY <1>2, <2>1
    <3> HIDE DEF b
    <3>2. n # <<>> /\ Last(n) \notin Endings
      BY <1>1 DEF Proper
    <3>3. b # <<>>
      BY <3>1, <3>2, Trimmed
    <3>4. Last(b) \notin Endpoints /\ Last(b) # "/"
      BY <3>1, <3>2, <3>3, Trimmed, Kinds
    <3>5. TrimEndpoint(b) = b /\ TrimSlash(b) = b
      BY <3>3, <3>4, Trimmed
    <3> QED
      BY <3>1, <3>5, Trims
  <2>2. CASE Last(a) # "/"
    BY <1>2, <1>4, <2>2
  <2> QED
    BY <2>1, <2>2
<1>6. CASE c = a
  BY <1>4, <1>5, <1>6 DEF n
<1>7. CASE c = TrimGit(a)
  BY <1>1, <1>2, <1>4, <1>5, <1>7 DEF n
<1>8. CASE c = s
  <2>1. s # <<>>
    BY <1>2, Trimmed
  <2>2. CASE Last(s) \in Endpoints
    <3>1. TrimSlash(s) = s
      BY <2>1, <2>2, Trimmed, Kinds
    <3> QED
      BY <1>8, <3>1
  <2>3. CASE Last(s) \notin Endpoints
    <3>1. a = s
      BY <2>1, <2>3, Trimmed
    <3> QED
      BY <1>6, <1>8, <3>1
  <2> QED
    BY <2>2, <2>3
<1> QED
  BY <1>6, <1>7, <1>8 DEF Left

\* Taking the last token off leaves a path with the same beginning.
LEMMA FrontOf ==
  ASSUME NEW S, NEW s \in Seq(S), s # <<>>
  PROVE  /\ Front(s) \in Seq(S) /\ Len(Front(s)) = Len(s) - 1 /\ Len(s) \in Nat \ {0}
         /\ \A i \in 1..(Len(s) - 1) : Front(s)[i] = s[i]
         /\ Last(s) = s[Len(s)]
         /\ Front(s) # <<>> => Front(s)[1] = s[1] /\ Last(Front(s)) = s[Len(s) - 1] /\ Len(s) > 1
<1>1. Len(s) \in Nat \ {0}
  BY EmptySeq
<1>2. Front(s) = SubSeq(s, 1, Len(s) - 1)
  BY DEF Front
<1>3. /\ Front(s) \in Seq(S) /\ Len(Front(s)) = Len(s) - 1
      /\ \A i \in 1..(Len(s) - 1) : Front(s)[i] = s[i]
  <2> DEFINE m == Len(s) - 1
  <2>1. m \in Nat /\ m <= Len(s)
    BY <1>1
  <2>2. \A i \in 1..m : s[i] \in S
    BY <1>1, <2>1
  <2> HIDE DEF m
  <2>3. SubSeq(s, 1, m) = [i \in 1..m |-> s[i]]
    BY <2>1
  <2>4. SubSeq(s, 1, m) \in Seq(S) /\ Len(SubSeq(s, 1, m)) = m
    BY <2>1, <2>2, <2>3
  <2>5. \A i \in 1..m : SubSeq(s, 1, m)[i] = s[i]
    BY <2>3
  <2> QED
    BY <1>2, <2>4, <2>5 DEF m
<1>4. ASSUME Front(s) # <<>>
      PROVE  Front(s)[1] = s[1] /\ Last(Front(s)) = s[Len(s) - 1] /\ Len(s) > 1
  <2>1. Len(Front(s)) # 0
    BY <1>3, <1>4, EmptySeq
  <2>2. Len(s) > 1 /\ 1 \in 1..(Len(s) - 1) /\ Len(s) - 1 \in 1..(Len(s) - 1)
    BY <1>1, <1>3, <2>1
  <2>3. Last(Front(s)) = Front(s)[Len(s) - 1]
    BY <1>3 DEF Last
  <2> QED
    BY <1>3, <2>2, <2>3
<1> QED
  BY <1>1, <1>3, <1>4 DEF Last

LEMMA TrimOf ==
  ASSUME NEW S, NEW s \in Seq(S), NEW T
  PROVE  /\ TrimSuffix(s, T) \in Seq(S)
         /\ TrimSuffix(s, T) # <<>> => s # <<>> /\ TrimSuffix(s, T)[1] = s[1]
<1>1. CASE s # <<>> /\ Last(s) \in T
  BY <1>1, FrontOf DEF TrimSuffix
<1>2. CASE ~(s # <<>> /\ Last(s) \in T)
  BY <1>2 DEF TrimSuffix
<1> QED
  BY <1>1, <1>2

\* Endings have no capitals, and what has been lowered has none.
LEMMA Lowered ==
  ASSUME NEW t
  PROVE  ToLower(ToLower(t)) = ToLower(t) /\ (t \in Endings => ToLower(t) = t) /\ ToLower(GitHub) = GitHub
BY LowerAssumption DEF ToLower

\* A path is lowered token by token.
LEMMA LowerOf ==
  ASSUME NEW S, NEW s \in Seq(S)
  PROVE  /\ LowerPath(s) \in Seq({ToLower(t) : t \in S}) /\ Len(LowerPath(s)) = Len(s)
         /\ \A i \in 1..Len(s) : LowerPath(s)[i] = ToLower(s[i])
         /\ LowerPath(s) = <<>> <=> s = <<>>
         /\ LowerPath(LowerPath(s)) = LowerPath(s)
<1> DEFINE L == {ToLower(t) : t \in S}
<1>1. DOMAIN s = 1..Len(s) /\ Len(s) \in Nat /\ \A i \in 1..Len(s) : s[i] \in S
  OBVIOUS
<1>2. LowerPath(s) = [i \in 1..Len(s) |-> ToLower(s[i])]
  BY <1>1 DEF LowerPath
<1>3. LowerPath(s) \in [1..Len(s) -> L]
  BY <1>1, <1>2
<1>4. LowerPath(s) \in Seq(L) /\ Len(LowerPath(s)) = Len(s)
  BY <1>1, <1>3
<1>5. LowerPath(s) = <<>> <=> s = <<>>
  BY <1>4, EmptySeq
<1>6. LowerPath(LowerPath(s)) = LowerPath(s)
  <2>1. LowerPath(LowerPath(s)) = [i \in 1..Len(s) |-> ToLower(LowerPath(s)[i])]
    BY <1>3 DEF LowerPath
  <2>2. \A i \in 1..Len(s) : ToLower(LowerPath(s)[i]) = LowerPath(s)[i]
    BY <1>2, Lowered
  <2> QED
    BY <1>2, <2>1, <2>2
<1> QED
  BY <1>2, <1>4, <1>5, <1>6

LEMMA LowerLast ==
  ASSUME NEW S, NEW s \in Seq(S), s # <<>>
  PROVE  /\ LowerPath(s) # <<>> /\ Last(LowerPath(s)) = ToLower(Last(s))
         /\ LowerPath(Front(s)) = Front(LowerPath(s))
<1> DEFINE l == LowerPath(s)
           L == {ToLower(t) : t \in S}
           f == LowerPath(Front(s))
           g == Front(l)
<1>1. l \in Seq(L) /\ Len(l) = Len(s) /\ l # <<>> /\ \A i \in 1..Len(s) : l[i] = ToLower(s[i])
  <2>1. LowerPath(s) \in Seq({ToLower(t) : t \in S}) /\ (LowerPath(s) = <<>> <=> s = <<>>)
    BY LowerOf
  <2>2. Len(LowerPath(s)) = Len(s) /\ \A i \in 1..Len(s) : LowerPath(s)[i] = ToLower(s[i])
    BY LowerOf
  <2> QED
    BY <2>1, <2>2, Zenon
<1>2. Len(s) \in Nat \ {0} /\ Last(s) = s[Len(s)] /\ Last(l) = l[Len(s)] /\ Len(s) \in 1..Len(s)
  <2>1. Len(s) \in Nat \ {0} /\ Last(s) = s[Len(s)]
    BY FrontOf
  <2>2. Last(l) = l[Len(l)]
    BY DEF Last
  <2> QED
    BY <1>1, <2>1, <2>2
<1>3. Last(l) = ToLower(Last(s))
  BY <1>1, <1>2
<1>4. /\ Front(s) \in Seq(S) /\ Len(Front(s)) = Len(s) - 1
      /\ \A i \in 1..(Len(s) - 1) : Front(s)[i] = s[i]
  BY FrontOf
<1>5. f \in Seq(L) /\ Len(f) = Len(s) - 1 /\ \A i \in 1..(Len(s) - 1) : f[i] = ToLower(Front(s)[i])
  BY <1>4, LowerOf
<1>6. g \in Seq(L) /\ Len(g) = Len(s) - 1 /\ \A i \in 1..(Len(s) - 1) : g[i] = l[i]
  BY <1>1, FrontOf
<1>7. \A i \in 1..(Len(s) - 1) : i \in 1..Len(s)
  BY <1>2
<1>8. \A i \in 1..Len(f) : f[i] = g[i]
  BY <1>1, <1>4, <1>5, <1>6, <1>7
<1> HIDE DEF f, g, L
<1>9. f = g
  BY <1>5, <1>6, <1>8, SeqEqual
<1> QED
  BY <1>1, <1>3, <1>9 DEF f, g

\* Trimming first and lowering then leaves what trimming alone might leave of the lowered
\* path, although endings in capitals are lowered too late to be trimmed.
LEMMA LowerLeft ==
  ASSUME NEW S, NEW s \in Seq(S)
  PROVE  LowerPath(TrimPath(s)) \in Left(LowerPath(s))
<1> DEFINE l == LowerPath(s)
           a == TrimEndpoint(s)
<1>1. TrimPath(s) = TrimGit(a) /\ a \in Seq(S)
  BY Trims, TrimOf DEF TrimEndpoint
<1>2. LowerPath(a) = TrimEndpoint(l) \/ (a = s /\ (s # <<>> => Last(s) \notin Endpoints))
  <2>1. CASE s # <<>> /\ Last(s) \in Endpoints
    <3>1. a = Front(s) /\ l # <<>> /\ Last(l) = Last(s) /\ LowerPath(Front(s)) = Front(l)
      BY <2>1, Trimmed, LowerLast, Lowered, Kinds
    <3>2. TrimEndpoint(l) = Front(l)
      BY <2>1, <3>1, Trimmed
    <3> QED
      BY <3>1, <3>2
  <2>2. CASE ~(s # <<>> /\ Last(s) \in Endpoints)
    BY <2>2, Trimmed
  <2> QED
    BY <2>1, <2>2
<1>3. CASE a # <<>> /\ Last(a) = ".git"
  <2>1. /\ TrimGit(a) = Front(a) /\ LowerPath(a) # <<>> /\ Last(LowerPath(a)) = ".git"
        /\ LowerPath(Front(a)) = Front(LowerPath(a))
    BY <1>1, <1>3, Trimmed, LowerLast, Lowered, Kinds
  <2>2. LowerPath(TrimPath(s)) = TrimGit(LowerPath(a))
    BY <1>1, <2>1, Trimmed
  <2>3. LowerPath(a) = TrimEndpoint(l)
    <3>1. CASE a = s
      BY <2>1, <3>1, Trimmed, Kinds
    <3> QED
      BY <1>2, <3>1
  <2> QED
    BY <2>2, <2>3 DEF Left
<1>4. CASE ~(a # <<>> /\ Last(a) = ".git")
  <2>1. LowerPath(TrimPath(s)) = LowerPath(a)
    BY <1>1, <1>4, Trimmed
  <2> QED
    BY <1>2, <2>1 DEF Left
<1> QED
  BY <1>3, <1>4

\* No slash behind a ".git".
NoSlashAfterGit(s) == \A i \in 1..Len(s) : s[i] = "/" /\ i > 1 => s[i - 1] # ".git"

\* Then only the name is left.
LEMMA OnlyTheName ==
  ASSUME NEW S, NEW s \in Seq(S), Proper(NameOf(s)), NoSlashAfterGit(s)
  PROVE  TrimSlash(TrimPath(s)) = NameOf(s)
<1> DEFINE a == TrimEndpoint(s)
           n == NameOf(s)
<1>1. /\ a # <<>> /\ TrimEndpoint(a) = a
      /\ \/ Last(a) = "/" /\ TrimGit(a) = a /\ TrimSlash(a) = Front(a) /\ n = TrimGit(Front(a))
         \/ Last(a) # "/" /\ TrimSlash(a) = a /\ TrimGit(a) = n
  BY WithoutEndpoint
<1>2. TrimPath(s) = TrimGit(a) /\ TrimSlash(n) = n /\ n # <<>>
  BY Trims, ProperStays DEF Proper
<1>3. a \in Seq(S) /\ NoSlashAfterGit(a)
  <2>1. s # <<>>
    BY <1>1, Trimmed
  <2>2. CASE Last(s) \in Endpoints
    <3>1. a = Front(s)
      BY <2>1, <2>2, Trimmed
    <3>2. /\ Front(s) \in Seq(S) /\ Len(Front(s)) = Len(s) - 1 /\ Len(s) \in Nat \ {0}
          /\ \A i \in 1..(Len(s) - 1) : Front(s)[i] = s[i]
      BY <2>1, FrontOf
    <3> DEFINE f == Front(s)
    <3> HIDE DEF f
    <3>3. ASSUME NEW i \in 1..Len(f), f[i] = "/", i > 1 PROVE f[i - 1] # ".git"
      <4>1. i \in 1..(Len(s) - 1) /\ i - 1 \in 1..(Len(s) - 1) /\ i \in 1..Len(s)
        BY <3>2, <3>3 DEF f
      <4>2. f[i] = s[i] /\ f[i - 1] = s[i - 1]
        BY <3>2, <4>1 DEF f
      <4> QED
        BY <3>3, <4>1, <4>2 DEF NoSlashAfterGit
    <3>4. NoSlashAfterGit(f)
      BY <3>3 DEF NoSlashAfterGit
    <3> QED
      BY <3>1, <3>2, <3>4 DEF f
  <2>3. CASE Last(s) \notin Endpoints
    BY <2>1, <2>3, Trimmed
  <2> QED
    BY <2>2, <2>3
<1> HIDE DEF a, n
<1>4. CASE Last(a) = "/"
  <2>1. n = TrimGit(Front(a)) /\ TrimSlash(TrimPath(s)) = Front(a)
    BY <1>1, <1>2, <1>4
  <2>2. Front(a) # <<>>
    BY <1>2, <2>1, Trimmed
  <2>3. /\ Last(Front(a)) = a[Len(a) - 1] /\ Len(a) > 1 /\ Last(a) = a[Len(a)] /\ Len(a) \in Nat \ {0}
    BY <1>1, <1>3, <2>2, FrontOf
  <2>4. Len(a) \in 1..Len(a)
    BY <2>3
  <2>5. Last(Front(a)) # ".git"
    BY <1>3, <1>4, <2>3, <2>4 DEF NoSlashAfterGit
  <2> QED
    BY <2>1, <2>2, <2>5, Trimmed DEF n
<1>5. CASE Last(a) # "/"
  BY <1>1, <1>2, <1>5 DEF n
<1> QED
  BY <1>4, <1>5

\* In a path that is written in the usual ways no ending is in capitals: lowering and
\* trimming may change places.
LEMMA UsualLowers ==
  ASSUME NEW S, NEW u, u.path \in Seq(S), Usual(u)
  PROVE  /\ NoSlashAfterGit(u.path) /\ NoSlashAfterGit(LowerPath(u.path))
         /\ LowerPath(TrimPath(u.path)) = TrimPath(LowerPath(u.path))
<1> DEFINE s == u.path
           l == LowerPath(s)
<1>1. DOMAIN s = 1..Len(s) /\ Len(s) \in Nat
  OBVIOUS
<1>2. \A i \in 1..Len(s) : /\ ToLower(s[i]) \in Endings => s[i] \in Endings
                           /\ s[i] = "/" /\ i > 1 => s[i - 1] # ".git"
  BY <1>1 DEF Usual
<1>3. Len(l) = Len(s) /\ \A i \in 1..Len(s) : l[i] = ToLower(s[i])
  BY LowerOf
<1>4. \A i \in 1..Len(s) : l[i] \in Endings => l[i] = s[i]
  BY <1>2, <1>3, Lowered
<1>s. s \in Seq(S)
  OBVIOUS
<1> HIDE DEF s
<1>5. NoSlashAfterGit(s)
  BY <1>2 DEF NoSlashAfterGit
<1>6. NoSlashAfterGit(l)
  <2> SUFFICES ASSUME NEW i \in 1..Len(s), l[i] = "/", i > 1 PROVE l[i - 1] # ".git"
    BY <1>3 DEF NoSlashAfterGit
  <2>1. s[i] = "/"
    BY <1>4, Kinds
  <2>2. i - 1 \in 1..Len(s)
    BY <1>1
  <2>3. s[i - 1] # ".git"
    BY <1>2, <2>1
  <2> QED
    BY <1>4, <2>2, <2>3, Kinds
<1> DEFINE a == TrimEndpoint(s)
<1>7. s # <<>> => (Last(s) \in Endpoints <=> Last(l) \in Endpoints)
  <2>1. ASSUME s # <<>> PROVE Last(l) = ToLower(Last(s)) /\ (Last(l) \in Endings => Last(l) = Last(s))
    <3>1. Last(l) = ToLower(Last(s)) /\ Last(s) = s[Len(s)] /\ Len(s) \in 1..Len(s)
      BY <1>s, <2>1, LowerLast, FrontOf
    <3> QED
      BY <1>3, <1>4, <3>1
  <2> QED
    BY <2>1, Lowered, Kinds
<1>8. LowerPath(a) = TrimEndpoint(l)
  <2>1. CASE s = <<>>
    BY <1>s, <2>1, Trimmed, LowerOf
  <2>2. CASE s # <<>>
    <3>1. l # <<>> /\ LowerPath(Front(s)) = Front(l)
      BY <1>s, <2>2, LowerLast
    <3> QED
      BY <1>7, <2>2, <3>1, Trimmed
  <2> QED
    BY <2>1, <2>2
<1>9. a \in Seq(S) /\ (a # <<>> => \E i \in 1..Len(s) : Last(a) = s[i])
  <2>1. CASE s # <<>> /\ Last(s) \in Endpoints
    <3>1. a = Front(s)
      BY <2>1, Trimmed
    <3>2. /\ Front(s) \in Seq(S) /\ Len(s) \in Nat \ {0}
          /\ Front(s) # <<>> => Last(Front(s)) = s[Len(s) - 1] /\ Len(s) > 1
      BY <1>s, <2>1, FrontOf
    <3>3. Front(s) # <<>> => Len(s) - 1 \in 1..Len(s)
      BY <3>2
    <3> QED
      BY <3>1, <3>2, <3>3
  <2>2. CASE ~(s # <<>> /\ Last(s) \in Endpoints)
    <3>1. a = s
      BY <2>2, Trimmed
    <3>2. ASSUME s # <<>> PROVE Last(s) = s[Len(s)] /\ Len(s) \in 1..Len(s)
      <4>1. Last(s) = s[Len(s)] /\ Len(s) \in Nat \ {0}
        BY <1>s, <3>2, FrontOf
      <4> QED
        BY <4>1
    <3> QED
      BY <1>s, <3>1, <3>2
  <2> QED
    BY <2>1, <2>2
<1> HIDE DEF a
<1>10. a # <<>> => (Last(a) = ".git" <=> Last(LowerPath(a)) = ".git")
  <2>1. ASSUME a # <<>> PROVE Last(a) = ".git" <=> Last(LowerPath(a)) = ".git"
    <3>1. PICK i \in 1..Len(s) : Last(a) = s[i]
      BY <1>9, <2>1
    <3>2. Last(LowerPath(a)) = l[i]
      BY <1>3, <1>9, <2>1, <3>1, LowerLast
    <3> QED
      BY <1>3, <1>4, <3>1, <3>2, Lowered, Kinds
  <2> QED
    BY <2>1
<1>11. LowerPath(TrimGit(a)) = TrimGit(LowerPath(a))
  <2>1. CASE a = <<>>
    BY <1>9, <2>1, Trimmed, LowerOf
  <2>2. CASE a # <<>>
    <3>1. LowerPath(a) # <<>> /\ LowerPath(Front(a)) = Front(LowerPath(a))
      BY <1>9, <2>2, LowerLast
    <3> QED
      BY <1>10, <2>2, <3>1, Trimmed
  <2> QED
    BY <2>1, <2>2
<1>12. LowerPath(TrimPath(s)) = TrimPath(l)
  BY <1>8, <1>11, Trims DEF a
<1> QED
  BY <1>5, <1>6, <1>12 DEF s

(***************************************************************************)
(* The two canonicalizers and the directory.                               *)
(***************************************************************************)
Place(config, u) == Join(Canonical(config, u))

\* What is fetched, and what the directory is named after, is the repository that is meant.
KeepsMeaning(config, u) ==
  /\ RepositoryOf(config, Canonical(config, u)) = RepositoryOf(config, u)
  /\ RepositoryOf(config, Place(config, u)) = RepositoryOf(config, u)

\* The directory is named after host and name alone.
Plain(config, u) ==
  Place(config, u) = [host |-> RepositoryOf(config, u)[1], path |-> RepositoryOf(config, u)[2]]

\* A path, and what follows the code's steps for it on GitHub or elsewhere.
LEMMA GitHubURL ==
  ASSUME NEW S, NEW u, u.path \in Seq(S)
  PROVE  LET h == ToLower(u.host)
             small(s) == IF h = GitHub THEN LowerPath(s) ELSE s
         IN  /\ Canonical("github", u) = [host |-> h, path |-> small(TrimPath(u.path))]
             /\ Place("github", u) = [host |-> h, path |-> TrimSlash(small(TrimPath(u.path)))]
             /\ RepositoryOf("github", u) = <<h, NameOf(small(u.path))>>
<1>1. Canonical("github", u) = URLCanonicalizer(u)
  BY DEF Canonical
<1>2. URLCanonicalizer(u) =
        [host |-> ToLower(u.host),
         path |-> IF ToLower(u.host) = GitHub THEN LowerPath(TrimPath(u.path)) ELSE TrimPath(u.path)]
  BY DEF URLCanonicalizer, DefaultURLCanonicalizer
<1>3. RepositoryOf("github", u) =
        <<ToLower(u.host), NameOf(IF ToLower(u.host) = GitHub THEN LowerPath(u.path) ELSE u.path)>>
  BY DEF RepositoryOf, GitHubRepository
<1> QED
  BY <1>1, <1>2, <1>3 DEF Place, Join, TrimSlash

LEMMA GitHubKeeps ==
  ASSUME NEW S, NEW u, u.path \in Seq(S), Names("github", u)
  PROVE  KeepsMeaning("github", u) /\ (Usual(u) => Plain("github", u))
<1> DEFINE h == ToLower(u.host)
           small(s) == IF h = GitHub THEN LowerPath(s) ELSE s
           s == small(u.path)
           c == small(TrimPath(u.path))
           lows == {ToLower(t) : t \in S}
<1>1. /\ Canonical("github", u) = [host |-> h, path |-> c]
      /\ Place("github", u) = [host |-> h, path |-> TrimSlash(c)]
      /\ RepositoryOf("github", u) = <<h, NameOf(s)>>
  BY GitHubURL
<1>2. Proper(NameOf(s))
  BY <1>1 DEF Names, Proper
<1>3. TrimPath(u.path) \in Seq(S)
  BY TrimOf DEF TrimPath
<1>4. c \in Left(s)
  <2>1. CASE h = GitHub
    BY <2>1, LowerLeft
  <2>2. CASE h # GitHub
    BY <2>2, Trims DEF Left
  <2> QED
    BY <2>1, <2>2
<1>5. NameOf(c) = NameOf(s) /\ NameOf(TrimSlash(c)) = NameOf(s)
  BY <1>2, <1>4, NameStays
<1>6. h = GitHub => LowerPath(c) = c /\ LowerPath(TrimSlash(c)) = TrimSlash(c)
  <2> SUFFICES ASSUME h = GitHub PROVE LowerPath(c) = c /\ LowerPath(TrimSlash(c)) = TrimSlash(c)
    OBVIOUS
  <2>1. c = LowerPath(TrimPath(u.path))
    OBVIOUS
  <2>2. c \in Seq(lows) /\ LowerPath(c) = c
    BY <1>3, <2>1, LowerOf
  <2> HIDE DEF c, lows
  <2>3. CASE c = <<>> \/ Last(c) # "/"
    BY <2>2, <2>3, Trimmed
  <2>4. CASE c # <<>> /\ Last(c) = "/"
    BY <2>2, <2>4, LowerLast, Trimmed
  <2> QED
    BY <2>3, <2>4
<1>7. ToLower(h) = h
  BY Lowered
<1> HIDE DEF c, s
<1>8. ASSUME NEW d, d.host = h, d.path \in {c, TrimSlash(c)}
      PROVE  RepositoryOf("github", d) = <<h, NameOf(s)>>
  <2>1. RepositoryOf("github", d) = <<h, NameOf(IF h = GitHub THEN LowerPath(d.path) ELSE d.path)>>
    BY <1>7, <1>8 DEF RepositoryOf, GitHubRepository
  <2>2. (IF h = GitHub THEN LowerPath(d.path) ELSE d.path) = d.path
    BY <1>6, <1>8
  <2> QED
    BY <1>5, <1>8, <2>1, <2>2
<1>9. KeepsMeaning("github", u)
  <2>1. RepositoryOf("github", Canonical("github", u)) = <<h, NameOf(s)>>
    BY <1>1, <1>8
  <2>2. RepositoryOf("github", Place("github", u)) = <<h, NameOf(s)>>
    BY <1>1, <1>8
  <2> QED
    BY <1>1, <2>1, <2>2 DEF KeepsMeaning
<1>10. ASSUME Usual(u) PROVE Plain("github", u)
  <2>1. TrimSlash(c) = NameOf(s)
    <3>1. CASE h = GitHub
      <4>1. s = LowerPath(u.path) /\ c = LowerPath(TrimPath(u.path))
        BY <3>1 DEF s, c
      <4>2. NoSlashAfterGit(s) /\ c = TrimPath(s)
        BY <1>10, <4>1, UsualLowers
      <4>3. s \in Seq(lows)
        BY <4>1, LowerOf
      <4> QED
        BY <1>2, <4>2, <4>3, OnlyTheName
    <3>2. CASE h # GitHub
      <4>1. s = u.path /\ c = TrimPath(s)
        BY <3>2 DEF s, c
      <4> QED
        BY <1>2, <1>10, <4>1, UsualLowers, OnlyTheName
    <3> QED
      BY <3>1, <3>2
  <2>2. <<h, NameOf(s)>>[1] = h /\ <<h, NameOf(s)>>[2] = NameOf(s)
    OBVIOUS
  <2> QED
    BY <1>1, <2>1, <2>2 DEF Plain
<1> QED
  BY <1>9, <1>10

\* The hosts of google.CanonicalizeURL; it refuses every other.
LEMMA GoogleURL ==
  ASSUME NEW u, Canonical("google", u) # Refused
  PROVE  LET rest(s) == IF u.host \in GoogleSource THEN TrimPrefix(s) ELSE s
         IN  /\ Canonical("google", u) = [host |-> u.host, path |-> TrimPath(rest(u.path))]
             /\ Place("google", u) = [host |-> u.host, path |-> TrimSlash(TrimPath(rest(u.path)))]
             /\ RepositoryOf("google", u) = <<u.host, NameOf(rest(u.path))>>
<1>1. CloudSource \notin GoogleSource /\ "google" # "github"
  BY DEF CloudSource, GoogleSource
<1>2. Canonical("google", u) = CanonicalizeURL(u)
  BY <1>1 DEF Canonical
<1>3. u.host \in GoogleSource \/ u.host = CloudSource
  <2>1. ASSUME u.host \notin GoogleSource, u.host # CloudSource PROVE CanonicalizeURL(u) = Refused
    BY <2>1, Zenon DEF CanonicalizeURL
  <2> QED
    BY <1>2, <2>1
<1>4. Canonical("google", u) =
        [host |-> u.host, path |-> TrimPath(IF u.host \in GoogleSource THEN TrimPrefix(u.path) ELSE u.path)]
  <2>1. CASE u.host \in GoogleSource
    <3>1. u.host # CloudSource
      BY <1>1, <2>1
    <3> QED
      BY <1>2, <2>1, <3>1, Zenon DEF CanonicalizeURL
  <2>2. CASE u.host = CloudSource
    <3>1. u.host \notin GoogleSource
      BY <1>1, <2>2
    <3> QED
      BY <1>2, <2>2, <3>1, Zenon DEF CanonicalizeURL
  <2> QED
    BY <1>3, <2>1, <2>2
<1>5. RepositoryOf("google", u) =
        <<u.host, NameOf(IF u.host \in GoogleSource THEN TrimPrefix(u.path) ELSE u.path)>>
  BY <1>1 DEF RepositoryOf, GoogleRepository
<1> QED
  BY <1>4, <1>5 DEF Place, Join, TrimSlash

\* The path without "/a" is a path.
LEMMA TrimPrefixOf ==
  ASSUME NEW S, NEW s \in Seq(S)
  PROVE  TrimPrefix(s) \in Seq(S) /\ (NoSlashAfterGit(s) => NoSlashAfterGit(TrimPrefix(s)))
<1>1. CASE Authenticated(s)
  <2> DEFINE t == Tail(s)
  <2>1. s # <<>> /\ Len(s) > 1 /\ Len(s) \in Nat
    BY <1>1, EmptySeq DEF Authenticated
  <2>2. t \in Seq(S) /\ Len(t) = Len(s) - 1 /\ \A i \in 1..Len(t) : t[i] = s[i + 1]
    BY <2>1, HeadTailProperties
  <2>3. TrimPrefix(s) = t
    BY <1>1 DEF TrimPrefix
  <2> HIDE DEF t
  <2>4. ASSUME NoSlashAfterGit(s), NEW i \in 1..Len(t), t[i] = "/", i > 1 PROVE t[i - 1] # ".git"
    <3>1. i - 1 \in 1..Len(t) /\ i + 1 \in 1..Len(s) /\ i + 1 > 1 /\ (i - 1) + 1 = i /\ (i + 1) - 1 = i
      BY <2>1, <2>2, <2>4
    <3>2. t[i] = s[i + 1] /\ t[i - 1] = s[i]
      BY <2>2, <3>1
    <3>3. s[(i + 1) - 1] # ".git"
      BY <2>4, <3>1, <3>2 DEF NoSlashAfterGit
    <3> QED
      BY <3>1, <3>2, <3>3
  <2> QED
    BY <2>2, <2>3, <2>4 DEF NoSlashAfterGit
<1>2. CASE ~Authenticated(s)
  BY <1>2 DEF TrimPrefix
<1> QED
  BY <1>1, <1>2

\* A path whose name does not begin with "/a" does not begin with it either.
LEMMA FirstToken ==
  ASSUME NEW S, NEW s \in Seq(S), NameOf(s) # <<>>
  PROVE  s # <<>> /\ NameOf(s)[1] = s[1]
<1> DEFINE a == TrimEndpoint(s)
           b == TrimSlash(a)
<1>1. NameOf(s) = TrimGit(b)
  BY Trims
<1>2. a \in Seq(S) /\ (a # <<>> => s # <<>> /\ a[1] = s[1])
  BY TrimOf DEF TrimEndpoint
<1>3. b \in Seq(S) /\ (b # <<>> => a # <<>> /\ b[1] = a[1])
  BY <1>2, TrimOf DEF TrimSlash
<1>4. TrimGit(b) # <<>> => b # <<>> /\ TrimGit(b)[1] = b[1]
  BY <1>3, TrimOf DEF TrimGit
<1> QED
  BY <1>1, <1>2, <1>3, <1>4

LEMMA GoogleKeeps ==
  ASSUME NEW S, NEW u, u.path \in Seq(S), Names("google", u), Canonical("google", u) # Refused
  PROVE  KeepsMeaning("google", u) /\ (Usual(u) => Plain("google", u))
<1> DEFINE h == u.host
           s == IF h \in GoogleSource THEN TrimPrefix(u.path) ELSE u.path
           c == TrimPath(s)
<1>1. /\ Canonical("google", u) = [host |-> h, path |-> c]
      /\ Place("google", u) = [host |-> h, path |-> TrimSlash(c)]
      /\ RepositoryOf("google", u) = <<h, NameOf(s)>>
  BY GoogleURL
<1>2. Proper(NameOf(s)) /\ (h \in GoogleSource => NameOf(s)[1] # "/a")
  BY <1>1 DEF Names, Proper
<1>3. s \in Seq(S) /\ (Usual(u) => NoSlashAfterGit(s))
  BY UsualLowers, TrimPrefixOf
<1>4. c \in Left(s)
  BY Trims DEF Left
<1> HIDE DEF s
<1>5. c \in Seq(S) /\ TrimSlash(c) \in Seq(S)
  BY <1>3, TrimOf DEF TrimPath, TrimSlash
<1> HIDE DEF c
<1>6. NameOf(c) = NameOf(s) /\ NameOf(TrimSlash(c)) = NameOf(s)
  BY <1>2, <1>4, NameStays
<1>7. ASSUME NEW p \in Seq(S), NameOf(p) = NameOf(s), h \in GoogleSource PROVE TrimPrefix(p) = p
  <2>1. p[1] # "/a"
    BY <1>2, <1>7, FirstToken DEF Proper
  <2> QED
    BY <2>1 DEF TrimPrefix, Authenticated
<1>8. ASSUME NEW d, d.host = h, d.path \in {c, TrimSlash(c)}
      PROVE  RepositoryOf("google", d) = <<h, NameOf(s)>>
  <2>1. "google" # "github"
    OBVIOUS
  <2>2. RepositoryOf("google", d) = <<h, NameOf(IF h \in GoogleSource THEN TrimPrefix(d.path) ELSE d.path)>>
    BY <1>8, <2>1 DEF RepositoryOf, GoogleRepository
  <2>3. d.path \in Seq(S) /\ NameOf(d.path) = NameOf(s)
    BY <1>5, <1>6, <1>8
  <2>4. (IF h \in GoogleSource THEN TrimPrefix(d.path) ELSE d.path) = d.path
    BY <1>7, <2>3
  <2> QED
    BY <2>2, <2>3, <2>4
<1>9. KeepsMeaning("google", u)
  <2>1. RepositoryOf("google", Canonical("google", u)) = <<h, NameOf(s)>>
    BY <1>1, <1>8
  <2>2. RepositoryOf("google", Place("google", u)) = <<h, NameOf(s)>>
    BY <1>1, <1>8
  <2> QED
    BY <1>1, <2>1, <2>2 DEF KeepsMeaning
<1>10. ASSUME Usual(u) PROVE Plain("google", u)
  <2>1. TrimSlash(c) = NameOf(s)
    BY <1>2, <1>3, <1>10, OnlyTheName DEF c
  <2>2. <<h, NameOf(s)>>[1] = h /\ <<h, NameOf(s)>>[2] = NameOf(s)
    OBVIOUS
  <2> QED
    BY <1>1, <2>1, <2>2 DEF Plain
<1> QED
  BY <1>9, <1>10

(***************************************************************************)
(* The results.                                                            *)
(***************************************************************************)
\* URLs of repositories that the canonicalizer takes.
Taken(config, U) ==
  \A u \in U : Canonical(config, u) # Refused /\ Names(config, u) /\ \E S : u.path \in Seq(S)

\* One directory, one repository: what is fetched by the canonical URL is what was meant,
\* and URLs of two repositories never share a directory, however they are written.
KeptApart(config, U) ==
  /\ \A u \in U : RepositoryOf(config, Canonical(config, u)) = RepositoryOf(config, u)
  /\ \A u, v \in U : Place(config, u) = Place(config, v) => RepositoryOf(config, u) = RepositoryOf(config, v)

\* One repository, one directory: of the URLs that are written in the usual ways.
KeptTogether(config, U) ==
  \A u, v \in U : /\ Usual(u) /\ Usual(v) /\ RepositoryOf(config, u) = RepositoryOf(config, v)
                  => Place(config, u) = Place(config, v)

\* On GitHub, where "/App.GIT" is kept as "/app.git" and an "/app.git/" stays as it is,
\* two repositories are never confused, and a repository whose URL is written in the usual
\* ways, in capitals or not, is cached once.
THEOREM GitHubCachesOnce ==
  ASSUME NEW U, Taken("github", U)
  PROVE  KeptApart("github", U) /\ KeptTogether("github", U)
<1>1. ASSUME NEW u \in U PROVE KeepsMeaning("github", u) /\ (Usual(u) => Plain("github", u))
  BY GitHubKeeps DEF Taken
<1> QED
  BY <1>1 DEF KeptApart, KeptTogether, KeepsMeaning, Plain

\* The same on the two Google services, with "/a" in front or without.
THEOREM GoogleCachesOnce ==
  ASSUME NEW U, Taken("google", U)
  PROVE  KeptApart("google", U) /\ KeptTogether("google", U)
<1>1. ASSUME NEW u \in U PROVE KeepsMeaning("google", u) /\ (Usual(u) => Plain("google", u))
  BY GoogleKeeps DEF Taken
<1> QED
  BY <1>1 DEF KeptApart, KeptTogether, KeepsMeaning, Plain
=============================================================================
