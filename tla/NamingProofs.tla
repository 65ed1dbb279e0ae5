---------------------------- MODULE NamingProofs ----------------------------
(***************************************************************************)
(* Theorems about Naming, for names of every length and for every limit.   *)
(***************************************************************************)
EXTENDS Naming, Extrema, SequenceTheorems

\* Neither capitals nor letters outside ASCII.
Plain(s) == \A i \in DOMAIN s : s[i].kind \notin {"upper", "letter"}

LabelKinds == {"lower", "digit", "dash"}

\* Where DNSSubdomain cuts a name, and two cuts with no other between them.
Cuts(s) == {0, Len(s) + 1} \cup {i \in DOMAIN s : s[i].kind = "dot"}

Neighbours(s, i, j) ==
  /\ i \in Cuts(s) /\ j \in Cuts(s) /\ i < j
  /\ \A k \in Cuts(s) : k <= i \/ k >= j

-----------------------------------------------------------------------------
(***************************************************************************)
(* Characters and lengths.                                                 *)
(***************************************************************************)

\* Of a character of ASCII that is no capital, byte and character are one.
LEMMA PlainCharacter ==
  ASSUME NEW c \in Characters, c.kind \notin {"upper", "letter"}
  PROVE  /\ c.bytes = 1
         /\ c.kind \in LabelKinds \cup {"dot", "other"}
         /\ c.alnum <=> c.kind \in {"lower", "digit"}
         /\ c.head <=> c.kind \in {"lower", "digit"}
         /\ c.tail <=> c.kind \in {"lower", "digit"}
BY DEF Characters, Character, LabelKinds

\* The bytes of a character are counted by a number.
LEMMA CharacterBytes ==
  ASSUME NEW c \in Characters
  PROVE  c.bytes \in Nat
BY DEF Characters, Character

\* What the characters of a plain name are to the code.
LEMMA PlainPositions ==
  ASSUME NEW s \in Seq(Characters), Plain(s)
  PROVE  /\ Len(s) \in Nat /\ DOMAIN s = 1..Len(s)
         /\ \A i \in 1..Len(s) :
              /\ s[i].kind \in LabelKinds \cup {"dot", "other"}
              /\ s[i].alnum <=> s[i].kind \in {"lower", "digit"}
              /\ s[i].head <=> s[i].kind \in {"lower", "digit"}
              /\ s[i].tail <=> s[i].kind \in {"lower", "digit"}
<1>1. Len(s) \in Nat /\ DOMAIN s = 1..Len(s)
  BY LenProperties
<1>2. \A i \in 1..Len(s) : s[i] \in Characters
                           /\ s[i].kind \notin {"upper", "letter"}
  BY <1>1, ElementOfSeq DEF Plain
<1> QED
  BY <1>1, <1>2, PlainCharacter

\* The bytes of a plain name are its characters.
LengthInv ==
  /\ name \in Seq(Characters)
  /\ length \in Nat
  /\ Plain(name) => length = Len(name)

\* Each character typed adds its bytes.
LEMMA LengthStep ==
  ASSUME LengthInv, [Next]_vars
  PROVE  LengthInv'
<1>1. CASE UNCHANGED vars
  BY <1>1 DEF LengthInv, vars, Plain
<1>2. CASE Next
  <2>1. PICK c \in Characters : Type(c)
    BY <1>2 DEF Next
  <2>2. c.bytes \in Nat
    BY CharacterBytes
  <2>3. /\ name' \in Seq(Characters) /\ Len(name') = Len(name) + 1
        /\ \A i \in 1..Len(name) : name'[i] = name[i]
        /\ name'[Len(name) + 1] = c
    BY <2>1, AppendProperties DEF LengthInv, Type
  <2>4. ASSUME Plain(name')
        PROVE  length' = Len(name')
    <3>1. DOMAIN name = 1..Len(name) /\ DOMAIN name' = 1..Len(name) + 1
          /\ Len(name) \in Nat
      BY <2>3, LenProperties DEF LengthInv
    <3>2. Plain(name)
      BY <2>3, <2>4, <3>1 DEF Plain
    <3>3. c.kind \notin {"upper", "letter"}
      BY <2>3, <2>4, <3>1 DEF Plain
    <3>4. c.bytes = 1
      BY <3>3, PlainCharacter
    <3> QED
      BY <2>1, <2>3, <3>2, <3>4 DEF LengthInv, Type
  <2> QED
    BY <2>1, <2>2, <2>3, <2>4 DEF LengthInv, Type
<1> QED
  BY <1>1, <1>2

\* length is what Go's len returns.
LEMMA LengthInvariant == Spec => []LengthInv
<1>1. Init => LengthInv
  BY EmptySeq DEF Init, LengthInv, Plain
<1> QED
  BY <1>1, LengthStep, PTL DEF Spec

-----------------------------------------------------------------------------
(***************************************************************************)
(* Labels.                                                                 *)
(***************************************************************************)

\* The check of labels, of a plain name and any limit.
LEMMA LabelCheck ==
  ASSUME NEW s \in Seq(Characters), Plain(s), NEW m \in Nat
  PROVE  validateDNSLabel(s, Len(s), m) <=> DNSLabel(s) /\ Len(s) <= m
<1>1. Len(s) \in Nat /\ DOMAIN s = 1..Len(s) /\ (s = <<>> <=> Len(s) = 0)
  BY LenProperties, EmptySeq
<1>2. CASE Len(s) = 0
  BY <1>1, <1>2 DEF validateDNSLabel, DNSLabel
<1>3. CASE Len(s) # 0
  <2>1. Last(s) = s[Len(s)] /\ 1 \in 1..Len(s) /\ Len(s) \in 1..Len(s)
    BY <1>1, <1>3 DEF Last
  <2>2. (s[1].head /\ s[Len(s)].tail
         /\ \A i \in 1..Len(s) : s[i].alnum \/ s[i].kind = "dash")
        <=> (s[1].kind # "dash" /\ s[Len(s)].kind # "dash"
             /\ \A i \in 1..Len(s) : s[i].kind \in LabelKinds)
    BY <2>1, PlainPositions DEF LabelKinds
  <2>3. Len(s) \in 1..m <=> Len(s) <= m
    BY <1>1, <1>3
  <2> QED
    BY <1>1, <1>3, <2>1, <2>2, <2>3 DEF validateDNSLabel, DNSLabel, LabelKinds
<1> QED
  BY <1>2, <1>3

\* validateDNSLabel takes exactly the DNS labels of at most MaxLabel bytes
\* among the names without capitals and foreign letters.
THEOREM LabelsAreChecked == Spec => []LabelsChecked
<1>1. ASSUME LengthInv
      PROVE  LabelsChecked
  <2>1. CASE Plain(name)
    <3>1. length = Len(name) /\ name \in Seq(Characters) /\ MaxLabel \in Nat
      BY <1>1, <2>1, LengthsAssumption DEF LengthInv
    <3> QED
      BY <2>1, <3>1, LabelCheck DEF LabelsChecked
  <2>2. CASE ~Plain(name)
    BY <2>2 DEF LabelsChecked, Plain
  <2> QED
    BY <2>1, <2>2
<1> QED
  BY <1>1, LengthInvariant, PTL

-----------------------------------------------------------------------------
(***************************************************************************)
(* Prefixes.  Every character that is no cut lies between two neighbouring *)
(* cuts, the last before and the first after it.                           *)
(***************************************************************************)

\* Cuts are positions, or just outside the name.
LEMMA CutsFinite ==
  ASSUME NEW s \in Seq(Characters)
  PROVE  Cuts(s) \subseteq 0..(Len(s) + 1) /\ IsFiniteSet(Cuts(s))
<1>1. Len(s) \in Nat /\ DOMAIN s = 1..Len(s)
  BY LenProperties
<1>2. Cuts(s) \subseteq 0..(Len(s) + 1)
  BY <1>1 DEF Cuts
<1>3. IsFiniteSet(0..(Len(s) + 1))
  BY <1>1, FS_Interval
<1> QED
  BY <1>2, <1>3, FS_Subset

\* Cuts on both sides of a character that is none.
LEMMA Between ==
  ASSUME NEW s \in Seq(Characters), NEW p \in 1..Len(s), p \notin Cuts(s)
  PROVE  \E i, j \in Cuts(s) : Neighbours(s, i, j) /\ i < p /\ p < j
<1> DEFINE Before == {k \in Cuts(s) : k < p}
           After == {k \in Cuts(s) : k > p}
<1>1. Len(s) \in Nat /\ Cuts(s) \subseteq 0..(Len(s) + 1)
      /\ IsFiniteSet(Cuts(s)) /\ 0 \in Cuts(s) /\ Len(s) + 1 \in Cuts(s)
  BY LenProperties, CutsFinite DEF Cuts
<1>2. /\ Before \in SUBSET Nat /\ IsFiniteSet(Before) /\ Before # {}
      /\ After \in SUBSET Nat /\ IsFiniteSet(After) /\ After # {}
  <2>1. Before \subseteq Cuts(s) /\ After \subseteq Cuts(s)
    OBVIOUS
  <2>2. 0 \in Before /\ Len(s) + 1 \in After
    BY <1>1
  <2>3. IsFiniteSet(Before) /\ IsFiniteSet(After)
    BY <1>1, <2>1, FS_Subset
  <2> QED
    BY <1>1, <2>1, <2>2, <2>3
<1> HIDE DEF Before, After
<1>3. PICK i \in Before : \A k \in Before : i >= k
  BY <1>2, MaxExists
<1>4. PICK j \in After : \A k \in After : j =< k
  BY <1>2, MinExists
<1>5. i \in Cuts(s) /\ j \in Cuts(s) /\ i \in Nat /\ j \in Nat
      /\ i < p /\ p < j
  BY <1>2, <1>3, <1>4 DEF Before, After
<1>6. ASSUME NEW k \in Cuts(s)
      PROVE  k <= i \/ k >= j
  <2>1. k \in Nat /\ k # p
    BY <1>1
  <2>2. CASE k < p
    BY <1>3, <1>5, <2>1, <2>2 DEF Before
  <2>3. CASE k > p
    BY <1>4, <1>5, <2>1, <2>3 DEF After
  <2> QED
    BY <2>1, <2>2, <2>3
<1>7. Neighbours(s, i, j)
  BY <1>5, <1>6 DEF Neighbours
<1> QED
  BY <1>5, <1>7

\* What DNSLabel says of the part between two cuts.
LEMMA LabelBetween ==
  ASSUME NEW s \in Seq(Characters),
         NEW i \in 0..(Len(s) + 1), NEW j \in 0..(Len(s) + 1), i < j
  PROVE  DNSLabel(SubSeq(s, i + 1, j - 1)) <=>
           /\ i + 1 < j
           /\ s[i + 1].kind # "dash" /\ s[j - 1].kind # "dash"
           /\ \A k \in (i + 1)..(j - 1) : s[k].kind \in LabelKinds
<1> DEFINE t == SubSeq(s, i + 1, j - 1)
           n == j - 1 - i
<1>1. Len(s) \in Nat
  BY LenProperties
<1>2. CASE i + 1 = j
  <2>1. t = <<>>
    BY <1>1, <1>2, SubSeqEmpty
  <2> QED
    BY <1>2, <2>1 DEF DNSLabel
<1>3. CASE i + 1 # j
  <2>1. i + 1 < j /\ n \in Nat /\ n > 0
    BY <1>1, <1>3
  <2>2. t \in Seq(Characters) /\ Len(t) = n
        /\ \A k \in 1..n : t[k] = s[i + k]
    <3>1. i + 1 \in 1..(Len(s) + 1) /\ j - 1 \in 0..Len(s)
          /\ i + 1 <= j - 1
          /\ (j - 1) - (i + 1) + 1 = n
      BY <1>1, <2>1
    <3>2. t \in Seq(Characters) /\ Len(t) = n
          /\ \A k \in 1..n : t[k] = s[i + 1 + k - 1]
      BY <3>1, SubSeqProperties
    <3>3. \A k \in 1..n : i + 1 + k - 1 = i + k
      BY <2>1
    <3> QED
      BY <3>2, <3>3
  <2> HIDE DEF t
  <2>3. DOMAIN t = 1..n /\ t # <<>> /\ Last(t) = t[n]
    BY <2>1, <2>2, LenProperties, EmptySeq DEF Last
  <2>4. t[1] = s[i + 1] /\ t[n] = s[j - 1]
    <3>1. 1 \in 1..n /\ n \in 1..n /\ i + n = j - 1
      BY <2>1
    <3> QED
      BY <2>2, <3>1
  <2>5. (\A k \in 1..n : t[k].kind \in LabelKinds)
        <=> (\A k \in (i + 1)..(j - 1) : s[k].kind \in LabelKinds)
    <3>1. ASSUME \A k \in 1..n : t[k].kind \in LabelKinds,
                 NEW k \in (i + 1)..(j - 1)
          PROVE  s[k].kind \in LabelKinds
      <4>1. k - i \in 1..n /\ i + (k - i) = k
        BY <2>1
      <4>2. t[k - i] = s[i + (k - i)] /\ t[k - i].kind \in LabelKinds
        BY <2>2, <3>1, <4>1
      <4> QED
        BY <4>1, <4>2
    <3>2. ASSUME \A k \in (i + 1)..(j - 1) : s[k].kind \in LabelKinds,
                 NEW k \in 1..n
          PROVE  t[k].kind \in LabelKinds
      <4>1. i + k \in (i + 1)..(j - 1)
        BY <2>1
      <4> QED
        BY <2>2, <3>2, <4>1
    <3> QED
      BY <3>1, <3>2
  <2> QED
    BY <2>1, <2>3, <2>4, <2>5 DEF DNSLabel, LabelKinds, t
<1> QED
  BY <1>2, <1>3

\* DNSSubdomain, from cut to neighbouring cut.
LEMMA SubdomainByCuts ==
  ASSUME NEW s \in Seq(Characters)
  PROVE  DNSSubdomain(s) <=>
           \A i, j \in Cuts(s) : Neighbours(s, i, j) =>
             /\ i + 1 < j
             /\ s[i + 1].kind # "dash" /\ s[j - 1].kind # "dash"
             /\ \A k \in (i + 1)..(j - 1) : s[k].kind \in LabelKinds
<1>1. Cuts(s) \subseteq 0..(Len(s) + 1)
  BY CutsFinite
<1>2. \A i, j \in Cuts(s) : Neighbours(s, i, j) =>
        (DNSLabel(SubSeq(s, i + 1, j - 1)) <=>
           /\ i + 1 < j
           /\ s[i + 1].kind # "dash" /\ s[j - 1].kind # "dash"
           /\ \A k \in (i + 1)..(j - 1) : s[k].kind \in LabelKinds)
  BY <1>1, LabelBetween DEF Neighbours
<1>3. DNSSubdomain(s) <=>
        \A i, j \in Cuts(s) :
          Neighbours(s, i, j) => DNSLabel(SubSeq(s, i + 1, j - 1))
  BY DEF DNSSubdomain, Neighbours, Cuts
<1> QED
  BY <1>2, <1>3

\* What is accepted is a DNS subdomain.
LEMMA AcceptedIsSubdomain ==
  ASSUME NEW s \in Seq(Characters), Plain(s),
         \A i \in 2..Len(s) : {s[i-1].kind, s[i].kind} # {"dash", "dot"},
         isValidLabelNamePrefix(s, Len(s))
  PROVE  DNSSubdomain(s)
<1> DEFINE n == Len(s)
<1>1. n \in Nat /\ n > 0 /\ DOMAIN s = 1..n /\ Last(s) = s[n]
  BY PlainPositions DEF isValidLabelNamePrefix, Last
<1>2. /\ s[1].kind \in {"lower", "digit"} /\ s[n].kind \in {"lower", "digit"}
      /\ \A i \in 1..n : s[i].kind \in LabelKinds \cup {"dot"}
  <2>1. 1 \in 1..n /\ n \in 1..n
    BY <1>1
  <2>2. s[1].head /\ s[n].tail
        /\ \A i \in 1..n : s[i].alnum \/ s[i].kind \in {"dash", "dot"}
    BY <1>1 DEF isValidLabelNamePrefix
  <2> QED
    BY <2>1, <2>2, PlainPositions DEF LabelKinds
<1>3. \A i \in 2..n : ~(s[i].kind = "dot" /\ s[i-1].kind = "dot")
  BY DEF isValidLabelNamePrefix
<1>4. SUFFICES ASSUME NEW i \in Cuts(s), NEW j \in Cuts(s),
                      Neighbours(s, i, j)
               PROVE  /\ i + 1 < j
                      /\ s[i + 1].kind # "dash" /\ s[j - 1].kind # "dash"
                      /\ \A k \in (i + 1)..(j - 1) : s[k].kind \in LabelKinds
  BY SubdomainByCuts
<1>5. /\ i < j /\ i \in 0..n /\ j \in 1..(n + 1)
      /\ i = 0 \/ s[i].kind = "dot"
      /\ j = n + 1 \/ s[j].kind = "dot"
  BY <1>1, <1>4 DEF Neighbours, Cuts
<1>6. i + 1 < j
  <2> SUFFICES ASSUME i + 1 = j
               PROVE  FALSE
    BY <1>1, <1>5
  <2>1. CASE i = 0
    BY <1>1, <1>2, <1>5, <2>1
  <2>2. CASE i # 0 /\ j = n + 1
    BY <1>1, <1>2, <1>5, <2>2
  <2>3. CASE i # 0 /\ j # n + 1
    <3>1. j \in 2..n /\ j - 1 = i
      BY <1>1, <1>5, <2>3
    <3> QED
      BY <1>3, <1>5, <2>3, <3>1
  <2> QED
    BY <2>1, <2>2, <2>3
<1>7. s[i + 1].kind # "dash"
  <2>1. CASE i = 0
    BY <1>2, <2>1
  <2>2. CASE i # 0
    <3>1. i + 1 \in 2..n /\ (i + 1) - 1 = i /\ s[i].kind = "dot"
      BY <1>1, <1>5, <1>6, <2>2
    <3>2. {s[(i + 1) - 1].kind, s[i + 1].kind} # {"dash", "dot"}
      BY <3>1
    <3> QED
      BY <3>1, <3>2
  <2> QED
    BY <2>1, <2>2
<1>8. s[j - 1].kind # "dash"
  <2>1. CASE j = n + 1
    <3>1. j - 1 = n
      BY <1>1, <2>1
    <3> QED
      BY <1>2, <3>1
  <2>2. CASE j # n + 1
    <3>1. j \in 2..n /\ s[j].kind = "dot"
      BY <1>1, <1>5, <1>6, <2>2
    <3>2. {s[j - 1].kind, s[j].kind} # {"dash", "dot"}
      BY <3>1
    <3> QED
      BY <3>1, <3>2
  <2> QED
    BY <2>1, <2>2
<1>9. ASSUME NEW k \in (i + 1)..(j - 1)
      PROVE  s[k].kind \in LabelKinds
  <2>1. k \in 1..n /\ k \in Int /\ ~(k <= i) /\ ~(k >= j)
    BY <1>1, <1>5
  <2>2. k \notin Cuts(s)
    BY <1>4, <2>1 DEF Neighbours
  <2>3. s[k].kind # "dot"
    BY <1>1, <2>1, <2>2 DEF Cuts
  <2> QED
    BY <1>2, <2>1, <2>3
<1> QED
  BY <1>6, <1>7, <1>8, <1>9

\* Every DNS subdomain within the limit is accepted.
LEMMA SubdomainIsAccepted ==
  ASSUME NEW s \in Seq(Characters), Plain(s), DNSSubdomain(s),
         Len(s) <= MaxPrefix
  PROVE  isValidLabelNamePrefix(s, Len(s))
<1> DEFINE n == Len(s)
<1>1. n \in Nat /\ DOMAIN s = 1..n
  BY PlainPositions
<1>2. Cuts(s) \subseteq 0..(n + 1) /\ 0 \in Cuts(s) /\ n + 1 \in Cuts(s)
  BY CutsFinite DEF Cuts
<1>3. ASSUME NEW i \in Cuts(s), NEW j \in Cuts(s), Neighbours(s, i, j)
      PROVE  /\ i + 1 < j
             /\ s[i + 1].kind # "dash" /\ s[j - 1].kind # "dash"
             /\ \A k \in (i + 1)..(j - 1) : s[k].kind \in LabelKinds
  BY <1>3, SubdomainByCuts
<1>4. ASSUME NEW i \in Cuts(s), i + 1 \in Cuts(s)
      PROVE  FALSE
  <2>1. i \in Int /\ \A k \in Cuts(s) : k \in Int
    BY <1>1, <1>2
  <2>2. Neighbours(s, i, i + 1)
    BY <1>4, <2>1 DEF Neighbours
  <2>3. i + 1 < i + 1
    BY <1>3, <1>4, <2>2
  <2> QED
    BY <2>1, <2>3
<1>5. n > 0
  BY <1>1, <1>2, <1>4
<1>6. \A k \in 1..n : k \in Cuts(s) <=> s[k].kind = "dot"
  BY <1>1 DEF Cuts
<1>7. 1 \in 1..n /\ n \in 1..n /\ 1 \notin Cuts(s) /\ n \notin Cuts(s)
  <2>1. 1 \in 1..n /\ n \in 1..n
    BY <1>1, <1>5
  <2>2. 0 + 1 \notin Cuts(s) /\ n \notin Cuts(s)
    BY <1>2, <1>4
  <2>3. 0 + 1 = 1
    OBVIOUS
  <2> QED
    BY <2>1, <2>2, <2>3
<1>8. ASSUME NEW p \in 1..n, p \notin Cuts(s)
      PROVE  s[p].kind \in LabelKinds
  <2>1. PICK i \in Cuts(s), j \in Cuts(s) :
          Neighbours(s, i, j) /\ i < p /\ p < j
    BY <1>8, Between
  <2>2. p \in (i + 1)..(j - 1)
    BY <1>1, <1>2, <2>1
  <2> QED
    BY <1>3, <2>1, <2>2
<1>9. s[1].kind # "dash"
  <2>1. PICK i \in Cuts(s), j \in Cuts(s) :
          Neighbours(s, i, j) /\ i < 1 /\ 1 < j
    BY <1>7, Between
  <2>2. i + 1 = 1
    BY <1>1, <1>2, <2>1
  <2>3. s[i + 1].kind # "dash"
    BY <1>3, <2>1
  <2> QED
    BY <2>2, <2>3
<1>10. s[n].kind # "dash"
  <2>1. PICK i \in Cuts(s), j \in Cuts(s) :
          Neighbours(s, i, j) /\ i < n /\ n < j
    BY <1>7, Between
  <2>2. j - 1 = n
    BY <1>1, <1>2, <2>1
  <2>3. s[j - 1].kind # "dash"
    BY <1>3, <2>1
  <2> QED
    BY <2>2, <2>3
<1>11. s[1].head /\ s[n].tail
  BY <1>7, <1>8, <1>9, <1>10, PlainPositions DEF LabelKinds
<1>12. \A k \in 1..n : s[k].alnum \/ s[k].kind \in {"dash", "dot"}
  BY <1>6, <1>8, PlainPositions DEF LabelKinds
<1>13. ASSUME NEW i \in 2..n, s[i].kind = "dot", s[i-1].kind = "dot"
       PROVE  FALSE
  <2>1. i - 1 \in 1..n /\ i \in 1..n /\ (i - 1) + 1 = i
    BY <1>1
  <2>2. i - 1 \in Cuts(s) /\ i \in Cuts(s)
    BY <1>6, <1>13, <2>1
  <2> QED
    BY <1>4, <2>1, <2>2
<1>14. n \in 1..MaxPrefix /\ Last(s) = s[n]
  BY <1>1, <1>5, LengthsAssumption DEF Last
<1> QED
  BY <1>1, <1>11, <1>12, <1>13, <1>14 DEF isValidLabelNamePrefix

\* isValidLabelNamePrefix takes exactly the DNS subdomains of at most
\* MaxPrefix bytes among the names without capitals, foreign letters and
\* dashes beside dots.
THEOREM PrefixesAreChecked == Spec => []PrefixesChecked
<1>1. ASSUME LengthInv
      PROVE  PrefixesChecked
  <2>1. CASE Plain(name) /\ ~DashBesideDot
    <3>1. length = Len(name) /\ name \in Seq(Characters)
      BY <1>1, <2>1 DEF LengthInv
    <3>2. \A i \in 2..Len(name) :
            {name[i-1].kind, name[i].kind} # {"dash", "dot"}
      BY <2>1 DEF DashBesideDot
    <3>3. isValidLabelNamePrefix(name, length) =>
            DNSSubdomain(name) /\ Len(name) <= MaxPrefix
      <4>1. isValidLabelNamePrefix(name, length) => Len(name) <= MaxPrefix
        BY <3>1 DEF isValidLabelNamePrefix
      <4> QED
        BY <2>1, <3>1, <3>2, <4>1, AcceptedIsSubdomain
    <3>4. DNSSubdomain(name) /\ Len(name) <= MaxPrefix =>
            isValidLabelNamePrefix(name, length)
      BY <2>1, <3>1, SubdomainIsAccepted
    <3> QED
      BY <3>3, <3>4 DEF PrefixesChecked
  <2>2. CASE ~(Plain(name) /\ ~DashBesideDot)
    BY <2>2 DEF PrefixesChecked, Plain
  <2> QED
    BY <2>1, <2>2
<1> QED
  BY <1>1, LengthInvariant, PTL

=============================================================================
