------------------------------- MODULE Naming -------------------------------
(***************************************************************************)
(* The checks of names in the ConfigMap: validateDNSLabel for device names *)
(* and isValidLabelNamePrefix for the prefix of the node labels, against   *)
(* what Kubernetes takes for a DNS label and a DNS subdomain.              *)
(*                                                                         *)
(* A name is a sequence of characters, grown one at a time.  The code      *)
(* looks at the first and the last byte of the name as if they were        *)
(* characters, and at the characters in between, so a character has both:  *)
(* what it is, and what its first and last byte are.                       *)
(***************************************************************************)
EXTENDS Integers, SequencesExt

CONSTANTS
  MaxLabel,   \* 50 in the code
  MaxPrefix,  \* 100 in the code
  MaxTyped    \* bound: names this long are not made longer

ASSUME LengthsAssumption ==
  MaxLabel \in Nat /\ MaxPrefix \in Nat /\ MaxTyped \in Nat

\* alnum: unicode.IsLetter or IsDigit; head, tail: the same of the first and
\* last byte, taken for a character.
Character(kind, alnum, head, tail, bytes) ==
  [kind |-> kind, alnum |-> alnum, head |-> head, tail |-> tail,
   bytes |-> bytes]

\* a, A, 7, -, ., _ and two letters of two bytes (U+00E9 and U+00EA), the
\* last byte of only one of which is a letter in Latin-1.
Characters ==
  {Character(kind, TRUE, TRUE, TRUE, 1) : kind \in {"lower", "upper", "digit"}}
  \cup {Character(kind, FALSE, FALSE, FALSE, 1) :
          kind \in {"dash", "dot", "other"}}
  \cup {Character("letter", TRUE, TRUE, tail, 2) : tail \in BOOLEAN}

VARIABLES
  name,    \* the characters
  length   \* len of the name, which in Go counts bytes

vars == <<name, length>>

-----------------------------------------------------------------------------

\* Mutant: a dash is refused.
validateDNSLabel_NoDash(s, len, maxLength) ==
  /\ len \in 1..maxLength
  /\ s[1].head /\ Last(s).tail
  /\ \A i \in DOMAIN s : s[i].alnum

validateDNSLabel(s, len, maxLength) ==
  /\ len \in 1..maxLength
  /\ s[1].head /\ Last(s).tail
  /\ \A i \in DOMAIN s : s[i].alnum \/ s[i].kind = "dash"

\* Mutant: the character before a dot is not looked at.
isValidLabelNamePrefix_NoPrev(s, len) ==
  /\ len \in 1..MaxPrefix
  /\ s[1].head /\ Last(s).tail
  /\ \A i \in DOMAIN s : s[i].alnum \/ s[i].kind \in {"dash", "dot"}

isValidLabelNamePrefix(s, len) ==
  /\ len \in 1..MaxPrefix
  /\ s[1].head /\ Last(s).tail
  /\ \A i \in DOMAIN s : s[i].alnum \/ s[i].kind \in {"dash", "dot"}
  /\ \A i \in 2..Len(s) : ~(s[i].kind = "dot" /\ s[i-1].kind = "dot")

-----------------------------------------------------------------------------

Init == name = <<>> /\ length = 0

Type(c) ==
  /\ length < MaxTyped
  /\ name' = Append(name, c) /\ length' = length + c.bytes

Next == \E c \in Characters : Type(c)

Spec == Init /\ [][Next]_vars

-----------------------------------------------------------------------------
(***************************************************************************)
(* Kubernetes: a DNS label is lower-case letters, digits and dashes, none  *)
(* of them at its ends; a DNS subdomain is such labels with dots between   *)
(* them.  The keys of node labels have a DNS subdomain for a prefix.       *)
(***************************************************************************)
DNSLabel(s) ==
  /\ s # <<>> /\ s[1].kind # "dash" /\ Last(s).kind # "dash"
  /\ \A i \in DOMAIN s : s[i].kind \in {"lower", "digit", "dash"}

DNSSubdomain(s) ==
  LET cuts == {0, Len(s) + 1} \cup {i \in DOMAIN s : s[i].kind = "dot"}
  IN \A i, j \in cuts :
       (i < j /\ \A k \in cuts : k <= i \/ k >= j)
         => DNSLabel(SubSeq(s, i + 1, j - 1))

(***************************************************************************)
(* validateDNSLabel takes every DNS label of at most MaxLabel characters,  *)
(* and of the names without capitals and foreign letters no others.        *)
(***************************************************************************)
LabelsChecked ==
  (\A i \in DOMAIN name : name[i].kind \notin {"upper", "letter"}) =>
    (validateDNSLabel(name, length, MaxLabel) <=>
       DNSLabel(name) /\ Len(name) <= MaxLabel)

(***************************************************************************)
(* isValidLabelNamePrefix takes every DNS subdomain of at most MaxPrefix   *)
(* characters, and of the names without capitals, foreign letters and      *)
(* dashes beside dots no others.                                           *)
(***************************************************************************)
DashBesideDot ==
  \E i \in 2..Len(name) : {name[i-1].kind, name[i].kind} = {"dash", "dot"}

PrefixesChecked ==
  (/\ \A i \in DOMAIN name : name[i].kind \notin {"upper", "letter"}
   /\ ~DashBesideDot) =>
    (isValidLabelNamePrefix(name, length) <=>
       DNSSubdomain(name) /\ Len(name) <= MaxPrefix)

=============================================================================
