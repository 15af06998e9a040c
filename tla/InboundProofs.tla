----------------------------- MODULE InboundProofs -----------------------------
(***************************************************************************)
(* For every set of machines, names, answers of the name service and ssh   *)
(* command lines: an inbound connection is counted under a name of the     *)
(* machine it comes from, or one with the same first label, and uncounted  *)
(* under the same name, whatever happens to the registry while the name is *)
(* resolved without its lock and whatever discovery makes of command       *)
(* lines.  That it finds the destination in the legible ones is proved by  *)
(* induction over the arguments.                                           *)
(***************************************************************************)
EXTENDS Inbound, FiniteSetTheorems, SequenceTheorems, WellFoundedInduction, TLAPS

PeerState == [session_count : Nat, inbound_connections : Nat,
              connected : BOOLEAN, probe_failed : BOOLEAN]

\* The types the argument needs; the keys are any strings.
Shaped ==
    /\ peers \in [Known -> PeerState]
    /\ conn \in [Connection -> ConnState]
    /\ backlog \in Seq(Connection)
    /\ job \in [stage : {"idle", "forward", "match", "resolved"},
                conn : Connection \cup {NoConnection},
                todo : SUBSET Known, known : SUBSET Known, key : Key \cup {NoKey}]

\* The accept loop owns the connection it resolves; the backlog holds each queued
\* connection once.
Owned ==
    /\ \A c \in Connection : conn[c].stage # "closed" => conn[c].from \in Machine
    /\ job.stage # "idle" => job.conn \in Connection /\ conn[job.conn].stage = "resolving"
    /\ \A i \in 1..Len(backlog) : conn[backlog[i]].stage = "queued"
    /\ \A i, j \in 1..Len(backlog) : backlog[i] = backlog[j] => i = j

\* The key found is the machine's own, or a known one that matches.
Chosen == job.key \in Key \cap (Known \cup Names[Caller]) /\ Fits(job.key, Caller)

Attributed == AttributedByLabel /\ (job.stage = "resolved" => Chosen)

\* The address is a key that the forward lookups cannot miss.
AddressFound ==
    /\ job.stage = "forward" /\ Ip[Caller] \in job.known => Ip[Caller] \in job.todo
    /\ job.stage = "match" => Ip[Caller] \notin job.known

Resolving == Owned /\ Attributed /\ AddressFound /\ KnownHostKeepsItsEntry

Sound == Shaped /\ Resolving /\ InboundIsCounted

-----------------------------------------------------------------------------
(* Induction over the natural numbers, and strings *)

\* tlapm takes "x" \in STRING for no string constant x, so the symbols that the
\* functions compare with are added.
Symbol == STRING \cup {"-"} \cup Quote
Texts == Seq(Symbol)

LEMMA LeastElement ==
    ASSUME NEW T, T \subseteq Nat, T # {}
    PROVE  \E x \in T : \A y \in T : x <= y
<1>1. IsWellFoundedOn(OpToRel(<, Nat), Nat)
  BY NatLessThanWellFounded
<1>2. OpToRel(<, Nat) = {ss \in Nat \X Nat : ss[1] < ss[2]}
  BY DEF OpToRel
<1>3. PICK x \in T : \A y \in T : <<y, x>> \notin OpToRel(<, Nat)
  BY <1>1, WFMin
<1>4. ASSUME NEW y \in T PROVE x <= y
  <2>1. <<y, x>> \in Nat \X Nat
    OBVIOUS
  <2>2. <<y, x>> \notin {ss \in Nat \X Nat : ss[1] < ss[2]}
    BY <1>2, <1>3
  <2>3. ~(y < x)
    BY <2>1, <2>2
  <2>4. x \in Nat /\ y \in Nat
    OBVIOUS
  <2> QED
    BY <2>3, <2>4, SMT
<1> QED
  BY <1>4

LEMMA Induction ==
    ASSUME NEW T, 0 \in T, \A n \in Nat : n \in T => n + 1 \in T
    PROVE  \A n \in Nat : n \in T
<1> SUFFICES ASSUME Nat \ T # {} PROVE FALSE
  OBVIOUS
<1>1. PICK x \in Nat \ T : \A y \in Nat \ T : x <= y
  BY LeastElement
<1>2. x # 0 /\ x - 1 \in Nat /\ x - 1 \notin Nat \ T
  BY <1>1
<1>3. (x - 1) + 1 = x
  BY <1>1
<1> QED
  BY <1>1, <1>2, <1>3

LEMMA LeastIsMin ==
    ASSUME NEW T, T \subseteq Nat, NEW x \in T, \A y \in T : x <= y
    PROVE  Min(T) = x
<1>1. Min(T) \in T /\ \A y \in T : Min(T) <= y
  BY Zenon DEF Min
<1>2. Min(T) <= x /\ x <= Min(T)
  BY <1>1
<1>3. Min(T) \in Nat /\ x \in Nat
  BY <1>1
<1> HIDE DEF Min
<1> QED
  BY <1>2, <1>3, SMT

LEMMA GreatestIsMax ==
    ASSUME NEW T, T \subseteq Nat, NEW x \in T, \A y \in T : y <= x
    PROVE  Max(T) = x
<1>1. Max(T) \in T /\ \A y \in T : Max(T) >= y
  <2>1. \A y \in T : x >= y
    OBVIOUS
  <2> QED
    BY <2>1, Zenon DEF Max
<1>2. Max(T) >= x /\ x >= Max(T)
  BY <1>1
<1>3. Max(T) \in Nat /\ x \in Nat
  BY <1>1
<1> HIDE DEF Max
<1> QED
  BY <1>2, <1>3, SMT

\* AfterLast
LEMMA AfterUser ==
    ASSUME NEW u \in Texts, NEW t \in Texts,
           u = <<>> \/ u[Len(u)] = "@", \A i \in 1..Len(t) : t[i] # "@"
    PROVE  AfterLast(u \o t, "@") = t
<1> DEFINE s == u \o t
           T == {i \in 1..Len(s) : s[i] = "@"}
<1>1. s \in Texts /\ Len(s) = Len(u) + Len(t) /\ Len(u) \in Nat /\ Len(t) \in Nat
  BY DEF Texts
<1>2. \A i \in 1..Len(u) : s[i] = u[i]
  BY DEF Texts
<1>3. \A i \in 1..Len(t) : s[Len(u) + i] = t[i]
  BY DEF Texts
<1>4. \A i \in T : i <= Len(u)
  <2> SUFFICES ASSUME NEW i \in T, i > Len(u) PROVE FALSE
    BY <1>1
  <2>1. i - Len(u) \in 1..Len(t) /\ Len(u) + (i - Len(u)) = i
    BY <1>1
  <2> QED
    BY <1>3, <2>1
<1>5. (IF T # {} THEN Max(T) ELSE 0) = Len(u)
  <2>1. CASE u = <<>>
    <3>1. T = {}
      BY <1>1, <1>4, <2>1
    <3> QED
      BY <2>1, <3>1
  <2>2. CASE u # <<>>
    <3>1. Len(u) \in T
      BY <1>1, <1>2, <2>2 DEF Texts
    <3>2. T \subseteq Nat
      BY <1>1
    <3> HIDE DEF T
    <3> QED
      BY <1>4, <3>1, <3>2, GreatestIsMax
  <2> QED
    BY <2>1, <2>2
<1>6. AfterLast(s, "@") = SubSeq(s, Len(u) + 1, Len(s))
  <2>1. AfterLast(s, "@") = SubSeq(s, (IF T # {} THEN Max(T) ELSE 0) + 1, Len(s))
    BY DEF AfterLast, SelectLastInSeq
  <2> QED
    BY <1>5, <2>1
<1>7. SubSeq(s, Len(u) + 1, Len(s)) = t
  <2> DEFINE w == SubSeq(s, Len(u) + 1, Len(s))
  <2>1. \A i \in Len(u) + 1 .. Len(s) : s[i] \in Symbol
    BY <1>1 DEF Texts
  <2>2. w \in Texts /\ Len(w) = Len(t) /\ \A i \in 1..Len(t) : w[i] = s[Len(u) + i]
    BY <1>1 DEF Texts
  <2>3. \A i \in 1..Len(w) : w[i] = t[i]
    BY <1>3, <2>2
  <2> HIDE DEF w
  <2>4. w \in Seq(Symbol) /\ t \in Seq(Symbol) /\ Len(w) = Len(t)
    BY <2>2 DEF Texts
  <2> QED
    BY <2>3, <2>4, SeqEqual
<1> QED
  BY <1>6, <1>7

LEMMA NoPort ==
    ASSUME NEW t \in Texts, NEW symbol, \A i \in 1..Len(t) : t[i] # symbol
    PROVE  BeforeFirst(t, symbol) = t
<1>1. {i \in 1..Len(t) : t[i] = symbol} = {}
  OBVIOUS
<1> QED
  BY <1>1 DEF BeforeFirst, SelectInSeq

\* Quotes are trimmed
LEMMA Trim ==
    ASSUME NEW t \in Texts, t # <<>>, \A i \in 1..Len(t) : t[i] \notin Quote, NEW q \in Quote
    PROVE  /\ Unquoted(t) = t
           /\ Unquoted(<<q>> \o t \o <<q>>) = t
<1>1. Len(t) \in Nat \ {0}
  BY DEF Texts
<1>2. Unquoted(t) = t
  <2> DEFINE T == {i \in 1..Len(t) : t[i] \notin Quote}
  <2>1. T = 1..Len(t)
    OBVIOUS
  <2>2. Min(T) = 1 /\ Max(T) = Len(t) /\ T # {}
    <3>1. 1 \in T /\ Len(t) \in T /\ T \subseteq Nat /\ \A i \in T : 1 <= i /\ i <= Len(t)
      BY <1>1, <2>1
    <3> HIDE DEF T
    <3> QED
      BY <3>1, LeastIsMin, GreatestIsMax
  <2> DEFINE first == IF T # {} THEN Min(T) ELSE 0
             last == IF T # {} THEN Max(T) ELSE 0
  <2>3. Unquoted(t) = IF first = 0 THEN <<>> ELSE SubSeq(t, first, last)
    BY Zenon DEF Unquoted, SelectInSeq, SelectLastInSeq
  <2>4. first = 1 /\ last = Len(t)
    BY <2>2
  <2> HIDE DEF first, last
  <2>5. Unquoted(t) = SubSeq(t, 1, Len(t))
    BY <2>3, <2>4
  <2> QED
    BY <2>5, SubSeqFull DEF Texts
<1>3. Unquoted(<<q>> \o t \o <<q>>) = t
  <2> DEFINE s == <<q>> \o t \o <<q>>
             T == {i \in 1..Len(s) : s[i] \notin Quote}
  <2> DEFINE r == t \o <<q>>
  <2>1. r \in Texts /\ Len(r) = Len(t) + 1 /\ r[Len(t) + 1] = q /\ \A i \in 1..Len(t) : r[i] = t[i]
    <3>1. t \in Seq(Symbol) /\ <<q>> \in Seq(Symbol) /\ Len(<<q>>) = 1
      BY DEF Texts, Symbol
    <3>2. /\ r \in Texts /\ Len(r) = Len(t) + 1
          /\ \A i \in 1..(Len(t) + 1) : r[i] = IF i <= Len(t) THEN t[i] ELSE <<q>>[i - Len(t)]
      BY <3>1, ConcatProperties DEF Texts
    <3>3. r[Len(t) + 1] = <<q>>[1]
      BY <1>1, <3>2
    <3> QED
      BY <1>1, <3>2, <3>3
  <2>2. s = <<q>> \o r
    OBVIOUS
  <2> HIDE DEF r, s
  <2>3. s \in Texts /\ Len(s) = Len(t) + 2 /\ s[1] = q /\ s[Len(t) + 2] = q
    BY <1>1, <2>1, <2>2 DEF Texts
  <2>4. \A i \in 1..Len(t) : s[i + 1] = t[i]
    BY <1>1, <2>1, <2>2 DEF Texts
  <2>5. T = 2..(Len(t) + 1)
    <3>1. ASSUME NEW i \in T PROVE i \in 2..(Len(t) + 1)
      BY <1>1, <2>3
    <3>2. ASSUME NEW i \in 2..(Len(t) + 1) PROVE i \in T
      <4>1. i - 1 \in 1..Len(t) /\ (i - 1) + 1 = i
        BY <1>1
      <4>2. s[i] = t[i - 1]
        BY <2>4, <4>1
      <4>3. s[i] \notin Quote /\ i \in 1..Len(s)
        BY <1>1, <2>3, <4>1, <4>2
      <4> QED
        BY <4>3
    <3> QED
      BY <3>1, <3>2
  <2>6. Min(T) = 2 /\ Max(T) = Len(t) + 1 /\ T # {}
    <3>1. 2 \in T /\ Len(t) + 1 \in T /\ T \subseteq Nat /\ \A i \in T : 2 <= i /\ i <= Len(t) + 1
      BY <1>1, <2>5
    <3> HIDE DEF T
    <3> QED
      BY <3>1, LeastIsMin, GreatestIsMax
  <2> DEFINE first == IF T # {} THEN Min(T) ELSE 0
             last == IF T # {} THEN Max(T) ELSE 0
  <2>7. Unquoted(s) = IF first = 0 THEN <<>> ELSE SubSeq(s, first, last)
    BY Zenon DEF Unquoted, SelectInSeq, SelectLastInSeq
  <2>8. first = 2 /\ last = Len(t) + 1
    BY <2>6
  <2> HIDE DEF first, last, s
  <2>9. Unquoted(s) = SubSeq(s, 2, Len(t) + 1)
    BY <2>7, <2>8
  <2>10. SubSeq(s, 2, Len(t) + 1) = t
    <3> DEFINE w == SubSeq(s, 2, Len(t) + 1)
    <3>1. w \in Texts /\ Len(w) = Len(t) /\ \A i \in 1..Len(t) : w[i] = s[i + 1]
      BY <1>1, <2>3 DEF Texts
    <3> HIDE DEF w
    <3> QED
      BY <2>4, <3>1, SeqEqual DEF Texts
  <2> QED
    BY <2>9, <2>10 DEF s
<1> QED
  BY <1>2, <1>3

\* A host name as it is typed: no symbol that a host name cannot have.
HostName(s) == s \in Texts /\ s # <<>> /\ \A i \in 1..Len(s) : s[i] \notin Foreign

LEMMA LowerOfHost ==
    ASSUME NEW s, HostName(s)
    PROVE  \A i \in DOMAIN Lower(s) : Lower(s)[i] \notin Foreign
<1>1. DOMAIN s = 1..Len(s)
  BY DEF HostName, Texts
<1> QED
  BY <1>1, WordsAssumption DEF Lower, HostName

LEMMA Unadorned ==
    ASSUME NEW t, HostName(t), NEW u \in Texts,
           u = <<>> \/ u[Len(u)] = "@",
           \A i \in 1..Len(u) : u[i] \notin Quote,
           NEW q \in Quote
    PROVE  /\ normalize_ssh_host(u \o t) = Lower(t)
           /\ normalize_ssh_host(<<q>> \o (u \o t) \o <<q>>) = Lower(t)
<1>1. t \in Texts /\ t # <<>> /\ Len(t) \in Nat \ {0}
  BY DEF HostName, Texts
<1>2. \A i \in 1..Len(t) : t[i] \notin Quote /\ t[i] # "@" /\ t[i] # ":" /\ t[i] # "["
  BY DEF HostName, Foreign
<1> DEFINE s == u \o t
<1>3. s \in Texts /\ s # <<>> /\ \A i \in 1..Len(s) : s[i] \notin Quote
  <2>1. s \in Texts /\ Len(s) = Len(u) + Len(t) /\ Len(u) \in Nat
    BY <1>1 DEF Texts
  <2>2. \A i \in 1..Len(s) : s[i] = IF i <= Len(u) THEN u[i] ELSE t[i - Len(u)]
    BY <1>1, <2>1, ConcatProperties DEF Texts
  <2>3. ASSUME NEW i \in 1..Len(s) PROVE s[i] \notin Quote
    <3>1. CASE i <= Len(u)
      BY <2>1, <2>2, <3>1
    <3>2. CASE ~(i <= Len(u))
      <4>1. i - Len(u) \in 1..Len(t)
        BY <1>1, <2>1, <3>2
      <4> QED
        BY <1>2, <2>2, <3>2, <4>1
    <3> QED
      BY <3>1, <3>2
  <2> HIDE DEF s
  <2>4. Len(s) # 0
    BY <1>1, <2>1
  <2>5. s # <<>>
    BY <2>4
  <2> QED
    BY <2>1, <2>3, <2>5
<1>4. AfterLast(s, "@") = t
  BY <1>1, <1>2, AfterUser
<1>5. Unbracketed(t) = t
  BY <1>1, <1>2 DEF Unbracketed, Texts
<1>6. BeforeFirst(t, ":") = t
  BY <1>1, <1>2, NoPort
<1>7. ~ \E i \in DOMAIN Lower(t) : Lower(t)[i] \in Foreign
  BY LowerOfHost
<1> HIDE DEF s
<1>8. ASSUME NEW raw, Unquoted(raw) = s
      PROVE  normalize_ssh_host(raw) = Lower(t)
  BY <1>4, <1>5, <1>6, <1>7, <1>8 DEF normalize_ssh_host
<1>9. Unquoted(s) = s /\ Unquoted(<<q>> \o s \o <<q>>) = s
  BY <1>3, Trim
<1>10. normalize_ssh_host(s) = Lower(t) /\ normalize_ssh_host(<<q>> \o s \o <<q>>) = Lower(t)
  BY <1>8, <1>9
<1> QED
  BY <1>10 DEF s

-----------------------------------------------------------------------------
(* Recursion over an argument list *)

LEMMA Flatten ==
    ASSUME NEW S, NEW seqs \in Seq(Seq(S)), seqs # <<>>
    PROVE  \E f \in [1..Len(seqs) -> Seq(S)] :
               /\ FlattenSeq(seqs) = f[Len(seqs)]
               /\ f[1] = seqs[1]
               /\ \A i \in 2..Len(seqs) : f[i] = f[i - 1] \o seqs[i]
<1>1. Len(seqs) \in Nat \ {0} /\ \A i \in 1..Len(seqs) : seqs[i] \in Seq(S)
  OBVIOUS
<1> DEFINE Prefix(f, n) ==
               f = [i \in 1..n |-> IF i = 1 THEN seqs[i] ELSE f[i - 1] \o seqs[i]]
           T == {n \in Nat : \E f : Prefix(f, n)}
<1>2. 0 \in T
  <2> DEFINE f == [i \in 1..0 |-> seqs[i]]
  <2>1. Prefix(f, 0)
    OBVIOUS
  <2> HIDE DEF f, Prefix
  <2> QED
    BY <2>1
<1>3. ASSUME NEW n \in Nat, n \in T PROVE n + 1 \in T
  <2>1. PICK g : Prefix(g, n)
    BY <1>3
  <2> DEFINE last == IF n = 0 THEN seqs[1] ELSE g[n] \o seqs[n + 1]
             f == [i \in 1..(n + 1) |-> IF i <= n THEN g[i] ELSE last]
  <2>2. \A i \in 1..n : f[i] = g[i]
    OBVIOUS
  <2>3. f[n + 1] = last
    OBVIOUS
  <2>4. \A i \in 1..n : g[i] = IF i = 1 THEN seqs[i] ELSE g[i - 1] \o seqs[i]
    BY <2>1
  <2>5. ASSUME NEW i \in 1..(n + 1)
        PROVE  f[i] = IF i = 1 THEN seqs[i] ELSE f[i - 1] \o seqs[i]
    <3>1. CASE i = n + 1 /\ n = 0
      <4> HIDE DEF f
      <4> QED
        BY <2>3, <3>1
    <3>2. CASE i = n + 1 /\ n # 0
      <4>1. i # 1 /\ i - 1 = n /\ n \in 1..n
        BY <3>2
      <4>2. f[i - 1] = g[n]
        BY <2>2, <4>1
      <4> HIDE DEF f
      <4> QED
        BY <2>3, <3>2, <4>1, <4>2
    <3>3. CASE i # n + 1 /\ i = 1
      <4>1. 1 \in 1..n
        BY <3>3
      <4> HIDE DEF f
      <4> QED
        BY <2>2, <2>4, <3>3, <4>1
    <3>4. CASE i # n + 1 /\ i # 1
      <4>1. i \in 1..n /\ i - 1 \in 1..n
        BY <3>4
      <4> HIDE DEF f
      <4> QED
        BY <2>2, <2>4, <3>4, <4>1
    <3> QED
      BY <3>1, <3>2, <3>3, <3>4
  <2>6. f = [i \in 1..(n + 1) |-> f[i]]
    OBVIOUS
  <2> HIDE DEF f
  <2>7. Prefix(f, n + 1)
    BY <2>5, <2>6
  <2> HIDE DEF Prefix
  <2> QED
    BY <2>7
<1>4. \A n \in Nat : n \in T
  <2> HIDE DEF T
  <2> QED
    BY <1>2, <1>3, Induction
<1>5. \E f : Prefix(f, Len(seqs))
  <2> HIDE DEF Prefix
  <2> QED
    BY <1>1, <1>4
<1> DEFINE flatten == CHOOSE f : Prefix(f, Len(seqs))
<1>6. Prefix(flatten, Len(seqs))
  <2> HIDE DEF Prefix
  <2> QED
    BY <1>5
<1>7. FlattenSeq(seqs) = flatten[Len(seqs)]
  BY <1>1 DEF FlattenSeq
<1> HIDE DEF flatten, T
<1>8. /\ DOMAIN flatten = 1..Len(seqs)
      /\ flatten = [i \in 1..Len(seqs) |-> flatten[i]]
      /\ flatten[1] = seqs[1]
      /\ \A i \in 2..Len(seqs) : flatten[i] = flatten[i - 1] \o seqs[i]
  <2>1. \A i \in 1..Len(seqs) :
            flatten[i] = IF i = 1 THEN seqs[i] ELSE flatten[i - 1] \o seqs[i]
    BY <1>6
  <2>2. DOMAIN flatten = 1..Len(seqs) /\ flatten = [i \in 1..Len(seqs) |-> flatten[i]]
    BY <1>6
  <2>3. flatten[1] = seqs[1]
    BY <1>1, <2>1
  <2>4. \A i \in 2..Len(seqs) : i \in 1..Len(seqs) /\ i # 1
    OBVIOUS
  <2> QED
    BY <2>1, <2>2, <2>3, <2>4
<1>9. \A i \in 1..Len(seqs) : flatten[i] \in Seq(S)
  <2> DEFINE U == {n \in Nat : n \in 1..Len(seqs) => flatten[n] \in Seq(S)}
  <2>1. 0 \in U
    OBVIOUS
  <2>2. ASSUME NEW n \in Nat, n \in U PROVE n + 1 \in U
    <3> SUFFICES ASSUME n + 1 \in 1..Len(seqs) PROVE flatten[n + 1] \in Seq(S)
      OBVIOUS
    <3>1. CASE n = 0
      BY <1>1, <1>8, <3>1
    <3>2. CASE n # 0
      <4>1. n \in 1..Len(seqs) /\ n + 1 \in 2..Len(seqs) /\ (n + 1) - 1 = n
        BY <3>2
      <4>2. flatten[n] \in Seq(S) /\ seqs[n + 1] \in Seq(S)
        BY <1>1, <2>2, <4>1
      <4>3. flatten[n + 1] = flatten[n] \o seqs[n + 1]
        BY <1>8, <4>1
      <4> QED
        BY <4>2, <4>3
    <3> QED
      BY <3>1, <3>2
  <2>3. \A n \in Nat : n \in U
    <3> HIDE DEF U
    <3> QED
      BY <2>1, <2>2, Induction
  <2> QED
    BY <2>3
<1>10. flatten \in [1..Len(seqs) -> Seq(S)]
  BY <1>8, <1>9
<1> QED
  BY <1>7, <1>8, <1>10

NextHost(args, i) == SelectInSubSeq(args, i, Len(args), LAMBDA a : ~IsOption(a))

\* One step of the loop over the arguments, where place is what follows.
Choice(args, place, i) ==
    IF i > Len(args) THEN 0
    ELSE IF args[i] = <<"-", "-">> THEN NextHost(args, i + 1)
    ELSE IF ~IsOption(args[i]) THEN i
    ELSE place[i + (IF ConsumesNext(args[i]) THEN 2 ELSE 1)]

LEMMA Place ==
    ASSUME NEW args, Len(args) \in Nat
    PROVE  \E place :
               /\ \A i \in 1..(Len(args) + 2) : place[i] = Choice(args, place, i)
               /\ extract_ssh_destination_host(args) =
                      IF place[1] = 0 THEN <<>> ELSE normalize_ssh_host(args[place[1]])
<1> DEFINE n == Len(args) + 2
           Suffix(p, j) == p = [i \in j..n |-> Choice(args, p, i)]
           T == {k \in Nat : k <= n => \E p : Suffix(p, n - k)}
<1>1. n \in Nat /\ n > 1
  OBVIOUS
<1>2. \A p : Choice(args, p, n) = 0
  BY DEF Choice
<1>3. 0 \in T
  <2> DEFINE p == [i \in n..n |-> 0]
  <2>1. p = [i \in n..n |-> p[i]] /\ \A i \in n..n : i = n /\ p[i] = 0
    BY <1>1
  <2> HIDE DEF p, n
  <2>2. Suffix(p, n)
    BY <1>2, <2>1
  <2>3. n - 0 = n
    BY <1>1
  <2> HIDE DEF Suffix
  <2> QED
    BY <2>2, <2>3
<1>4. ASSUME NEW k \in Nat, k \in T PROVE k + 1 \in T
  <2> SUFFICES ASSUME k + 1 <= n PROVE \E p : Suffix(p, n - (k + 1))
    <3> HIDE DEF Suffix, n
    <3> QED
      OBVIOUS
  <2>1. PICK g : Suffix(g, n - k)
    <3> HIDE DEF Suffix, n
    <3> QED
      BY <1>1, <1>4
  <2> DEFINE j == n - (k + 1)
             f == [i \in j..n |-> IF i = j THEN Choice(args, g, j) ELSE g[i]]
  <2>2. j \in Nat /\ j + 1 = n - k /\ j < n
    BY <1>1
  <2>3. \A i \in (j + 1)..n : f[i] = g[i] /\ g[i] = Choice(args, g, i)
    <3> HIDE DEF n, j
    <3>1. \A i \in (j + 1)..n : g[i] = Choice(args, g, i)
      BY <2>1, <2>2
    <3>2. \A i \in (j + 1)..n : i \in j..n /\ i # j
      BY <1>1, <2>2
    <3> QED
      BY <3>1, <3>2
  <2>4. f[j] = Choice(args, g, j)
    <3>1. j \in j..n
      BY <1>1, <2>2
    <3> HIDE DEF j, n
    <3> QED
      BY <3>1
  <2>5. ASSUME NEW i \in j..n PROVE Choice(args, f, i) = Choice(args, g, i)
    <3>1. CASE i > Len(args)
      BY <3>1 DEF Choice
    <3>2. CASE ~(i > Len(args))
      <4>1. i + 1 \in (j + 1)..n /\ i + 2 \in (j + 1)..n
        BY <1>1, <2>2, <3>2
      <4> HIDE DEF f, j, n
      <4>2. f[i + 1] = g[i + 1] /\ f[i + 2] = g[i + 2]
        BY <2>3, <4>1
      <4> QED
        BY <4>2 DEF Choice
    <3> QED
      BY <3>1, <3>2
  <2>6. ASSUME NEW i \in j..n PROVE f[i] = Choice(args, f, i)
    <3>1. i = j \/ i \in (j + 1)..n
      BY <1>1, <2>2
    <3> HIDE DEF f, j, n
    <3> QED
      BY <2>3, <2>4, <2>5, <3>1
  <2>7. f = [i \in j..n |-> f[i]]
    OBVIOUS
  <2>8. Suffix(f, j)
    <3> HIDE DEF f, j, n
    <3> QED
      BY <2>6, <2>7
  <2> QED
    <3> HIDE DEF Suffix, n, f
    <3> QED
      BY <2>8
<1>5. \A k \in Nat : k \in T
  <2> HIDE DEF T
  <2> QED
    BY <1>3, <1>4, Induction
<1>6. \E p : Suffix(p, 1)
  <2>1. n - 1 \in Nat /\ n - 1 <= n /\ n - (n - 1) = 1
    BY <1>1
  <2> HIDE DEF Suffix, n
  <2>2. n - 1 \in T
    BY <1>5, <2>1
  <2> QED
    BY <2>1, <2>2
<1> DEFINE place == CHOOSE p : Suffix(p, 1)
<1>7. Suffix(place, 1)
  <2> HIDE DEF Suffix
  <2> QED
    BY <1>6
<1>8. extract_ssh_destination_host(args) =
          IF place[1] = 0 THEN <<>> ELSE normalize_ssh_host(args[place[1]])
  BY DEF extract_ssh_destination_host, Choice, NextHost
<1> HIDE DEF place
<1>9. \A i \in 1..n : place[i] = Choice(args, place, i)
  BY <1>7
<1> QED
  BY <1>8, <1>9

\* What the first options make, one by one.
LEMMA FlattenPrefixes ==
    ASSUME NEW S, NEW seqs \in Seq(Seq(S))
    PROVE  \E f \in [0..Len(seqs) -> Seq(S)] :
               /\ f[0] = <<>>
               /\ FlattenSeq(seqs) = f[Len(seqs)]
               /\ \A i \in 1..Len(seqs) : f[i] = f[i - 1] \o seqs[i]
<1>1. Len(seqs) \in Nat
  OBVIOUS
<1>2. CASE seqs = <<>>
  <2> DEFINE f == [i \in 0..Len(seqs) |-> <<>>]
  <2>1. Len(seqs) = 0 /\ FlattenSeq(seqs) = <<>>
    BY <1>2 DEF FlattenSeq
  <2>2. f \in [0..Len(seqs) -> Seq(S)] /\ f[0] = <<>>
    BY <2>1
  <2>3. \A i \in 1..Len(seqs) : FALSE
    BY <2>1
  <2> HIDE DEF f
  <2> QED
    BY <2>1, <2>2, <2>3
<1>3. CASE seqs # <<>>
  <2>1. PICK g \in [1..Len(seqs) -> Seq(S)] :
            /\ FlattenSeq(seqs) = g[Len(seqs)]
            /\ g[1] = seqs[1]
            /\ \A i \in 2..Len(seqs) : g[i] = g[i - 1] \o seqs[i]
    BY <1>3, Flatten
  <2> DEFINE f == [i \in 0..Len(seqs) |-> IF i = 0 THEN <<>> ELSE g[i]]
  <2>2. f[0] = <<>> /\ \A i \in 1..Len(seqs) : f[i] = g[i]
    BY <1>1
  <2>3. f \in [0..Len(seqs) -> Seq(S)]
    BY <1>1
  <2>4. Len(seqs) \in 1..Len(seqs) /\ \A i \in 1..Len(seqs) : seqs[i] \in Seq(S)
    BY <1>3
  <2> HIDE DEF f
  <2>5. ASSUME NEW i \in 1..Len(seqs) PROVE f[i] = f[i - 1] \o seqs[i]
    <3>1. CASE i = 1
      <4>1. f[0] \o seqs[1] = seqs[1]
        BY <2>2, <2>4, <3>1, ConcatEmptySeq
      <4>2. f[1] = seqs[1]
        BY <2>1, <2>2, <3>1
      <4>3. i - 1 = 0
        BY <3>1
      <4> QED
        BY <3>1, <4>1, <4>2, <4>3
    <3>2. CASE i # 1
      <4>1. i \in 2..Len(seqs) /\ i - 1 \in 1..Len(seqs)
        BY <1>1, <3>2
      <4> QED
        BY <2>1, <2>2, <4>1
    <3> QED
      BY <3>1, <3>2
  <2> QED
    BY <2>1, <2>2, <2>3, <2>4, <2>5
<1> QED
  BY <1>2, <1>3

IsGroup(o) ==
    /\ Len(o) = IF ssh_option_takes_value(o[1]) THEN 2 ELSE 1
    /\ IsOption(o[1]) /\ o[1] # <<"-", "-">>

\* An option o between what comes before and after it.
LEMMA Middle ==
    ASSUME NEW S, NEW p \in Seq(S), NEW o \in Seq(S), NEW r \in Seq(S)
    PROVE  /\ (p \o o) \o r = p \o (o \o r) /\ o \o r \in Seq(S)
           /\ Len(p \o o) = Len(p) + Len(o)
           /\ Len(o) > 0 => /\ ((p \o o) \o r)[Len(p) + 1] = o[1]
                            /\ Len(p) + 1 \in 1..Len((p \o o) \o r)
<1> DEFINE q == p \o o
<1>1. q \in Seq(S) /\ Len(q) = Len(p) + Len(o) /\ Len(p) \in Nat /\ Len(o) \in Nat /\ Len(r) \in Nat
  OBVIOUS
<1>2. Len(o) > 0 => q[Len(p) + 1] = o[1]
  OBVIOUS
<1>3. q \o r = p \o (o \o r) /\ o \o r \in Seq(S)
  OBVIOUS
<1> HIDE DEF q
<1>4. Len(o) > 0 => (q \o r)[Len(p) + 1] = o[1] /\ Len(p) + 1 \in 1..Len(q \o r)
  BY <1>1, <1>2
<1> QED
  BY <1>1, <1>3, <1>4 DEF q

LEMMA Destination ==
    ASSUME NEW options \in Seq(Seq(Texts)), \A i \in 1..Len(options) : IsGroup(options[i]),
           NEW dashes \in {<<>>, <<<<"-", "-">>>>},
           NEW raw \in Texts, ~IsOption(raw), NEW command \in Seq(Texts)
    PROVE  extract_ssh_destination_host(FlattenSeq(options) \o dashes \o <<raw>> \o command)
               = normalize_ssh_host(raw)
<1> DEFINE n == Len(options)
           args == FlattenSeq(options) \o dashes \o <<raw>> \o command
<1>1. PICK f \in [0..n -> Seq(Texts)] :
          /\ f[0] = <<>>
          /\ FlattenSeq(options) = f[n]
          /\ \A i \in 1..n : f[i] = f[i - 1] \o options[i]
  BY FlattenPrefixes
<1> DEFINE flat == f[n]
           rest == dashes \o (<<raw>> \o command)
<1>2. n \in Nat /\ flat \in Seq(Texts) /\ \A i \in 1..n : options[i] \in Seq(Texts)
  BY <1>1
<1>3. raw # <<"-", "-">> /\ <<"-", "-">> \in Texts
  BY DEF IsOption, Texts, Symbol
<1>4. dashes \in Seq(Texts) /\ <<raw>> \in Seq(Texts) /\ rest \in Seq(Texts)
  <2>1. <<raw>> \in Seq(Texts) /\ <<raw>> \o command \in Seq(Texts)
    OBVIOUS
  <2>2. \A a \in Texts : <<a>> \in Seq(Texts)
    OBVIOUS
  <2>3. <<>> \in Seq(Texts) /\ <<<<"-", "-">>>> \in Seq(Texts)
    BY <1>3, <2>2, EmptySeq
  <2> QED
    BY <2>1, <2>3, ConcatProperties
<1>5. args = flat \o rest /\ args \in Seq(Texts)
  <2>1. args = ((flat \o dashes) \o <<raw>>) \o command
    BY <1>1
  <2> HIDE DEF flat, args
  <2>2. ((flat \o dashes) \o <<raw>>) \o command = (flat \o dashes) \o (<<raw>> \o command)
    BY <1>2, <1>4
  <2>3. (flat \o dashes) \o (<<raw>> \o command) = flat \o (dashes \o (<<raw>> \o command))
    BY <1>2, <1>4
  <2>4. args = flat \o rest
    BY <2>1, <2>2, <2>3
  <2> HIDE DEF rest
  <2> QED
    BY <1>2, <1>4, <2>4, ConcatProperties
<1> HIDE DEF flat, rest, args
<1>6. PICK place :
          /\ \A i \in 1..(Len(args) + 2) : place[i] = Choice(args, place, i)
          /\ extract_ssh_destination_host(args) =
                 IF place[1] = 0 THEN <<>> ELSE normalize_ssh_host(args[place[1]])
  <2>1. Len(args) \in Nat
    BY <1>5
  <2> QED
    BY <2>1, Place
\* What the first options make begins the arguments.
<1>7. \A j \in 0..n : \E r \in Seq(Texts) : args = f[j] \o r
  <2> DEFINE Begins(j) == \E r \in Seq(Texts) : args = f[j] \o r
             U == {k \in Nat : k <= n => Begins(n - k)}
  <2>1. 0 \in U
    <3>1. args = f[n] \o rest
      BY <1>5 DEF flat
    <3>2. Begins(n)
      BY <1>4, <3>1
    <3> HIDE DEF Begins, n
    <3> QED
      BY <1>2, <3>2
  <2>2. ASSUME NEW j \in 1..n, Begins(j) PROVE Begins(j - 1)
    <3>1. PICK r \in Seq(Texts) : args = f[j] \o r
      BY <2>2
    <3> DEFINE p == f[j - 1]
               o == options[j]
    <3>2. j - 1 \in 0..n
      BY <1>2
    <3>3. f[j] = p \o o /\ p \in Seq(Texts) /\ o \in Seq(Texts)
      BY <1>1, <1>2, <3>2
    <3> HIDE DEF p, o
    <3>4. args = p \o (o \o r) /\ o \o r \in Seq(Texts)
      <4>1. args = (p \o o) \o r
        BY <3>1, <3>3
      <4>2. p \in Seq(Texts) /\ o \in Seq(Texts)
        BY <3>3
      <4>3. (p \o o) \o r = p \o (o \o r)
        BY <4>2, ConcatAssociative, SMTT(30)
      <4>4. o \o r \in Seq(Texts)
        BY <4>2, ConcatProperties, Zenon
      <4>5. (p \o o) \o r = p \o (o \o r) /\ o \o r \in Seq(Texts)
        BY <4>3, <4>4
      <4> QED
        BY <4>1, <4>5
    <3>5. \E q \in Seq(Texts) : args = p \o q
      BY <3>4
    <3> QED
      BY <3>5 DEF p
  <2> HIDE DEF Begins
  <2>3. ASSUME NEW k \in Nat, k \in U PROVE k + 1 \in U
    <3> HIDE DEF n
    <3>1. CASE k + 1 <= n
      <4>1. n - k \in 1..n /\ k <= n /\ (n - k) - 1 = n - (k + 1)
        BY <1>2, <3>1
      <4> QED
        BY <2>2, <2>3, <4>1
    <3> QED
      BY <3>1
  <2>4. \A k \in Nat : k \in U
    <3> HIDE DEF U
    <3> QED
      BY <2>1, <2>3, Induction
  <2>5. ASSUME NEW j \in 0..n PROVE Begins(j)
    <3>1. n - j \in Nat /\ n - j <= n /\ n - (n - j) = j
      BY <1>2
    <3>2. n - j \in U
      BY <2>4, <3>1
    <3> HIDE DEF n
    <3> QED
      BY <3>1, <3>2
  <2> QED
    BY <2>5 DEF Begins
\* The loop passes the options one by one.
<1>8. \A j \in 0..n : place[1] = place[Len(f[j]) + 1]
  <2> DEFINE U == {j \in Nat : j <= n => place[1] = place[Len(f[j]) + 1]}
  <2>1. 0 \in U
    BY <1>1
  <2>2. ASSUME NEW k \in Nat, k \in U PROVE k + 1 \in U
    <3> SUFFICES ASSUME k + 1 <= n PROVE place[1] = place[Len(f[k + 1]) + 1]
      <4> HIDE DEF n
      <4> QED
        OBVIOUS
    <3> DEFINE o == options[k + 1]
               p == f[k]
    <3>1. k \in 0..n /\ k + 1 \in 1..n /\ k + 1 \in 0..n /\ (k + 1) - 1 = k
      BY <1>2
    <3>2. p \in Seq(Texts) /\ o \in Seq(Texts) /\ f[k + 1] = p \o o /\ f[k + 1] \in Seq(Texts)
      BY <1>1, <1>2, <3>1
    <3>3. IsGroup(o) /\ place[1] = place[Len(p) + 1]
      BY <2>2, <3>1
    <3>4. PICK r \in Seq(Texts) : args = (p \o o) \o r
      BY <1>7, <3>1, <3>2
    <3> HIDE DEF o, p
    <3>5. Len(o) = (IF ssh_option_takes_value(o[1]) THEN 2 ELSE 1) /\ Len(o) > 0
      BY <3>3 DEF IsGroup
    <3>6. Len(f[k + 1]) = Len(p) + Len(o)
      BY <3>2, Middle
    <3>7. args[Len(p) + 1] = o[1] /\ Len(p) + 1 \in 1..Len(args)
      <4>1. p \in Seq(Texts) /\ o \in Seq(Texts)
        BY <3>2
      <4>2. ((p \o o) \o r)[Len(p) + 1] = o[1] /\ Len(p) + 1 \in 1..Len((p \o o) \o r)
        BY <3>5, <4>1, Middle, Zenon
      <4> QED
        BY <3>4, <4>2
    <3>8. Len(p) + 1 \in 1..(Len(args) + 2) /\ ~(Len(p) + 1 > Len(args))
      <4>1. Len(args) \in Nat
        BY <1>5
      <4> QED
        BY <3>7, <4>1
    <3>9. place[Len(p) + 1] = place[(Len(p) + 1) + (IF ConsumesNext(o[1]) THEN 2 ELSE 1)]
      BY <1>6, <3>3, <3>7, <3>8 DEF Choice, IsGroup
    <3>10. (Len(p) + 1) + (IF ConsumesNext(o[1]) THEN 2 ELSE 1) = Len(f[k + 1]) + 1
      <4>1. Len(p) \in Nat
        BY <3>2
      <4> QED
        BY <3>5, <3>6, <4>1 DEF ConsumesNext
    <3> QED
      BY <3>3, <3>9, <3>10
  <2>3. \A j \in Nat : j \in U
    <3> HIDE DEF U
    <3> QED
      BY <2>1, <2>2, Induction
  <2> QED
    BY <1>2, <2>3
<1> DEFINE here == Len(flat) + 1
<1>9. place[1] = place[here]
  BY <1>2, <1>8 DEF flat
<1>10. /\ Len(flat) \in Nat /\ Len(rest) \in Nat /\ Len(command) \in Nat
       /\ Len(args) = Len(flat) + Len(rest)
       /\ \A i \in 1..Len(rest) : args[Len(flat) + i] = rest[i]
  BY <1>2, <1>4, <1>5
<1>11. CASE dashes = <<>>
  <2>1. rest = <<raw>> \o command
    BY <1>11, <1>4 DEF rest
  <2>2. Len(rest) = Len(command) + 1 /\ rest[1] = raw
    BY <1>4, <2>1
  <2>3. args[here] = raw /\ here \in 1..(Len(args) + 2) /\ ~(here > Len(args))
    BY <1>10, <2>2
  <2>4. place[here] = here
    BY <1>3, <1>6, <2>3 DEF Choice
  <2>5. here # 0
    BY <1>10
  <2> HIDE DEF here
  <2> QED
    BY <1>6, <1>9, <2>3, <2>4, <2>5 DEF args
<1>12. CASE dashes = <<<<"-", "-">>>>
  <2> DEFINE next == here + 1
             T == {i \in next..Len(args) : ~IsOption(args[i])}
  <2>1. Len(rest) = Len(command) + 2 /\ rest[1] = <<"-", "-">> /\ rest[2] = raw
    <3>1. <<raw>> \o command \in Seq(Texts) /\ Len(<<raw>> \o command) = Len(command) + 1
             /\ (<<raw>> \o command)[1] = raw
      BY <1>4
    <3> QED
      BY <1>12, <1>3, <1>4, <3>1 DEF rest
  <2>2. args[here] = <<"-", "-">> /\ here \in 1..(Len(args) + 2) /\ ~(here > Len(args))
    BY <1>10, <2>1
  <2>3. args[next] = raw /\ next \in next..Len(args) /\ next \in Nat /\ next # 0
    BY <1>10, <2>1
  <2>4. next \in T /\ T \subseteq Nat /\ \A i \in T : next <= i
    BY <2>3
  <2>5. NextHost(args, next) = IF T # {} THEN Min(T) ELSE 0
    BY DEF NextHost, SelectInSubSeq
  <2>6. NextHost(args, next) = next
    <3> HIDE DEF T, next
    <3> QED
      BY <2>4, <2>5, LeastIsMin
  <2>7. place[here] = next
    BY <1>6, <2>2, <2>6 DEF Choice
  <2> HIDE DEF here, next
  <2> QED
    BY <1>6, <1>9, <2>3, <2>7 DEF args
<1> QED
  BY <1>11, <1>12

-----------------------------------------------------------------------------
(* Texts stay texts *)

LEMMA MinIn ==
    ASSUME NEW T, T \subseteq Nat, T # {}
    PROVE  Min(T) \in T
<1>1. PICK x \in T : \A y \in T : x <= y
  BY LeastElement
<1> QED
  BY <1>1, LeastIsMin

LEMMA MaxIn ==
    ASSUME NEW n \in Nat, NEW T, T \subseteq 1..n, T # {}
    PROVE  Max(T) \in T
<1> DEFINE U == {m \in Nat : \A y \in T : y <= m}
<1>1. n \in U /\ U \subseteq Nat
  OBVIOUS
<1>2. PICK m \in U : \A y \in U : m <= y
  <2> HIDE DEF U
  <2> QED
    BY <1>1, LeastElement
<1>3. m \in Nat /\ \A y \in T : y <= m
  BY <1>2
<1>4. m \in T
  <2> SUFFICES ASSUME m \notin T PROVE FALSE
    OBVIOUS
  <2>1. PICK z \in T : z \in 1..n
    OBVIOUS
  <2>2. m - 1 \in Nat /\ \A y \in T : y <= m - 1
    BY <1>3, <2>1
  <2>3. m - 1 \in U
    BY <2>2
  <2> QED
    BY <1>2, <1>3, <2>3
<1>5. T \subseteq Nat
  OBVIOUS
<1> QED
  BY <1>3, <1>4, <1>5, GreatestIsMax

LEMMA SubText ==
    ASSUME NEW s \in Texts, NEW a \in 1..(Len(s) + 1), NEW b \in 0..Len(s)
    PROVE  SubSeq(s, a, b) \in Texts
<1>1. Len(s) \in Nat /\ \A i \in a..b : s[i] \in Symbol
  BY DEF Texts
<1> QED
  BY <1>1, SubSeqProperties DEF Texts

\* Where a symbol is first, and what is before it.
LEMMA BeforeFirstText ==
    ASSUME NEW s \in Texts, NEW x
    PROVE  /\ BeforeFirst(s, x) \in Texts
           /\ \A i \in 1..Len(BeforeFirst(s, x)) : BeforeFirst(s, x)[i] # x
<1> DEFINE T == {i \in 1..Len(s) : s[i] = x}
           first == IF T # {} THEN Min(T) ELSE 0
<1>1. BeforeFirst(s, x) = IF first = 0 THEN s ELSE SubSeq(s, 1, first - 1)
  BY DEF BeforeFirst, SelectInSeq
<1>2. Len(s) \in Nat
  BY DEF Texts
<1>3. CASE T = {}
  BY <1>1, <1>3
<1>4. CASE T # {}
  <2>1. T \subseteq Nat /\ \A i \in T : i \in 1..Len(s)
    BY <1>2
  <2>2. Min(T) \in T
    <3> HIDE DEF T
    <3> QED
      BY <1>4, <2>1, MinIn
  <2>3. \A i \in T : Min(T) <= i
    <3> HIDE DEF T
    <3>1. PICK y \in T : \A z \in T : y <= z
      BY <1>4, <2>1, LeastElement
    <3>2. Min(T) = y
      BY <2>1, <3>1, LeastIsMin
    <3> QED
      BY <3>1, <3>2
  <2> DEFINE m == Min(T)
             r == SubSeq(s, 1, m - 1)
  <2>4. m \in 1..Len(s) /\ \A i \in 1..(m - 1) : s[i] # x
    <3> SUFFICES ASSUME NEW i \in 1..(m - 1), s[i] = x PROVE FALSE
      BY <2>1, <2>2
    <3>1. m \in 1..Len(s)
      BY <2>1, <2>2
    <3> HIDE DEF m
    <3>2. i \in T
      BY <1>2, <3>1
    <3> QED
      BY <2>3, <3>1, <3>2 DEF m
  <2>5. first = m /\ first # 0
    BY <1>4, <2>4
  <2>6. BeforeFirst(s, x) = r
    BY <1>1, <2>5
  <2> HIDE DEF m, T, first
  <2>7. r \in Seq(Symbol) /\ Len(r) = m - 1 /\ \A i \in 1..(m - 1) : r[i] = s[i]
    BY <1>2, <2>4 DEF Texts
  <2> HIDE DEF r
  <2> QED
    BY <2>4, <2>6, <2>7 DEF Texts
<1> QED
  BY <1>3, <1>4

LEMMA ShortTwice ==
    ASSUME NEW s \in Texts
    PROVE  Short(s) \in Texts /\ Short(Short(s)) = Short(s)
BY BeforeFirstText, NoPort DEF Short

LEMMA LastBound ==
    ASSUME NEW s \in Texts, NEW T, T \subseteq 1..Len(s)
    PROVE  (IF T # {} THEN Max(T) ELSE 0) \in 0..Len(s)
<1>1. Len(s) \in Nat
  BY DEF Texts
<1>2. ASSUME T # {} PROVE Max(T) \in 1..Len(s)
  BY <1>1, <1>2, MaxIn
<1> QED
  BY <1>1, <1>2

LEMMA AfterLastText ==
    ASSUME NEW s \in Texts, NEW x
    PROVE  AfterLast(s, x) \in Texts
<1> DEFINE T == {i \in 1..Len(s) : s[i] = x}
           last == IF T # {} THEN Max(T) ELSE 0
<1>1. AfterLast(s, x) = SubSeq(s, last + 1, Len(s))
  BY DEF AfterLast, SelectLastInSeq
<1>2. last \in 0..Len(s)
  <2>1. T \subseteq 1..Len(s)
    OBVIOUS
  <2> HIDE DEF T
  <2> QED
    BY <2>1, LastBound
<1>3. Len(s) \in Nat
  BY DEF Texts
<1> HIDE DEF last
<1>4. last + 1 \in 1..(Len(s) + 1) /\ Len(s) \in 0..Len(s)
  BY <1>2, <1>3
<1> QED
  BY <1>1, <1>4, SubText

LEMMA UnquotedText ==
    ASSUME NEW s \in Texts
    PROVE  Unquoted(s) \in Texts
<1> DEFINE T == {i \in 1..Len(s) : s[i] \notin Quote}
           first == IF T # {} THEN Min(T) ELSE 0
           last == IF T # {} THEN Max(T) ELSE 0
<1>1. Unquoted(s) = IF first = 0 THEN <<>> ELSE SubSeq(s, first, last)
  BY Zenon DEF Unquoted, SelectInSeq, SelectLastInSeq
<1>2. T \subseteq 1..Len(s) /\ T \subseteq Nat /\ Len(s) \in Nat
  BY DEF Texts
<1> HIDE DEF T
<1>3. last \in 0..Len(s)
  BY <1>2, LastBound
<1>4. T # {} => Min(T) \in 1..Len(s)
  BY <1>2, MinIn
<1>5. first # 0 => first \in 1..(Len(s) + 1)
  BY <1>2, <1>4
<1> HIDE DEF first, last
<1>6. <<>> \in Texts
  BY EmptySeq DEF Texts
<1> QED
  BY <1>1, <1>3, <1>5, <1>6, SubText

LEMMA UnbracketedText ==
    ASSUME NEW s \in Texts
    PROVE  Unbracketed(s) \in Texts
<1>1. Len(s) \in Nat
  BY DEF Texts
<1>2. Len(s) > 1 => SubSeq(s, 2, Len(s) - 1) \in Texts
  BY <1>1, SubText
<1> QED
  BY <1>2 DEF Unbracketed

LEMMA LowerText ==
    ASSUME NEW s \in Texts
    PROVE  Lower(s) \in Texts
<1>1. DOMAIN s = 1..Len(s) /\ Len(s) \in Nat /\ \A i \in 1..Len(s) : s[i] \in Symbol
  BY DEF Texts
<1>2. \A w \in DOMAIN LowerCase : LowerCase[w] \in Symbol
  BY WordsAssumption DEF Symbol
<1> DEFINE L(i) == IF s[i] \in DOMAIN LowerCase THEN LowerCase[s[i]] ELSE s[i]
<1>3. \A i \in 1..Len(s) : L(i) \in Symbol
  BY <1>1, <1>2
<1>4. Lower(s) = [i \in 1..Len(s) |-> L(i)]
  BY <1>1 DEF Lower
<1> HIDE DEF L
<1> QED
  BY <1>1, <1>3, <1>4 DEF Texts

LEMMA NormalizedText ==
    ASSUME NEW s \in Texts
    PROVE  normalize_ssh_host(s) \in Texts /\ normalize_peer_hostname(s) \in Texts
<1>1. ASSUME NEW r \in Texts PROVE normalize_ssh_host(r) \in Texts
  <2> DEFINE host == Lower(BeforeFirst(Unbracketed(AfterLast(Unquoted(r), "@")), ":"))
  <2>1. host \in Texts
    BY UnquotedText, AfterLastText, UnbracketedText, BeforeFirstText, LowerText
  <2>2. <<>> \in Texts
    BY EmptySeq DEF Texts
  <2>3. normalize_ssh_host(r) = host \/ normalize_ssh_host(r) = <<>>
    BY DEF normalize_ssh_host
  <2> HIDE DEF host
  <2> QED
    BY <2>1, <2>2, <2>3
<1> DEFINE T == {i \in 1..Len(s) : s[i] # "."}
           last == IF T # {} THEN Max(T) ELSE 0
           trimmed == SubSeq(s, 1, last)
<1>2. last \in 0..Len(s)
  <2>1. T \subseteq 1..Len(s)
    OBVIOUS
  <2> HIDE DEF T
  <2> QED
    BY <2>1, LastBound
<1>3. normalize_peer_hostname(s) = Lower(trimmed)
      \/ normalize_peer_hostname(s) = normalize_ssh_host(trimmed)
  BY DEF normalize_peer_hostname, SelectLastInSeq
<1> HIDE DEF last
<1>4. trimmed \in Texts
  <2>1. 1 \in 1..(Len(s) + 1)
    BY DEF Texts
  <2> QED
    BY <1>2, <2>1, SubText
<1> HIDE DEF trimmed
<1> QED
  BY <1>1, <1>3, <1>4, LowerText

\* What is read is one of the words, normalized, or nothing.
LEMMA ReadText ==
    ASSUME NEW args \in Seq(Texts)
    PROVE  extract_ssh_destination_host(args) \in Texts
<1>1. Len(args) \in Nat /\ \A i \in 1..Len(args) : args[i] \in Texts
  OBVIOUS
<1>2. PICK place :
          /\ \A i \in 1..(Len(args) + 2) : place[i] = Choice(args, place, i)
          /\ extract_ssh_destination_host(args) =
                 IF place[1] = 0 THEN <<>> ELSE normalize_ssh_host(args[place[1]])
  BY <1>1, Place
<1> DEFINE n == Len(args) + 2
           Bounded(j) == \A i \in j..n : place[i] \in 0..Len(args)
           U == {k \in Nat : k < n => Bounded(n - k)}
<1>3. \A i \in Nat : NextHost(args, i) \in 0..Len(args)
  <2> SUFFICES ASSUME NEW i \in Nat PROVE NextHost(args, i) \in 0..Len(args)
    OBVIOUS
  <2> DEFINE T == {j \in i..Len(args) : ~IsOption(args[j])}
  <2>1. NextHost(args, i) = IF T # {} THEN Min(T) ELSE 0
    BY DEF NextHost, SelectInSubSeq
  <2>2. T \subseteq Nat /\ \A j \in T : j \in 0..Len(args)
    BY <1>1
  <2> HIDE DEF T
  <2>3. T # {} => Min(T) \in 0..Len(args)
    BY <2>2, MinIn
  <2> QED
    BY <1>1, <2>1, <2>3
<1>4. 0 \in U
  <2>1. Choice(args, place, n) = 0
    BY <1>1 DEF Choice
  <2>2. \A i \in n..n : place[i] = 0
    BY <1>1, <1>2, <2>1
  <2> QED
    BY <1>1, <2>2
<1>5. ASSUME NEW k \in Nat, k \in U PROVE k + 1 \in U
  <2> SUFFICES ASSUME k + 1 < n PROVE Bounded(n - (k + 1))
    <3> HIDE DEF Bounded, n
    <3> QED
      OBVIOUS
  <2> DEFINE j == n - (k + 1)
  <2>1. j \in 1..n /\ n - k = j + 1 /\ n \in Nat /\ k < n
    BY <1>1
  <2>2. Bounded(j + 1)
    <3> HIDE DEF Bounded, j, n
    <3> QED
      BY <1>5, <2>1
  <2>3. place[j] = Choice(args, place, j)
    BY <1>2, <2>1
  <2>4. Choice(args, place, j) \in 0..Len(args)
    <3>1. CASE j > Len(args)
      BY <1>1, <3>1 DEF Choice
    <3>2. CASE ~(j > Len(args))
      <4>1. j + 1 \in (j + 1)..n /\ j + 2 \in (j + 1)..n /\ j \in 0..Len(args) /\ j + 1 \in Nat
        BY <1>1, <2>1, <3>2
      <4>2. place[j + 1] \in 0..Len(args) /\ place[j + 2] \in 0..Len(args)
        BY <2>2, <4>1
      <4>3. NextHost(args, j + 1) \in 0..Len(args)
        BY <1>3, <4>1
      <4> HIDE DEF j
      <4> QED
        BY <3>2, <4>1, <4>2, <4>3 DEF Choice
    <3> QED
      BY <3>1, <3>2
  <2>5. ASSUME NEW i \in j..n PROVE place[i] \in 0..Len(args)
    <3>1. i = j \/ i \in (j + 1)..n
      BY <2>1
    <3> QED
      BY <2>2, <2>3, <2>4, <3>1
  <2> QED
    BY <2>5
<1>6. n - 1 \in U
  <2>1. \A k \in Nat : k \in U
    <3> HIDE DEF U
    <3> QED
      BY <1>4, <1>5, Induction
  <2>2. n - 1 \in Nat
    BY <1>1
  <2> HIDE DEF U, n
  <2> QED
    BY <2>1, <2>2
<1>7. place[1] \in 0..Len(args)
  <2>1. n - 1 < n /\ n - (n - 1) = 1 /\ 1 \in 1..n
    BY <1>1
  <2>2. Bounded(1)
    <3> HIDE DEF n, Bounded
    <3> QED
      BY <1>6, <2>1
  <2> QED
    BY <2>1, <2>2
<1>8. place[1] # 0 => args[place[1]] \in Texts
  BY <1>1, <1>7
<1>9. <<>> \in Texts
  BY EmptySeq DEF Texts
<1> QED
  BY <1>2, <1>8, <1>9, NormalizedText

-----------------------------------------------------------------------------
(* Command lines *)

\* The command line's parts as texts.
LEMMA LineTexts ==
    ASSUME NEW c \in CommandLine
    PROVE  /\ IsCommandLine(c)
           /\ c.user \in Texts /\ c.typed \in Texts
           /\ c.options \in Seq(Seq(Texts)) /\ c.command \in Seq(Texts)
           /\ Raw(c) \in Texts
<1>1. IsCommandLine(c)
  BY CommandLineAssumption
<1>2. Strings \subseteq Texts
  BY SeqMonotonic DEF Strings, Texts, Symbol
<1>3. Seq(Strings) \subseteq Seq(Texts)
  BY <1>2, SeqMonotonic
<1>4. Seq(Seq(Strings)) \subseteq Seq(Seq(Texts))
  BY <1>3, SeqMonotonic
<1>5. c.user \in Texts /\ c.typed \in Texts
  BY <1>1, <1>2 DEF IsCommandLine, IsDestination
<1>6. c.options \in Seq(Seq(Texts)) /\ c.command \in Seq(Texts)
  BY <1>1, <1>3, <1>4 DEF IsCommandLine
<1>7. Raw(c) \in Texts
  <2>1. c.quote \in Seq(Symbol)
    <3>1. <<>> \in Seq(Symbol) /\ \A q \in Quote : <<q>> \in Seq(Symbol)
      BY EmptySeq DEF Symbol
    <3> QED
      BY <1>1, <3>1 DEF IsCommandLine
  <2>2. c.user \o c.typed \in Seq(Symbol)
    BY <1>5, ConcatProperties DEF Texts
  <2>3. c.quote \o (c.user \o c.typed) \in Seq(Symbol)
    BY <2>1, <2>2, ConcatProperties
  <2>4. (c.quote \o (c.user \o c.typed)) \o c.quote \in Seq(Symbol)
    BY <2>1, <2>3, ConcatProperties
  <2> QED
    BY <2>4 DEF Raw, Texts
<1> QED
  BY <1>1, <1>5, <1>6, <1>7

\* The destination of a legible command line, quoted or not.
LEMMA RawIsRead ==
    ASSUME NEW c \in CommandLine, Legible(c)
    PROVE  /\ normalize_ssh_host(Raw(c)) = Lower(c.typed)
           /\ ~IsOption(Raw(c))
<1> DEFINE u == c.user
           t == c.typed
           s == u \o t
<1>1. IsCommandLine(c) /\ u \in Texts /\ t \in Texts
  BY LineTexts
<1>2. IsDestination(u, t)
  BY <1>1 DEF IsCommandLine
<1>3. HostName(t)
  BY <1>1, <1>2 DEF IsDestination, HostName, Legible
<1>4. (u = <<>> \/ u[Len(u)] = "@") /\ \A i \in 1..Len(u) : u[i] \notin Quote
  BY DEF Legible, Last
<1>5. Raw(c) = c.quote \o s \o c.quote
  BY DEF Raw
<1>6. s \in Seq(Symbol) /\ Head(s) # "-"
  BY <1>1, <1>2, ConcatProperties DEF IsDestination, Texts
<1>7. /\ normalize_ssh_host(s) = Lower(t)
      /\ \A q \in Quote : normalize_ssh_host(<<q>> \o s \o <<q>>) = Lower(t)
  <2> HIDE DEF u, t
  <2>1. \A q \in Quote : /\ normalize_ssh_host(u \o t) = Lower(t)
                         /\ normalize_ssh_host(<<q>> \o (u \o t) \o <<q>>) = Lower(t)
    BY <1>1, <1>3, <1>4, Unadorned
  <2>2. "'" \in Quote
    BY DEF Quote
  <2> QED
    BY <2>1, <2>2
<1> HIDE DEF s, u, t
<1>8. CASE c.quote = <<>>
  <2>1. <<>> \o s \o <<>> = s
    BY <1>6, ConcatEmptySeq
  <2> QED
    BY <1>5, <1>6, <1>7, <1>8, <2>1 DEF t, IsOption
<1>9. ASSUME NEW q \in Quote, c.quote = <<q>>
      PROVE  normalize_ssh_host(Raw(c)) = Lower(c.typed) /\ ~IsOption(Raw(c))
  <2>1. q \in Symbol /\ q # "-"
    BY DEF Symbol, Quote
  <2>2. Head(<<q>> \o s \o <<q>>) = q
    BY <1>6, <2>1
  <2> QED
    BY <1>5, <1>7, <1>9, <2>1, <2>2 DEF t, IsOption
<1> QED
  BY <1>1, <1>8, <1>9 DEF IsCommandLine

\* A legible option takes from the arguments what the loop passes.
LEMMA OptionIsPassed ==
    ASSUME NEW o, IsOptionGroup(o), LegibleOption(o)
    PROVE  IsGroup(o)
<1>1. ASSUME Len(o) = 1, o[1] \notin {<<"-", x>> : x \in SshTakesValue}
      PROVE  ~ssh_option_takes_value(o[1])
  BY <1>1 DEF SshTakesValue, ssh_option_takes_value
<1>2. ASSUME o[1] \in {<<"-", x>> : x \in SshTakesValue \ {"B", "P"}}
      PROVE  ssh_option_takes_value(o[1])
  BY <1>2 DEF SshTakesValue, ssh_option_takes_value
<1> QED
  BY <1>1, <1>2 DEF LegibleOption, IsOptionGroup, IsGroup

\* From a legible command line of ssh's grammar, discovery reads the host that
\* ssh goes to.
THEOREM DestinationIsRead ==
    ASSUME NEW c \in CommandLine, Legible(c)
    PROVE  extract_ssh_destination_host(Args(c)) = Lower(c.typed) /\ Lower(c.typed) # <<>>
<1> DEFINE raw == Raw(c)
           dashes == IF c.dashes THEN <<<<"-", "-">>>> ELSE <<>>
<1>1. /\ normalize_ssh_host(raw) = Lower(c.typed)
      /\ raw \in Texts /\ ~IsOption(raw)
      /\ c.options \in Seq(Seq(Texts)) /\ c.command \in Seq(Texts)
  BY LineTexts, RawIsRead
<1>2. \A i \in 1..Len(c.options) : IsGroup(c.options[i])
  BY LineTexts, OptionIsPassed DEF IsCommandLine, Legible
<1> HIDE DEF raw
<1>3. dashes \in {<<>>, <<<<"-", "-">>>>}
  OBVIOUS
<1>4. Args(c) = FlattenSeq(c.options) \o dashes \o <<raw>> \o c.command
  BY DEF Args, raw
<1> HIDE DEF dashes
<1>5. extract_ssh_destination_host(Args(c)) = Lower(c.typed)
  BY <1>1, <1>2, <1>3, <1>4, Destination
<1>6. Lower(c.typed) # <<>>
  <2>1. c.typed \in Texts /\ c.typed # <<>>
    BY LineTexts DEF IsCommandLine, IsDestination
  <2>2. 1 \in DOMAIN c.typed
    BY <2>1 DEF Texts
  <2>3. DOMAIN Lower(c.typed) = DOMAIN c.typed
    BY DEF Lower
  <2> QED
    BY <2>2, <2>3
<1> QED
  BY <1>5, <1>6

\* Every key is a text: a name, or what is read in a command line.
LEMMA KeysAreTexts == \A k \in Key : k \in Texts
<1>1. Strings \subseteq Texts
  BY SeqMonotonic DEF Strings, Texts, Symbol
<1>2. \A k \in Name : k \in Texts
  <2>1. \A m \in Machine : Names[m] \subseteq Strings
    BY NamesAssumption
  <2>2. SelfNames \subseteq Strings
    BY NamesAssumption
  <2>3. ASSUME NEW k \in Name, k \notin SelfNames PROVE k \in Texts
    <3>1. k \in UNION {Names[m] : m \in Machine}
      BY <2>3 DEF Name
    <3>2. PICK m \in Machine : k \in Names[m]
      BY ONLY <3>1
    <3> QED
      BY <1>1, <2>1, <3>2
  <2> QED
    BY <1>1, <2>2, <2>3
<1>3. ASSUME NEW c \in CommandLine PROVE extract_ssh_destination_host(Args(c)) \in Texts
  <2> DEFINE flat == FlattenSeq(c.options)
             dashes == IF c.dashes THEN <<<<"-", "-">>>> ELSE <<>>
  <2>1. /\ c.options \in Seq(Seq(Texts)) /\ c.command \in Seq(Texts) /\ Raw(c) \in Texts
    BY LineTexts
  <2>2. flat \in Seq(Texts)
    <3>1. PICK f \in [0..Len(c.options) -> Seq(Texts)] : FlattenSeq(c.options) = f[Len(c.options)]
      BY <2>1, FlattenPrefixes
    <3>2. Len(c.options) \in 0..Len(c.options)
      BY <2>1
    <3> QED
      BY <3>1, <3>2
  <2>3. dashes \in Seq(Texts)
    <3>1. <<"-", "-">> \in Texts
      BY DEF Texts, Symbol
    <3>2. \A a \in Texts : <<a>> \in Seq(Texts)
      OBVIOUS
    <3> QED
      BY <3>1, <3>2, EmptySeq
  <2>4. Args(c) = flat \o dashes \o <<Raw(c)>> \o c.command
    BY DEF Args
  <2> HIDE DEF flat, dashes
  <2>5. <<Raw(c)>> \in Seq(Texts)
    BY <2>1
  <2>6. flat \o dashes \in Seq(Texts)
    BY <2>2, <2>3, ConcatProperties
  <2>7. flat \o dashes \o <<Raw(c)>> \in Seq(Texts)
    BY <2>5, <2>6, ConcatProperties
  <2>8. flat \o dashes \o <<Raw(c)>> \o c.command \in Seq(Texts)
    BY <2>1, <2>7, ConcatProperties
  <2> QED
    BY <2>4, <2>8, ReadText
<1>4. \A p \in Listing : p.key \in Texts
  BY <1>3 DEF Listing
<1> QED
  BY <1>2, <1>4 DEF Key

-----------------------------------------------------------------------------
(* Data *)

Uncounted(p) == IF p.inbound_connections > 0 THEN p.inbound_connections - 1 ELSE 0

\* What the counters do to an entry.
LEMMA Counters ==
    ASSUME NEW p \in PeerState
    PROVE  /\ Joined(p) \in PeerState /\ Joined(p).inbound_connections = p.inbound_connections
           /\ Entered(p) \in PeerState
           /\ Entered(p).inbound_connections = p.inbound_connections + 1
           /\ Exited(p) \in PeerState
           /\ Exited(p).inbound_connections = Uncounted(p)
<1>1. p.session_count \in Nat /\ p.inbound_connections \in Nat
  BY DEF PeerState
<1>2. p.connected \in BOOLEAN /\ p.probe_failed \in BOOLEAN
  BY DEF PeerState
<1>3. Joined(p) \in PeerState /\ Joined(p).inbound_connections = p.inbound_connections
  <2> DEFINE n == p.session_count + 1
  <2>1. n \in Nat /\ Joined(p) = [p EXCEPT !.session_count = n]
    BY <1>1 DEF Joined
  <2> HIDE DEF n
  <2> QED
    BY <2>1 DEF PeerState
<1>4. Entered(p) \in PeerState /\ Entered(p).inbound_connections = p.inbound_connections + 1
  <2> DEFINE n == p.inbound_connections + 1
             q == [p EXCEPT !.inbound_connections = n]
  <2>1. n \in Nat
    BY <1>1
  <2>2. Entered(p) = [q EXCEPT !.probe_failed = FALSE]
    BY DEF Entered
  <2> HIDE DEF n
  <2>3. q \in PeerState /\ q.inbound_connections = n
    BY <2>1 DEF PeerState
  <2> HIDE DEF q
  <2>4. Entered(p) \in PeerState /\ Entered(p).inbound_connections = n
    BY <2>2, <2>3 DEF PeerState
  <2> QED
    BY <2>4 DEF n
<1>5. Exited(p) \in PeerState /\ Exited(p).inbound_connections = Uncounted(p)
  <2>1. Uncounted(p) \in Nat /\ Exited(p) = [p EXCEPT !.inbound_connections = Uncounted(p)]
    BY <1>1 DEF Uncounted, Exited
  <2> QED
    BY <2>1 DEF PeerState
<1> QED
  BY <1>3, <1>4, <1>5

\* What the outbound half does to an entry.
LEMMA OutboundCounters ==
    ASSUME NEW p \in PeerState
    PROVE  /\ p.session_count > 0 =>
                  Left(p) \in PeerState /\ Left(p).inbound_connections = p.inbound_connections
           /\ \A up, refused \in BOOLEAN :
                  /\ Probed(p, up, refused) \in PeerState
                  /\ Probed(p, up, refused).inbound_connections = p.inbound_connections
<1>1. ASSUME p.session_count > 0
      PROVE  Left(p) \in PeerState /\ Left(p).inbound_connections = p.inbound_connections
  <2> DEFINE n == p.session_count - 1
             b == p.connected /\ p.session_count > 1
             q == [p EXCEPT !.session_count = n]
  <2>1. n \in Nat /\ b \in BOOLEAN
    BY <1>1 DEF PeerState
  <2>2. Left(p) = [q EXCEPT !.connected = b]
    BY DEF Left
  <2> HIDE DEF n, b
  <2>3. q \in PeerState /\ q.inbound_connections = p.inbound_connections
    BY <2>1 DEF PeerState
  <2> HIDE DEF q
  <2> QED
    BY <2>1, <2>2, <2>3 DEF PeerState
<1>2. ASSUME NEW up \in BOOLEAN, NEW refused \in BOOLEAN
      PROVE  /\ Probed(p, up, refused) \in PeerState
             /\ Probed(p, up, refused).inbound_connections = p.inbound_connections
  BY DEF Probed, PeerState
<1> QED
  BY <1>1, <1>2

\* A changed or new entry leaves the other entries alone.
LEMMA WithPeerState ==
    ASSUME Shaped, NEW k, NEW p \in PeerState
    PROVE  /\ DOMAIN WithPeer(k, p) = Known \cup {k}
           /\ WithPeer(k, p) \in [Known \cup {k} -> PeerState]
           /\ \A x \in Known \cup {k} : WithPeer(k, p)[x] = IF x = k THEN p ELSE peers[x]
BY DEF Shaped, WithPeer

LEMMA EntryState ==
    ASSUME Shaped, NEW k
    PROVE  /\ Entry(k) \in PeerState
           /\ Joined(Entry(k)) \in PeerState
           /\ Joined(Entry(k)).inbound_connections = Entry(k).inbound_connections
           /\ Entered(Entry(k)) \in PeerState
           /\ Entered(Entry(k)).inbound_connections = Entry(k).inbound_connections + 1
           /\ Entry(k).inbound_connections =
                  IF k \in Known THEN peers[k].inbound_connections ELSE 0
<1>1. Entry(k) \in PeerState
  BY DEF Shaped, Entry, NewPeer, PeerState
<1>2. Entry(k).inbound_connections = IF k \in Known THEN peers[k].inbound_connections ELSE 0
  BY DEF Entry, NewPeer
<1> QED
  BY <1>1, <1>2, Counters

\* The names of a machine are keys.
LEMMA NamesAreKeys ==
    ASSUME NEW m \in Machine
    PROVE  Names[m] \subseteq Key /\ Ip[m] \in Names[m] /\ PtrName[m] \in Names[m]
BY NamesAssumption DEF Key, Name, PtrName

\* The keys that match what reverse DNS says of a machine are those with its first
\* label.
LEMMA MatchingIsSound ==
    ASSUME NEW m \in Machine
    PROVE  /\ \A k \in Key : Label(k) = Label(Ptr[m]) => k \in MatchingKeys[m]
           /\ \A k \in MatchingKeys[m] : k \in Key /\ Fits(k, m)
           /\ Fits(PtrName[m], m)
<1> DEFINE name == normalize_peer_hostname(Ptr[m])
<1>1. MatchingKeys[m] = {k \in Key : SameHost(k, name)}
  BY DEF MatchingKeys, PtrName
<1>2. name \in Texts
  BY NamesAssumption, NamesAreKeys, KeysAreTexts DEF PtrName
<1>3. ASSUME NEW k \in Key, Label(k) = Label(Ptr[m]) PROVE SameHost(k, name)
  BY <1>3 DEF SameHost, Label
<1>4. ASSUME NEW k \in Key, SameHost(k, name) PROVE Label(k) = Label(Ptr[m])
  <2> DEFINE known == normalize_peer_hostname(k)
  <2>1. known \in Texts
    BY KeysAreTexts, NormalizedText
  <2>2. Short(Short(known)) = Short(known) /\ Short(Short(name)) = Short(name)
    BY <1>2, <2>1, ShortTwice
  <2>3. \/ known = name \/ Short(known) = name
        \/ known = Short(name) \/ Short(known) = Short(name)
    BY <1>4 DEF SameHost
  <2> HIDE DEF known, name
  <2>4. Short(known) = Short(name)
    BY <2>2, <2>3
  <2> QED
    BY <2>4 DEF known, name, Label
<1> HIDE DEF name
<1> QED
  BY <1>1, <1>3, <1>4, NamesAreKeys DEF Fits

LEMMA LiveFinite ==
    ASSUME NEW k
    PROVE  IsFiniteSet(Live(k)) /\ Cardinality(Live(k)) \in Nat
BY ConnectionAssumption, FS_Subset, FS_CardinalityType DEF Live

-----------------------------------------------------------------------------
(* Steps *)

LEMMA InitSound == Init => Sound
<1> SUFFICES ASSUME Init PROVE Sound
  OBVIOUS
<1>1. Known = {}
  BY DEF Init, Known
<1>2. Shaped
  BY <1>1 DEF Init, Shaped, ConnState, Closed, IdleJob
<1>3. Resolving
  BY DEF Init, Resolving, Owned, Attributed, Chosen, AttributedByLabel, AddressFound,
         KnownHostKeepsItsEntry, Closed, IdleJob
<1>4. InboundIsCounted
  BY <1>1 DEF Init, InboundIsCounted, Closed
<1> QED
  BY <1>2, <1>3, <1>4 DEF Sound

\* Sessions and outbound connections may enter keys, and count no inbound
\* connection.
LEMMA RegistryStep ==
    ASSUME Sound, UNCHANGED <<backlog, job, conn>>, Known \subseteq Known',
           peers' \in [Known' -> PeerState],
           \A k \in Known' : peers'[k].inbound_connections =
                                 IF k \in Known THEN peers[k].inbound_connections ELSE 0
    PROVE  Sound'
<1>1. Shaped'
  BY DEF Sound, Shaped
<1>2. Resolving'
  BY DEF Sound, Resolving, Owned, Attributed, Chosen, AttributedByLabel, AddressFound,
         KnownHostKeepsItsEntry, Caller
<1>3. InboundIsCounted'
  <2>1. \A c \in Connection : conn'[c].stage \in {"receiving", "cleaning"} => conn'[c].key \in Known'
    BY DEF Sound, InboundIsCounted
  <2>2. ASSUME NEW k \in Known' PROVE peers'[k].inbound_connections = Cardinality(Live(k)')
    <3>1. Live(k)' = Live(k)
      BY DEF Live
    <3>2. CASE k \in Known
      BY <3>1, <3>2 DEF Sound, InboundIsCounted
    <3>3. CASE k \notin Known
      <4>1. Live(k) = {}
        BY <3>3 DEF Sound, InboundIsCounted, Live
      <4> QED
        BY <3>1, <3>3, <4>1, FS_EmptySet
    <3> QED
      BY <3>2, <3>3
  <2> QED
    BY <2>1, <2>2 DEF InboundIsCounted
<1> QED
  BY <1>1, <1>2, <1>3 DEF Sound

LEMMA SessionSteps ==
    ASSUME Sound,
           \/ \E k \in Name : NotifySession(k)
           \/ \E k \in Key : Outbound(k)
           \/ \E p \in Listing : Discover(p)
    PROVE  Sound'
<1> USE DEF Sound
<1>1. ASSUME NEW k, peers' = WithPeer(k, Joined(Entry(k))), UNCHANGED <<backlog, job, conn>>
      PROVE  Sound'
  <2>1. DOMAIN peers' = Known \cup {k} /\ peers' \in [Known \cup {k} -> PeerState]
    BY <1>1, WithPeerState, EntryState
  <2>2. Known' = Known \cup {k}
    BY <2>1 DEF Known
  <2>3. \A x \in Known' : peers'[x] = IF x = k THEN Joined(Entry(k)) ELSE peers[x]
    BY <1>1, <2>2, WithPeerState, EntryState
  <2>4. \A x \in Known' : peers'[x].inbound_connections =
                              IF x \in Known THEN peers[x].inbound_connections ELSE 0
    BY <2>2, <2>3, EntryState
  <2> QED
    BY <1>1, <2>1, <2>2, <2>4, RegistryStep
<1>2. ASSUME UNCHANGED <<peers, backlog, job, conn>> PROVE Sound'
  BY <1>2, RegistryStep DEF Known, Shaped
<1>3. ASSUME NEW k, Outbound(k) PROVE Sound'
  <2> DEFINE p == peers[k]
  <2>1. k \in Known /\ p \in PeerState
    BY <1>3 DEF Shaped, Outbound
  <2>2. PICK q \in PeerState : /\ peers' = [peers EXCEPT ![k] = q]
                               /\ q.inbound_connections = p.inbound_connections
    BY <1>3, <2>1, OutboundCounters DEF Outbound
  <2>3. DOMAIN peers' = Known /\ peers' \in [Known -> PeerState]
    BY <2>2 DEF Shaped
  <2>4. \A x \in Known : peers'[x].inbound_connections = peers[x].inbound_connections
    BY <2>1, <2>2 DEF Shaped
  <2>5. Known' = Known
    BY <2>3 DEF Known
  <2> QED
    BY <1>3, <2>3, <2>4, <2>5, RegistryStep DEF Outbound
<1> QED
  BY <1>1, <1>2, <1>3 DEF NotifySession, Discover

-----------------------------------------------------------------------------
(* The accept loop resolves a key *)

\* Only the job changes: the loop finds a key or asks on.
LEMMA JobStep ==
    ASSUME Sound, UNCHANGED <<peers, backlog, conn>>, Shaped', Resolving'
    PROVE  Sound'
BY DEF Sound, InboundIsCounted, Live, Known

LEMMA LookupSound == ASSUME Sound, NEW k \in Key, Lookup(k) PROVE Sound'
<1> DEFINE m == Caller
<1>1. job.conn \in Connection /\ conn[job.conn].stage = "resolving" /\ m \in Machine
  BY DEF Sound, Resolving, Owned, Lookup, Caller
<1>2. Shaped'
  BY DEF Sound, Shaped, Lookup, Known
<1>3. CASE k \in Names[m] /\ job' = [job EXCEPT !.stage = "resolved", !.key = k, !.todo = {}]
  <2>1. job'.stage = "resolved" /\ job'.key = k /\ job'.conn = job.conn /\ job'.known = job.known
    BY <1>3 DEF Sound, Shaped
  <2>2. k \in Known
    BY DEF Sound, Shaped, Lookup
  <2>3. Caller' = m /\ Known' = Known
    BY <2>1 DEF Lookup, Known, Caller
  <2>4. Owned'
    BY <1>1, <2>1 DEF Sound, Resolving, Owned, Lookup
  <2>5. Attributed' /\ AddressFound' /\ KnownHostKeepsItsEntry'
    BY <1>3, <2>1, <2>2, <2>3 DEF Sound, Resolving, Attributed, Chosen, AttributedByLabel, AddressFound,
       KnownHostKeepsItsEntry, Lookup, Fits
  <2> QED
    BY <1>2, <2>4, <2>5, JobStep DEF Resolving, Lookup
<1>4. CASE k # Ip[m] /\ job' = [job EXCEPT !.todo = @ \ {k}]
  <2>1. job'.stage = "forward" /\ job'.conn = job.conn /\ job'.known = job.known
        /\ job'.todo = job.todo \ {k}
    BY <1>4 DEF Sound, Shaped, Lookup
  <2>2. Caller' = m
    BY <2>1 DEF Lookup, Caller
  <2>3. Owned'
    BY <1>1, <2>1 DEF Sound, Resolving, Owned, Lookup
  <2>4. Attributed' /\ AddressFound' /\ KnownHostKeepsItsEntry'
    BY <1>4, <2>1, <2>2 DEF Sound, Resolving, Attributed, Chosen, AttributedByLabel, AddressFound,
       KnownHostKeepsItsEntry, Lookup
  <2> QED
    BY <1>2, <2>3, <2>4, JobStep DEF Resolving, Lookup
<1> QED
  BY <1>3, <1>4 DEF Lookup

LEMMA ReverseLookupSound == ASSUME Sound, ReverseLookup PROVE Sound'
<1> DEFINE m == Caller
<1>1. job.conn \in Connection /\ conn[job.conn].stage = "resolving" /\ m \in Machine
  BY DEF Sound, Resolving, Owned, ReverseLookup, Caller
<1>2. Ip[m] \in Key /\ Ip[m] \in Names[m]
  BY <1>1, NamesAreKeys
<1>3. Ip[m] \notin job.known
  BY DEF Sound, Resolving, AddressFound, ReverseLookup
<1>4. job'.conn = job.conn /\ job'.known = job.known /\ Caller' = m
  BY DEF Sound, Shaped, ReverseLookup, Caller
<1>5. Shaped'
  BY <1>2 DEF Sound, Shaped, ReverseLookup, Known
<1>6. job'.stage = "match" \/ (job'.stage = "resolved" /\ job'.key = Ip[m])
  BY DEF Sound, Shaped, ReverseLookup
<1>7. Owned'
  BY <1>1, <1>4 DEF Sound, Resolving, Owned, ReverseLookup
<1>8. Attributed' /\ AddressFound' /\ KnownHostKeepsItsEntry'
  BY <1>2, <1>3, <1>4, <1>6 DEF Sound, Resolving, Attributed, Chosen, AttributedByLabel, AddressFound,
     KnownHostKeepsItsEntry, ReverseLookup, Fits
<1> QED
  BY <1>5, <1>7, <1>8, JobStep DEF Resolving, ReverseLookup

LEMMA MatchKnownSound == ASSUME Sound, MatchKnown PROVE Sound'
<1> DEFINE m == Caller
           matching == Known \cap MatchingKeys[m]
<1>1. job.conn \in Connection /\ conn[job.conn].stage = "resolving" /\ m \in Machine
  BY DEF Sound, Resolving, Owned, MatchKnown, Caller
<1>2. PICK k \in (IF matching = {} THEN {PtrName[m]} ELSE matching) :
          job' = [job EXCEPT !.stage = "resolved", !.key = k]
  BY DEF MatchKnown
<1>3. Fits(k, m) /\ k \in Key \cap (Known \cup Names[m])
  BY <1>1, <1>2, MatchingIsSound, NamesAreKeys
\* A key known at the accept is another name than the address, and still there.
<1>4. (\E n \in job.known \cap Names[m] : n = Ip[m] \/ Label(n) = Label(Ptr[m])) => k \in Known
  <2>1. ASSUME NEW n \in job.known \cap Names[m], n = Ip[m] \/ Label(n) = Label(Ptr[m])
        PROVE  n \in matching
    <3>1. n # Ip[m]
      BY <2>1 DEF Sound, Resolving, AddressFound, MatchKnown
    <3>2. n \in MatchingKeys[m]
      BY <1>1, <2>1, <3>1, MatchingIsSound, NamesAreKeys
    <3> QED
      BY <2>1, <3>2 DEF Sound, Shaped
  <2> QED
    BY <1>2, <2>1
<1>5. job'.stage = "resolved" /\ job'.key = k /\ job'.conn = job.conn /\ job'.known = job.known
  BY <1>2 DEF Sound, Shaped
<1>6. Caller' = m /\ Known' = Known
  BY <1>5 DEF MatchKnown, Caller, Known
<1>7. Shaped'
  BY <1>2, <1>3 DEF Sound, Shaped, MatchKnown, Known
<1>8. Owned'
  BY <1>1, <1>5 DEF Sound, Resolving, Owned, MatchKnown
<1>9. Attributed' /\ AddressFound' /\ KnownHostKeepsItsEntry'
  BY <1>3, <1>4, <1>5, <1>6 DEF Sound, Resolving, Attributed, Chosen, AttributedByLabel, AddressFound,
     KnownHostKeepsItsEntry, MatchKnown
<1> QED
  BY <1>7, <1>8, <1>9, JobStep DEF Resolving, MatchKnown

-----------------------------------------------------------------------------
(* Connections *)

\* Steps that leave the registry and the live connections alone.
LEMMA ConnectionStep ==
    ASSUME Sound, UNCHANGED peers, Shaped', Owned', AddressFound', KnownHostKeepsItsEntry',
           job'.stage = "resolved" => Chosen',
           \A c \in Connection :
               /\ conn'[c].stage \in {"receiving", "cleaning"}
                      <=> conn[c].stage \in {"receiving", "cleaning"}
               /\ conn[c].stage \in {"receiving", "cleaning"} =>
                      conn'[c].key = conn[c].key /\ conn'[c].from = conn[c].from
    PROVE  Sound'
<1>1. AttributedByLabel'
  BY DEF Sound, Resolving, Attributed, Chosen, AttributedByLabel
<1>2. \A k : Live(k)' = Live(k)
  BY DEF Live
<1>3. InboundIsCounted'
  BY <1>2 DEF Sound, InboundIsCounted, Known
<1> QED
  BY <1>1, <1>3 DEF Sound, Resolving, Attributed, Chosen, Caller

LEMMA PeerConnectsSound ==
    ASSUME Sound, NEW c \in Connection, NEW m \in Machine, PeerConnects(c, m) PROVE Sound'
<1>1. conn' = [conn EXCEPT ![c] = [stage |-> "queued", from |-> m, key |-> NoKey]]
      /\ backlog' = Append(backlog, c) /\ conn[c].stage = "closed"
      /\ UNCHANGED <<peers, job>> /\ Known' = Known
  BY DEF PeerConnects, Known
<1>2. Shaped'
  BY <1>1 DEF Sound, Shaped, ConnState
<1>3. conn'[c] = [stage |-> "queued", from |-> m, key |-> NoKey]
      /\ \A d \in Connection \ {c} : conn'[d] = conn[d]
  BY <1>1 DEF Sound, Shaped
<1>4. job.stage # "idle" => job.conn \in Connection \ {c} /\ Caller' = Caller
  BY <1>1, <1>3 DEF Sound, Resolving, Owned, Caller
<1>5. Owned'
  <2>1. Len(backlog') = Len(backlog) + 1 /\ Len(backlog) \in Nat
        /\ \A i \in 1..Len(backlog) : backlog'[i] = backlog[i] /\ backlog[i] \in Connection \ {c}
        /\ backlog'[Len(backlog) + 1] = c
    BY <1>1 DEF Sound, Shaped, Resolving, Owned
  <2>2. ASSUME NEW i \in 1..Len(backlog') PROVE conn'[backlog'[i]].stage = "queued"
    <3>1. CASE i = Len(backlog) + 1
      <4>1. backlog'[i] = c
        BY <1>1, <3>1 DEF Sound, Shaped
      <4> QED
        BY <1>3, <4>1
    <3>2. CASE i \in 1..Len(backlog)
      BY <1>3, <2>1, <3>2 DEF Sound, Resolving, Owned
    <3> QED
      BY <2>1, <3>1, <3>2
  <2>3. \A i, j \in 1..Len(backlog') : backlog'[i] = backlog'[j] => i = j
    BY <2>1 DEF Sound, Resolving, Owned
  <2>4. \A d \in Connection : conn'[d].stage # "closed" => conn'[d].from \in Machine
    BY <1>3 DEF Sound, Resolving, Owned
  <2> QED
    BY <1>1, <1>3, <1>4, <2>2, <2>3, <2>4 DEF Sound, Resolving, Owned
<1>6. AddressFound' /\ KnownHostKeepsItsEntry'
      /\ (job'.stage = "resolved" => Chosen')
  BY <1>1, <1>4 DEF Sound, Resolving, Attributed, Chosen, AddressFound, KnownHostKeepsItsEntry
<1> QED
  BY <1>1, <1>2, <1>3, <1>5, <1>6, ConnectionStep

LEMMA AcceptSound == ASSUME Sound, Accept PROVE Sound'
<1> DEFINE c == Head(backlog)
<1>1. /\ backlog # <<>> /\ backlog' = Tail(backlog) /\ job.stage = "idle"
      /\ conn' = [conn EXCEPT ![c].stage = "resolving"]
      /\ job' = [IdleJob EXCEPT !.stage = "forward", !.conn = c, !.todo = Known, !.known = Known]
      /\ UNCHANGED peers /\ Known' = Known
  BY DEF Accept, Known
<1>2. c \in Connection /\ c = backlog[1] /\ conn[c].stage = "queued" /\ conn[c].from \in Machine
  BY <1>1 DEF Sound, Shaped, Resolving, Owned
<1>3. job' = [stage |-> "forward", conn |-> c, todo |-> Known, known |-> Known, key |-> NoKey]
  BY <1>1 DEF IdleJob
<1>4. conn'[c].stage = "resolving" /\ conn'[c].from = conn[c].from
      /\ \A d \in Connection \ {c} : conn'[d] = conn[d]
  BY <1>1, <1>2 DEF Sound, Shaped, ConnState
<1>5. Shaped'
  <2>1. backlog' \in Seq(Connection) /\ conn' \in [Connection -> ConnState]
    BY <1>1, <1>2 DEF Sound, Shaped, ConnState
  <2> HIDE DEF c
  <2>2. job' \in [stage : {"idle", "forward", "match", "resolved"},
                 conn : Connection \cup {NoConnection},
                 todo : SUBSET Known', known : SUBSET Known', key : Key \cup {NoKey}]
    <3>1. Known \in SUBSET Known' /\ NoKey \in Key \cup {NoKey}
          /\ c \in Connection \cup {NoConnection}
      BY <1>1, <1>2
    <3> QED
      BY <1>3, <3>1
  <2>3. peers' \in [Known' -> PeerState]
    BY <1>1 DEF Sound, Shaped
  <2> QED
    BY <2>1, <2>2, <2>3 DEF Shaped
<1>6. Owned'
  <2>1. Len(backlog') = Len(backlog) - 1 /\ Len(backlog) \in Nat
        /\ \A i \in 1..Len(backlog') : backlog'[i] = backlog[i + 1] /\ i + 1 \in 1..Len(backlog)
    BY <1>1 DEF Sound, Shaped
  <2>2. \A i \in 1..Len(backlog') : backlog'[i] \in Connection \ {c}
    BY <1>2, <2>1 DEF Sound, Shaped, Resolving, Owned
  <2>3. ASSUME NEW i \in 1..Len(backlog') PROVE conn'[backlog'[i]].stage = "queued"
    <3>1. conn'[backlog'[i]] = conn[backlog[i + 1]]
      BY <1>4, <2>1, <2>2
    <3> QED
      BY <2>1, <3>1 DEF Sound, Resolving, Owned
  <2>4. \A i, j \in 1..Len(backlog') : backlog'[i] = backlog'[j] => i = j
    BY <2>1 DEF Sound, Resolving, Owned
  <2>5. \A d \in Connection : conn'[d].stage # "closed" => conn'[d].from \in Machine
    BY <1>2, <1>4 DEF Sound, Resolving, Owned
  <2> QED
    BY <1>2, <1>3, <1>4, <2>3, <2>4, <2>5 DEF Owned
<1>7. AddressFound' /\ KnownHostKeepsItsEntry'
  BY <1>3 DEF AddressFound, KnownHostKeepsItsEntry
<1> QED
  BY <1>1, <1>2, <1>3, <1>4, <1>5, <1>6, <1>7, ConnectionStep

LEMMA AcceptFailsSound == ASSUME Sound, AcceptFails PROVE Sound'
<1>1. /\ backlog' = <<>> /\ job.stage = "idle"
      /\ conn' = [c \in Connection |-> IF conn[c].stage = "queued" THEN Closed ELSE conn[c]]
      /\ UNCHANGED <<peers, job>> /\ Known' = Known
  BY DEF AcceptFails, Known
<1>2. Shaped'
  <2>1. Closed \in ConnState
    BY DEF Closed, ConnState
  <2>2. conn' \in [Connection -> ConnState]
    BY <1>1, <2>1 DEF Sound, Shaped
  <2> QED
    BY <1>1, <2>2 DEF Sound, Shaped
<1>3. \A c \in Connection : conn'[c] = IF conn[c].stage = "queued" THEN Closed ELSE conn[c]
  BY <1>1
<1>4. Owned' /\ AddressFound' /\ KnownHostKeepsItsEntry'
  BY <1>1, <1>3 DEF Sound, Resolving, Owned, AddressFound, KnownHostKeepsItsEntry, Closed
<1> QED
  BY <1>1, <1>2, <1>3, <1>4, ConnectionStep DEF Closed

LEMMA ReceiveEndsSound ==
    ASSUME Sound, NEW c \in Connection, ReceiveEnds(c) PROVE Sound'
<1>1. /\ conn' = [conn EXCEPT ![c].stage = "cleaning"] /\ conn[c].stage = "receiving"
      /\ UNCHANGED <<peers, backlog, job>> /\ Known' = Known
  BY DEF ReceiveEnds, Known
<1>2. Shaped'
  BY <1>1 DEF Sound, Shaped, ConnState
<1>3. conn'[c].stage = "cleaning" /\ conn'[c].key = conn[c].key /\ conn'[c].from = conn[c].from
      /\ \A d \in Connection \ {c} : conn'[d] = conn[d]
  BY <1>1 DEF Sound, Shaped, ConnState
<1>4. job.stage # "idle" => job.conn \in Connection \ {c} /\ Caller' = Caller
  BY <1>1, <1>3 DEF Sound, Resolving, Owned, Caller
<1>5. \A i \in 1..Len(backlog) : backlog[i] \in Connection \ {c}
  BY <1>1 DEF Sound, Shaped, Resolving, Owned
<1>6. Owned'
  BY <1>1, <1>3, <1>4, <1>5 DEF Sound, Resolving, Owned
<1>7. AddressFound' /\ KnownHostKeepsItsEntry'
      /\ (job'.stage = "resolved" => Chosen')
  BY <1>1, <1>4 DEF Sound, Resolving, Attributed, Chosen, AddressFound, KnownHostKeepsItsEntry
<1> QED
  BY <1>1, <1>2, <1>3, <1>6, <1>7, ConnectionStep

-----------------------------------------------------------------------------
(* Counting *)

\* RegisterInbound counts the connection where it attributes it.
LEMMA RegisterInboundSound == ASSUME Sound, RegisterInbound PROVE Sound'
<1> PICK c, k : c = job.conn /\ k = job.key
  OBVIOUS
<1>1. /\ job.stage = "resolved" /\ job' = IdleJob /\ UNCHANGED backlog
      /\ peers' = WithPeer(k, Entered(Entry(k)))
      /\ conn' = [conn EXCEPT ![c] = [conn[c] EXCEPT !.stage = "receiving", !.key = k]]
  BY DEF RegisterInbound
<1>2. /\ c \in Connection /\ conn[c].stage = "resolving"
      /\ conn[c].from \in Machine /\ Fits(k, conn[c].from) /\ k \in Key \cup {NoKey}
  <2>1. c \in Connection /\ conn[c].stage = "resolving" /\ conn[c].from \in Machine
    BY <1>1 DEF Sound, Resolving, Owned
  <2> QED
    BY <1>1, <2>1, NamesAreKeys DEF Sound, Resolving, Attributed, Chosen, Caller
<1> DEFINE r == [conn[c] EXCEPT !.stage = "receiving", !.key = k]
<1>3. r \in ConnState /\ r.stage = "receiving" /\ r.key = k /\ r.from = conn[c].from
  BY <1>2 DEF Sound, Shaped, ConnState
<1> HIDE DEF r
<1>4. conn' \in [Connection -> ConnState] /\ conn'[c] = r
      /\ \A d \in Connection \ {c} : conn'[d] = conn[d]
  BY <1>1, <1>2, <1>3 DEF Sound, Shaped, r
<1>5. /\ peers' \in [Known \cup {k} -> PeerState] /\ Known' = Known \cup {k}
      /\ \A x \in Known' : peers'[x] = IF x = k THEN Entered(Entry(k)) ELSE peers[x]
  <2>1. Shaped
    BY DEF Sound
  <2>2. PICK p \in PeerState : p = Entered(Entry(k))
    BY <2>1, EntryState
  <2>3. peers' = WithPeer(k, p)
    BY <1>1, <2>2
  <2>4. /\ DOMAIN WithPeer(k, p) = Known \cup {k}
        /\ WithPeer(k, p) \in [Known \cup {k} -> PeerState]
        /\ \A x \in Known \cup {k} : WithPeer(k, p)[x] = IF x = k THEN p ELSE peers[x]
    BY <2>1 DEF Shaped, WithPeer
  <2> QED
    BY <2>2, <2>3, <2>4 DEF Known
<1>6. Shaped'
  BY <1>1, <1>4, <1>5 DEF Sound, Shaped, IdleJob
<1>7. Resolving'
  <2>1. job'.stage = "idle"
    BY <1>1 DEF IdleJob
  <2>2. \A i \in 1..Len(backlog) : backlog[i] \in Connection \ {c}
    BY <1>2 DEF Sound, Shaped, Resolving, Owned
  <2>3. Owned'
    BY <1>1, <1>2, <1>3, <1>4, <2>1, <2>2 DEF Sound, Resolving, Owned
  <2>4. AttributedByLabel'
    BY <1>2, <1>3, <1>4 DEF Sound, Resolving, Attributed, Chosen, AttributedByLabel
  <2> QED
    BY <2>1, <2>3, <2>4 DEF Resolving, Attributed, Chosen, AddressFound, KnownHostKeepsItsEntry
<1>8. InboundIsCounted'
  <2>1. \A x : x # k => Live(x)' = Live(x)
    BY <1>2, <1>3, <1>4 DEF Live
  <2>2. Live(k)' = Live(k) \cup {c} /\ c \notin Live(k)
    BY <1>2, <1>3, <1>4 DEF Live
  <2>3. Cardinality(Live(k)') = Cardinality(Live(k)) + 1
    BY <2>2, LiveFinite, FS_AddElement
  <2>4. Entry(k).inbound_connections = Cardinality(Live(k))
    <3>1. k \notin Known => Live(k) = {}
      BY DEF Sound, InboundIsCounted, Live
    <3> QED
      BY <3>1, EntryState, FS_EmptySet DEF Sound, InboundIsCounted
  <2>5. peers'[k].inbound_connections = Cardinality(Live(k)')
    BY <1>5, <2>3, <2>4, EntryState DEF Sound
  <2>6. \A x \in Known' : peers'[x].inbound_connections = Cardinality(Live(x)')
    BY <1>5, <2>1, <2>5 DEF Sound, InboundIsCounted
  <2>7. \A d \in Connection :
            conn'[d].stage \in {"receiving", "cleaning"} => conn'[d].key \in Known'
    BY <1>3, <1>4, <1>5 DEF Sound, InboundIsCounted
  <2> QED
    BY <2>6, <2>7 DEF InboundIsCounted
<1> QED
  BY <1>6, <1>7, <1>8 DEF Sound

\* The clean-up uncounts it there: the entry still exists, and counts it.
LEMMA CleanUpSound == ASSUME Sound, NEW c \in Connection, CleanUp(c) PROVE Sound'
<1> PICK k : k = conn[c].key
  OBVIOUS
<1>1. /\ conn[c].stage = "cleaning" /\ UNCHANGED <<backlog, job>>
      /\ peers' = [peers EXCEPT ![k] = Exited(@)]
      /\ conn' = [conn EXCEPT ![c] = Closed]
  BY DEF CleanUp
<1>2. k \in Known /\ peers[k] \in PeerState
  BY <1>1 DEF Sound, Shaped, InboundIsCounted
<1>3. conn'[c] = Closed /\ \A d \in Connection \ {c} : conn'[d] = conn[d]
  BY <1>1 DEF Sound, Shaped
<1>4. conn' \in [Connection -> ConnState]
  <2>1. Closed \in ConnState
    BY DEF Closed, ConnState
  <2> QED
    BY <1>1, <2>1 DEF Sound, Shaped
<1>5. peers' \in [Known -> PeerState] /\ Known' = Known
      /\ \A x \in Known : peers'[x] = IF x = k THEN Exited(peers[k]) ELSE peers[x]
  BY <1>1, <1>2, Counters DEF Sound, Shaped, Known
<1>6. Shaped'
  BY <1>1, <1>4, <1>5 DEF Sound, Shaped
<1>7. Resolving'
  <2>1. job.stage # "idle" => job.conn \in Connection \ {c} /\ Caller' = Caller
    BY <1>1, <1>3 DEF Sound, Resolving, Owned, Caller
  <2>2. \A i \in 1..Len(backlog) : backlog[i] \in Connection \ {c}
    BY <1>1 DEF Sound, Shaped, Resolving, Owned
  <2>3. Owned'
    BY <1>1, <1>3, <2>1, <2>2 DEF Sound, Resolving, Owned, Closed
  <2>4. AttributedByLabel'
    BY <1>3 DEF Sound, Resolving, Attributed, Chosen, AttributedByLabel, Closed
  <2> QED
    BY <1>1, <1>5, <2>1, <2>3, <2>4
       DEF Sound, Resolving, Attributed, Chosen, AddressFound, KnownHostKeepsItsEntry
<1>8. InboundIsCounted'
  <2>1. \A x : x # k => Live(x)' = Live(x)
    BY <1>3 DEF Live, Closed
  <2>2. Live(k)' = Live(k) \ {c} /\ c \in Live(k)
    BY <1>1, <1>3 DEF Live, Closed
  <2>3. Cardinality(Live(k)') = Cardinality(Live(k)) - 1 /\ Cardinality(Live(k)) > 0
    <3>1. Cardinality(Live(k)') = Cardinality(Live(k)) - 1
      BY <2>2, LiveFinite, FS_RemoveElement
    <3>2. Cardinality(Live(k)) # 0
      BY <2>2, LiveFinite, FS_EmptySet
    <3> QED
      BY <3>1, <3>2, LiveFinite
  <2>4. peers[k].inbound_connections = Cardinality(Live(k))
    BY <1>2 DEF Sound, InboundIsCounted
  <2>5. peers'[k].inbound_connections = Cardinality(Live(k)')
    BY <1>2, <1>5, <2>3, <2>4, Counters DEF Uncounted
  <2>6. \A x \in Known' : peers'[x].inbound_connections = Cardinality(Live(x)')
    BY <1>5, <2>1, <2>5 DEF Sound, InboundIsCounted
  <2>7. \A d \in Connection :
            conn'[d].stage \in {"receiving", "cleaning"} => conn'[d].key \in Known'
    BY <1>3, <1>5 DEF Sound, InboundIsCounted, Closed
  <2> QED
    BY <2>6, <2>7 DEF InboundIsCounted
<1> QED
  BY <1>6, <1>7, <1>8 DEF Sound

-----------------------------------------------------------------------------
(* The theorems *)

LEMMA StepSound == Sound /\ [Next]_vars => Sound'
<1> SUFFICES ASSUME Sound, [Next]_vars PROVE Sound'
  OBVIOUS
<1>1. ASSUME UNCHANGED <<peers, backlog, job, conn>> PROVE Sound'
  BY <1>1, RegistryStep DEF Sound, Known, Shaped
<1>2. CASE ServerStarts \/ UNCHANGED vars
  BY <1>1, <1>2 DEF ServerStarts, vars
<1>3. CASE \/ \E k \in Name : NotifySession(k)
           \/ \E k \in Key : Outbound(k)
           \/ \E p \in Listing : Discover(p)
  BY <1>3, SessionSteps
<1>4. CASE AcceptLoop \/ AcceptFails
  BY <1>4, AcceptSound, AcceptFailsSound, LookupSound, ReverseLookupSound, MatchKnownSound,
     RegisterInboundSound DEF AcceptLoop
<1>5. CASE \/ \E c \in Connection, m \in Machine : PeerConnects(c, m)
           \/ \E c \in Connection : ReceiveEnds(c) \/ CleanUp(c)
  BY <1>5, PeerConnectsSound, ReceiveEndsSound, CleanUpSound
<1> QED
  BY <1>2, <1>3, <1>4, <1>5 DEF Next

\* Whatever the name service answers and whichever sessions are registered while
\* a connection is resolved, it is counted once, under a key that fits its machine,
\* and a machine that was known keeps its entry.
THEOREM InboundSound == Spec => []Sound
<1>1. Sound /\ [Next]_vars => Sound'
  BY StepSound
<1> QED
  BY InitSound, <1>1, PTL DEF Spec

\* An entry counts exactly the receiving tasks registered under its key: none is
\* left behind by a task that ends, and none is uncounted twice.
THEOREM InboundCounted == Spec => []InboundIsCounted
<1>1. Sound => InboundIsCounted
  BY DEF Sound
<1> QED
  BY InboundSound, <1>1, PTL

\* A connection is never counted under a key that neither names its machine nor
\* begins with the label that reverse DNS gives the machine.
THEOREM InboundAttributed == Spec => []AttributedByLabel
<1>1. Sound => AttributedByLabel
  BY DEF Sound, Resolving, Attributed
<1> QED
  BY InboundSound, <1>1, PTL

\* A machine known at the accept gets no second entry, unless both directions of
\* the name service fail.
THEOREM KnownHostReused == Spec => []KnownHostKeepsItsEntry
<1>1. Sound => KnownHostKeepsItsEntry
  BY DEF Sound, Resolving
<1> QED
  BY InboundSound, <1>1, PTL

\* What `tassh status` prints agrees with the registry: a machine that is sending
\* is shown as syncing, a session is never hidden.
THEOREM StatusSound == Spec => []StatusShowsPeers
<1>1. Sound => StatusShowsPeers
  <2> SUFFICES ASSUME Sound PROVE StatusShowsPeers
    OBVIOUS
  <2>1. \A k \in Known : /\ peers[k].session_count \in Nat
                         /\ peers[k].inbound_connections \in Nat
    BY DEF Sound, Shaped, PeerState
  <2>2. ASSUME NEW c \in Connection, conn[c].stage = "receiving"
        PROVE  \E p \in ListPeers : p.hostname = conn[c].key /\ StatusWord(p) = "syncing"
    <3> DEFINE k == conn[c].key
               p == [hostname |-> k,
                     connected |-> peers[k].connected \/ peers[k].inbound_connections > 0,
                     no_daemon |-> peers[k].probe_failed /\ peers[k].inbound_connections = 0,
                     session_count |-> peers[k].session_count + peers[k].inbound_connections]
    <3>1. k \in Known /\ c \in Live(k)
      BY <2>2 DEF Sound, InboundIsCounted, Live
    <3>2. Cardinality(Live(k)) # 0
      BY <3>1, LiveFinite, FS_EmptySet
    <3>3. peers[k].inbound_connections > 0
      BY <2>1, <3>1, <3>2 DEF Sound, InboundIsCounted
    <3>4. p \in ListPeers
      BY <2>1, <3>1, <3>3 DEF ListPeers
    <3>5. p.hostname = k /\ StatusWord(p) = "syncing"
      BY <3>3 DEF StatusWord
    <3> QED
      BY <3>4, <3>5
  <2>3. ASSUME NEW k \in Known, peers[k].session_count > 0
        PROVE  \E p \in ListPeers : p.hostname = k
    <3>1. peers[k].session_count + peers[k].inbound_connections > 0
      BY <2>1, <2>3
    <3> DEFINE p == [hostname |-> k,
                     connected |-> peers[k].connected \/ peers[k].inbound_connections > 0,
                     no_daemon |-> peers[k].probe_failed /\ peers[k].inbound_connections = 0,
                     session_count |-> peers[k].session_count + peers[k].inbound_connections]
    <3>2. p \in ListPeers
      BY <2>3, <3>1 DEF ListPeers
    <3> QED
      BY <3>2
  <2> QED
    BY <2>2, <2>3 DEF StatusShowsPeers
<1> QED
  BY InboundSound, <1>1, PTL

-----------------------------------------------------------------------------
(* Which keys the registry holds *)

AllLegible == \A i \in DOMAIN found : found[i].legible
Expected == Destinations \cup ToSet(announced) \cup UNION {Names[m] : m \in Machine}

\* Keys come from names and command lines, and an entry stays for good.
Registered ==
    /\ Known \subseteq Key
    /\ server \in {"starting", "accepting", "ended"}
    /\ announced \in Seq(Name) /\ found \in Seq(Listing)
    /\ Len(announced) + Len(found) <= MaxSessions
    /\ AllLegible => Destinations \subseteq Known /\ Known \subseteq Expected

\* A step that finds and announces no session.
LEMMA RegisteredKept ==
    ASSUME Registered, UNCHANGED <<announced, found>>, Known \subseteq Known', Known' \subseteq Key,
           Known' \subseteq Known \cup UNION {Names[m] : m \in Machine},
           server' \in {"starting", "accepting", "ended"}
    PROVE  Registered'
<1>1. Destinations' = Destinations /\ Expected' = Expected /\ AllLegible' = AllLegible
  BY DEF Destinations, Expected, AllLegible
<1>2. UNION {Names[m] : m \in Machine} \subseteq Expected
  BY DEF Expected
<1>3. AllLegible => Destinations \subseteq Known' /\ Known' \subseteq Expected
  BY <1>2 DEF Registered
<1> QED
  BY <1>1, <1>3 DEF Registered

LEMMA WithPeerKnown ==
    ASSUME NEW k, NEW p, peers' = WithPeer(k, p)
    PROVE  Known' = Known \cup {k}
BY DEF Known, WithPeer

\* One more element of a sequence.
LEMMA Appended ==
    ASSUME NEW S, NEW s \in Seq(S), NEW e \in S
    PROVE  /\ Append(s, e) \in Seq(S) /\ Len(Append(s, e)) = Len(s) + 1 /\ Len(s) \in Nat
           /\ DOMAIN s = 1..Len(s) /\ DOMAIN Append(s, e) = 1..(Len(s) + 1)
           /\ \A i \in 1..Len(s) : Append(s, e)[i] = s[i]
           /\ Append(s, e)[Len(s) + 1] = e
OBVIOUS

LEMMA AnnounceRegisters ==
    ASSUME Registered, NEW k \in Name, NotifySession(k)
    PROVE  Registered'
<1>1. announced' = Append(announced, k) /\ UNCHANGED <<server, found>>
      /\ announced \in Seq(Name) /\ found \in Seq(Listing)
      /\ Len(announced) + Len(found) < MaxSessions
  BY DEF NotifySession, Registered
<1>2. Known' = Known \cup {k}
  BY WithPeerKnown DEF NotifySession
<1>3. /\ announced' \in Seq(Name) /\ Len(announced') = Len(announced) + 1 /\ Len(announced) \in Nat
      /\ DOMAIN announced = 1..Len(announced) /\ DOMAIN announced' = 1..(Len(announced) + 1)
      /\ \A i \in 1..Len(announced) : announced'[i] = announced[i]
      /\ announced'[Len(announced) + 1] = k
  BY <1>1, Appended
<1>4. Len(announced') + Len(found) <= MaxSessions
  <2>1. Len(found) \in Nat
    BY <1>1
  <2> QED
    BY <1>1, <1>3, <2>1, BoundAssumption
<1>5. Destinations' = Destinations /\ AllLegible' = AllLegible
  BY <1>1 DEF Destinations, AllLegible
<1>6. ToSet(announced) \cup {k} \subseteq ToSet(announced')
  <2>1. ASSUME NEW i \in DOMAIN announced PROVE announced[i] \in ToSet(announced')
    BY <1>3, <2>1 DEF ToSet
  <2>2. k \in ToSet(announced')
    <3>1. Len(announced) + 1 \in DOMAIN announced'
      BY <1>3
    <3> QED
      BY <1>3, <3>1 DEF ToSet
  <2> QED
    BY <2>1, <2>2 DEF ToSet
<1>7. Expected \cup {k} \subseteq Expected'
  BY <1>5, <1>6 DEF Expected
<1>8. Known' \subseteq Key
  BY <1>2 DEF Key, Registered
<1>9. AllLegible => Destinations \subseteq Known' /\ Known' \subseteq Expected'
  BY <1>2, <1>7 DEF Registered
<1> QED
  BY <1>1, <1>3, <1>4, <1>5, <1>8, <1>9 DEF Registered

LEMMA DiscoverRegisters ==
    ASSUME Registered, NEW p \in Listing, Discover(p)
    PROVE  Registered'
<1>1. found' = Append(found, p) /\ UNCHANGED <<server, announced>>
      /\ announced \in Seq(Name) /\ found \in Seq(Listing)
      /\ Len(announced) + Len(found) < MaxSessions
  BY DEF Discover, Registered
<1>2. /\ found' \in Seq(Listing) /\ Len(found') = Len(found) + 1 /\ Len(found) \in Nat
      /\ DOMAIN found = 1..Len(found) /\ DOMAIN found' = 1..(Len(found) + 1)
      /\ \A i \in 1..Len(found) : found'[i] = found[i]
      /\ found'[Len(found) + 1] = p
  BY <1>1, Appended
<1>3. Len(announced) + Len(found') <= MaxSessions
  <2>1. Len(announced) \in Nat
    BY <1>1
  <2> QED
    BY <1>1, <1>2, <2>1, BoundAssumption
<1>4. Destinations' = Destinations \cup ({p.host} \ SelfNames)
  <2>1. {found'[i].host : i \in DOMAIN found'} = {found[i].host : i \in DOMAIN found} \cup {p.host}
    <3>1. ASSUME NEW i \in DOMAIN found'
          PROVE  found'[i].host \in {found[j].host : j \in DOMAIN found} \cup {p.host}
      BY <1>2
    <3>2. ASSUME NEW i \in DOMAIN found
          PROVE  found[i].host \in {found'[j].host : j \in DOMAIN found'}
      BY <1>2
    <3>3. p.host \in {found'[j].host : j \in DOMAIN found'}
      <4>1. Len(found) + 1 \in DOMAIN found'
        BY <1>2
      <4> QED
        BY <1>2, <4>1
    <3> QED
      BY <3>1, <3>2, <3>3
  <2> QED
    BY <2>1 DEF Destinations
<1>5. AllLegible' => AllLegible /\ p.legible
  <2> SUFFICES ASSUME AllLegible' PROVE AllLegible /\ p.legible
    OBVIOUS
  <2>1. \A i \in 1..(Len(found) + 1) : found'[i].legible
    BY <1>2 DEF AllLegible
  <2>2. Len(found) + 1 \in 1..(Len(found) + 1) /\ \A i \in 1..Len(found) : i \in 1..(Len(found) + 1)
    BY <1>2
  <2>3. \A i \in 1..Len(found) : found[i].legible
    BY <1>2, <2>1, <2>2
  <2>4. p.legible
    BY <1>2, <2>1, <2>2
  <2> QED
    BY <1>2, <2>3, <2>4 DEF AllLegible
<1>6. p.legible => p.key = p.host /\ p.host # NoKey
  <2>1. PICK c \in CommandLine :
            p = [host |-> Lower(c.typed), key |-> extract_ssh_destination_host(Args(c)),
                 legible |-> Legible(c)]
    BY DEF Listing
  <2> QED
    BY <2>1, DestinationIsRead DEF NoKey
<1>7. Known' = IF p.key \in SelfNames \cup {NoKey} THEN Known ELSE Known \cup {p.key}
  <2>1. CASE p.key \in SelfNames \cup {NoKey}
    BY <2>1 DEF Discover, Known
  <2>2. CASE p.key \notin SelfNames \cup {NoKey}
    BY <2>2, WithPeerKnown DEF Discover
  <2> QED
    BY <2>1, <2>2
<1>8. Known' \subseteq Key
  <2>1. p.key \notin {NoKey} => p.key \in Key
    BY DEF Key
  <2> QED
    BY <1>7, <2>1 DEF Registered
<1>9. AllLegible' => Destinations' \subseteq Known' /\ Known' \subseteq Expected'
  <2> SUFFICES ASSUME AllLegible' PROVE Destinations' \subseteq Known' /\ Known' \subseteq Expected'
    OBVIOUS
  <2>1. Destinations \subseteq Known /\ Known \subseteq Expected /\ p.key = p.host /\ p.host # NoKey
    BY <1>5, <1>6 DEF Registered
  <2>2. Expected' = Expected \cup ({p.host} \ SelfNames)
    BY <1>1, <1>4 DEF Expected
  <2> QED
    BY <1>4, <1>7, <2>1, <2>2
<1> QED
  BY <1>1, <1>2, <1>3, <1>8, <1>9 DEF Registered

LEMMA StepRegisters == Sound /\ Registered /\ [Next]_vars => Registered'
<1> SUFFICES ASSUME Sound, Registered, [Next]_vars PROVE Registered'
  OBVIOUS
<1> DEFINE Server == server' \in {"starting", "accepting", "ended"}
<1>1. server \in {"starting", "accepting", "ended"} /\ Known \subseteq Key
  BY DEF Registered
<1>2. ASSUME UNCHANGED <<peers, announced, found>>, Server PROVE Registered'
  <2>1. Known' = Known
    BY <1>2 DEF Known
  <2> QED
    BY <1>1, <1>2, <2>1, RegisteredKept
<1>3. CASE UNCHANGED vars
  BY <1>1, <1>2, <1>3 DEF vars
<1>4. CASE \E k \in Name : NotifySession(k)
  BY <1>4, AnnounceRegisters
<1>5. ASSUME NEW k \in Key, Outbound(k) PROVE Registered'
  <2>1. Known' = Known
    <3>1. \E q : peers' = [peers EXCEPT ![k] = q]
      BY <1>5 DEF Outbound
    <3> QED
      BY <3>1 DEF Known
  <2> QED
    BY <1>1, <1>5, <2>1, RegisteredKept DEF Outbound
<1>6. CASE \E p \in Listing : Discover(p)
  BY <1>6, DiscoverRegisters
<1>7. CASE ServerStarts
  BY <1>2, <1>7 DEF ServerStarts
<1>8. CASE Accept \/ ReverseLookup \/ MatchKnown \/ \E k \in Key : Lookup(k)
  BY <1>1, <1>2, <1>8 DEF Accept, ReverseLookup, MatchKnown, Lookup
<1>9. CASE RegisterInbound
  <2>1. Known' = Known \cup {job.key}
    BY <1>9, WithPeerKnown DEF RegisterInbound
  <2>2. job.key \in Key /\ job.key \in Known \cup Names[Caller] /\ Caller \in Machine
    BY <1>9 DEF RegisterInbound, Sound, Resolving, Attributed, Chosen, Owned, Caller
  <2>3. Known' \subseteq Known \cup UNION {Names[m] : m \in Machine} /\ Known' \subseteq Key
    BY <1>1, <2>1, <2>2
  <2>4. server' = server /\ UNCHANGED <<announced, found>>
    BY <1>9 DEF RegisterInbound
  <2> QED
    BY <1>1, <2>1, <2>3, <2>4, RegisteredKept
<1>10. CASE AcceptFails
  BY <1>2, <1>10 DEF AcceptFails
<1>11. ASSUME NEW c \in Connection, NEW m \in Machine, PeerConnects(c, m) PROVE Registered'
  BY <1>1, <1>2, <1>11 DEF PeerConnects
<1>12. ASSUME NEW c \in Connection, ReceiveEnds(c) PROVE Registered'
  BY <1>1, <1>2, <1>12 DEF ReceiveEnds
<1>13. ASSUME NEW c \in Connection, CleanUp(c) PROVE Registered'
  <2>1. Known' = Known
    BY <1>13 DEF CleanUp, Known
  <2> QED
    BY <1>1, <1>13, <2>1, RegisteredKept DEF CleanUp
<1> QED
  BY <1>3, <1>4, <1>5, <1>6, <1>7, <1>8, <1>9, <1>10, <1>11, <1>12, <1>13 DEF Next, AcceptLoop

LEMMA InitRegisters == Init => Registered
<1> SUFFICES ASSUME Init PROVE Registered
  OBVIOUS
<1>1. Known = {} /\ found = <<>> /\ server = "starting" /\ announced = <<>>
  BY DEF Init, Known
<1>2. Destinations = {}
  BY <1>1 DEF Destinations
<1> QED
  BY <1>1, <1>2, BoundAssumption DEF Registered

LEMMA RegistrySound == Spec => []Registered
BY InitRegisters, StepRegisters, InboundSound, PTL DEF Spec

\* Every key the registry, the connections and the accept loop hold is a name, as
\* it was given to notify, normalized from reverse DNS or read in a command line.
THEOREM InboundTypeCorrect == Spec => []TypeOK
<1>1. Sound /\ Registered => TypeOK
  <2> SUFFICES ASSUME Sound, Registered PROVE TypeOK
    OBVIOUS
  <2>1. job \in JobState
    BY DEF Sound, Shaped, Registered, JobState
  <2>2. \A k \in Known : peers[k] \in PeerState
    BY DEF Sound, Shaped
  <2> QED
    BY <2>1, <2>2 DEF Sound, Shaped, Registered, TypeOK, PeerState
<1> QED
  BY InboundSound, RegistrySound, <1>1, PTL

\* From legible command lines (flags, options with a value of one word that ssh
\* and the code agree on, "--" or not, a destination with or without user and
\* quotes, any remote command) discovery registers every destination but this
\* machine, and the registry holds nothing else of theirs.
THEOREM DiscoverySound == Spec => []DiscoveryFindsHosts
<1>1. Registered => DiscoveryFindsHosts
  BY DEF Registered, DiscoveryFindsHosts, AllLegible, Expected
<1> QED
  BY RegistrySound, <1>1, PTL
=============================================================================
