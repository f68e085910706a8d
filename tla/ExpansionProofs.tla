--------------------------- MODULE ExpansionProofs ---------------------------
(***************************************************************************)
(* Expansion: the recursive functions satisfy the equations they are       *)
(* written with, and a walk only ever adds to the text.                    *)
(***************************************************************************)
EXTENDS Expansion, Induction, SequencesExt

(* The files on the disk are sequences of lines that have a length. *)
HasLines(disk) ==
  \A f \in DOMAIN disk :
    /\ Len(disk[f]) \in Nat /\ DOMAIN disk[f] = 1 .. Len(disk[f])
    /\ \A n \in 1 .. Len(disk[f]) : disk[f][n].len \in Nat /\ disk[f][n].nl \in BOOLEAN

Walks(disk) == [(DOMAIN disk) \X Walked(disk) -> Walked(disk)]

LEMMA LineTextType ==
  ASSUME NEW disk, HasLines(disk), NEW f \in DOMAIN disk, NEW n \in 1 .. Len(disk[f])
  PROVE  /\ LineText(f, n, disk[f][n]) \in Seq(Place(disk))
         /\ Len(LineText(f, n, disk[f][n])) = Width(disk[f][n].len, disk[f][n].nl)
         /\ Width(disk[f][n].len, disk[f][n].nl) \in Nat
<1> DEFINE w == Width(disk[f][n].len, disk[f][n].nl)
<1>1. w \in Nat /\ n \in Nat
  BY DEF HasLines, Width, Completed, Extracted
<1> HIDE DEF w
<1>2. [c \in 1 .. w |-> [file |-> f, no |-> n, col |-> c]] \in [1 .. w -> Place(disk)]
  BY <1>1 DEF Place
<1>3. LineText(f, n, disk[f][n]) = [c \in 1 .. w |-> [file |-> f, no |-> n, col |-> c]]
  BY DEF LineText, w
<1> QED BY <1>1, <1>2, <1>3 DEF w

(* What one line makes of what was walked is of the same kind, and its     *)
(* text begins with the text before.                                       *)
LEMMA AfterLineType ==
  ASSUME NEW disk, HasLines(disk), NEW header \in Walks(disk),
         NEW f \in DOMAIN disk, NEW n \in 1 .. Len(disk[f]), NEW s \in Walked(disk)
  PROVE  AfterLine(disk, header, f, n, s) \in Walked(disk)
<1> DEFINE line == disk[f][n]
<1>1. line.arg \in Names(disk)
  BY DEF Names, HasLines
<1>2. s.text \in Seq(Place(disk)) /\ s.macros \in SUBSET Names(disk)
      /\ s.groups \in Seq(BOOLEAN)
  BY DEF Walked
<1>3. EndGroup(s) \in Walked(disk)
  <2>1. s.groups # <<>> => SubSeq(s.groups, 1, Len(s.groups) - 1) \in Seq(BOOLEAN)
    BY <1>2
  <2> QED BY <1>2, <2>1 DEF EndGroup, Walked
<1>4. \A c \in BOOLEAN : InGroup(s, c) \in Walked(disk)
  <2>1. \A c \in BOOLEAN : Append(s.groups, c) \in Seq(BOOLEAN)
    BY <1>2
  <2> QED BY <1>2, <2>1 DEF InGroup, Walked
<1>5. [s EXCEPT !.macros = @ \cup {line.arg}] \in Walked(disk)
  BY <1>1, <1>2 DEF Walked
<1>6. line.arg \in DOMAIN disk => header[<<line.arg, s>>] \in Walked(disk)
  BY DEF Walks
<1>7. [s EXCEPT !.text = @ \o LineText(f, n, line)] \in Walked(disk)
  <2>1. s.text \o LineText(f, n, line) \in Seq(Place(disk))
    BY <1>2, LineTextType
  <2> QED BY <1>2, <2>1 DEF Walked
<1>8. (line.arg \in s.macros) \in BOOLEAN /\ (line.arg \notin s.macros) \in BOOLEAN
  OBVIOUS
<1> QED BY <1>3, <1>4, <1>5, <1>6, <1>7, <1>8, Zenon DEF AfterLine

(* The equations of LastLines. *)
LEMMA LastLinesEquations ==
  ASSUME NEW disk, HasLines(disk), NEW header \in Walks(disk)
  PROVE  /\ LastLines(disk, header) \in [Nat -> Walks(disk)]
         /\ \A f \in DOMAIN disk, s \in Walked(disk) :
              LastLines(disk, header)[0][<<f, s>>] = s
         /\ \A k \in Nat, f \in DOMAIN disk, s \in Walked(disk) :
              k < Len(disk[f]) =>
                LastLines(disk, header)[k + 1][<<f, s>>] =
                  LastLines(disk, header)[k][<<f, AfterLine(disk, header, f, Len(disk[f]) - k, s)>>]
<1> DEFINE D == (DOMAIN disk) \X Walked(disk)
           line(w, k, p) ==
             LET n == Len(disk[p[1]]) - k + 1
             IN  IF k = 0 \/ n < 1 THEN p[2]
                 ELSE w[<<p[1], AfterLine(disk, header, p[1], n, p[2])>>]
           body(w) == [k \in Nat |-> [p \in D |-> line(w[k - 1], k, p)]]
<1>1. LastLines(disk, header) = CHOOSE w : w = body(w)
  BY DEF LastLines
<1>2. ASSUME NEW w \in Walks(disk), NEW k \in Nat, NEW p \in D
      PROVE  line(w, k, p) \in Walked(disk)
  <2>1. p[1] \in DOMAIN disk /\ p[2] \in Walked(disk) /\ Len(disk[p[1]]) \in Nat
    BY DEF HasLines
  <2> DEFINE n == Len(disk[p[1]]) - k + 1
  <2>2. CASE k = 0 \/ n < 1
    BY <2>1, <2>2
  <2>3. CASE ~(k = 0 \/ n < 1)
    <3>1. n \in 1 .. Len(disk[p[1]])
      BY <2>1, <2>3
    <3>2. AfterLine(disk, header, p[1], n, p[2]) \in Walked(disk)
      BY <2>1, <3>1, AfterLineType
    <3> QED BY <2>1, <2>3, <3>2 DEF Walks
  <2> QED BY <2>2, <2>3
<1> DEFINE a == [p \in D |-> p[2]]
           G == [q \in Nat \X Walks(disk) |-> [p \in D |-> line(q[2], q[1] + 1, p)]]
<1>3. a \in Walks(disk)
  BY DEF Walks
<1>4. G \in StepFunctions(Walks(disk))
  <2> USE DEF StepFunctions
  <2> SUFFICES ASSUME NEW k \in Nat, NEW w \in Walks(disk)
               PROVE  [p \in D |-> line(w, k + 1, p)] \in Walks(disk)
    OBVIOUS
  <2>1. k + 1 \in Nat
    OBVIOUS
  <2>2. \A p \in D : line(w, k + 1, p) \in Walked(disk)
    <3> HIDE DEF line
    <3> QED BY <1>2, <2>1
  <2> HIDE DEF line
  <2> QED BY <2>2 DEF Walks
<1>5. PICK g \in [Nat -> Walks(disk)] : g[0] = a /\ \A k \in Nat : g[k + 1] = G[<<k, g[k]>>]
  <2> HIDE DEF a, G, D, line, body
  <2>1. \E g : IsRecursion(g, Walks(disk), a, G)
    BY <1>3, <1>4, NatRecursion
  <2> QED BY <2>1 DEF IsRecursion
<1>6. \A k \in Nat : g[k + 1] = [p \in D |-> line(g[k], k + 1, p)]
  <2> HIDE DEF line, D
  <2> QED BY <1>5
<1>7. g = body(g)
  <2>1. g[0] = [p \in D |-> line(g[0 - 1], 0, p)]
    BY <1>5
  <2>2. ASSUME NEW k \in Nat, k # 0 PROVE g[k] = [p \in D |-> line(g[k - 1], k, p)]
    <3>1. k - 1 \in Nat /\ (k - 1) + 1 = k
      BY <2>2
    <3> HIDE DEF line, D
    <3> QED BY <1>6, <3>1
  <2> HIDE DEF line, D
  <2> QED BY <2>1, <2>2
<1> DEFINE walk == LastLines(disk, header)
<1>8. walk = body(walk)
  <2> HIDE DEF body, walk
  <2>1. \E w : w = body(w)
    BY <1>7
  <2> QED BY <1>1, <2>1, Zenon DEF walk
<1>9. \A k \in Nat : walk[k] = [p \in D |-> line(walk[k - 1], k, p)]
  <2> HIDE DEF walk, line, D
  <2> QED BY <1>8
<1>10. walk[0] = a
  <2> HIDE DEF walk
  <2>1. \A p \in D : line(walk[0 - 1], 0, p) = p[2]
    OBVIOUS
  <2> HIDE DEF line, D
  <2>2. walk[0] = [p \in D |-> line(walk[0 - 1], 0, p)]
    BY <1>9
  <2> QED BY <2>1, <2>2
<1>11. \A k \in Nat : walk[k] \in Walks(disk)
  <2> DEFINE P == {k \in Nat : walk[k] \in Walks(disk)}
  <2>1. 0 \in P
    <3> HIDE DEF walk, a
    <3> QED BY <1>3, <1>10
  <2>2. ASSUME NEW k \in P PROVE k + 1 \in P
    <3>0. k + 1 \in Nat /\ (k + 1) - 1 = k /\ walk[k] \in Walks(disk)
      OBVIOUS
    <3> HIDE DEF walk
    <3>1. walk[k + 1] = [p \in D |-> line(walk[k], k + 1, p)]
      <4> HIDE DEF line, D
      <4> QED BY <1>9, <3>0
    <3>2. \A p \in D : line(walk[k], k + 1, p) \in Walked(disk)
      <4> HIDE DEF line, D
      <4> QED BY <1>2, <3>0
    <3>3. walk[k + 1] \in Walks(disk)
      <4> HIDE DEF line
      <4> QED BY <3>1, <3>2 DEF Walks
    <3> QED BY <3>0, <3>3
  <2>3. P \subseteq Nat
    OBVIOUS
  <2>4. \A k \in Nat : k \in P
    <3> HIDE DEF P
    <3> QED BY <2>1, <2>2, <2>3, SetInduction
  <2> QED BY <2>4
<1>12. walk \in [Nat -> Walks(disk)]
  <2>1. walk = [k \in Nat |-> walk[k]]
    <3> HIDE DEF walk, line, D
    <3> QED BY <1>8
  <2> HIDE DEF walk
  <2> QED BY <1>11, <2>1
<1>13. \A f \in DOMAIN disk, s \in Walked(disk) : walk[0][<<f, s>>] = s
  <2> HIDE DEF walk
  <2> QED BY <1>10
<1>14. ASSUME NEW k \in Nat, NEW f \in DOMAIN disk, NEW s \in Walked(disk), k < Len(disk[f])
       PROVE  walk[k + 1][<<f, s>>] =
                walk[k][<<f, AfterLine(disk, header, f, Len(disk[f]) - k, s)>>]
  <2>0. k + 1 \in Nat /\ (k + 1) - 1 = k /\ <<f, s>> \in D /\ Len(disk[f]) \in Nat
    BY DEF HasLines
  <2>1. /\ Len(disk[f]) - (k + 1) + 1 = Len(disk[f]) - k
        /\ ~(k + 1 = 0 \/ Len(disk[f]) - k < 1)
    BY <1>14, <2>0
  <2> HIDE DEF walk
  <2>2. walk[k + 1][<<f, s>>] = line(walk[k], k + 1, <<f, s>>)
    <3> HIDE DEF line, D
    <3>1. walk[k + 1] = [p \in D |-> line(walk[k], k + 1, p)]
      BY <1>9, <2>0
    <3> QED BY <2>0, <3>1
  <2>3. line(walk[k], k + 1, <<f, s>>) =
          walk[k][<<f, AfterLine(disk, header, f, Len(disk[f]) - k, s)>>]
    BY <2>1
  <2> QED BY <2>2, <2>3
<1> QED BY <1>12, <1>13, <1>14

(* The equations of FileWalk. *)
THEOREM FileWalkEquations ==
  ASSUME NEW disk, HasLines(disk)
  PROVE  /\ FileWalk(disk) \in [Nat -> Walks(disk)]
         /\ \A f \in DOMAIN disk, s \in Walked(disk) : FileWalk(disk)[0][<<f, s>>] = s
         /\ \A room \in Nat, f \in DOMAIN disk, s \in Walked(disk) :
              FileWalk(disk)[room + 1][<<f, s>>] =
                LastLines(disk, FileWalk(disk)[room])[Len(disk[f])][<<f, s>>]
<1> DEFINE D == (DOMAIN disk) \X Walked(disk)
           a == NoWalk(disk)
           whole(w) == [p \in D |-> LastLines(disk, w)[Len(disk[p[1]])][p]]
           body(w) == [room \in Nat |-> IF room = 0 THEN a ELSE whole(w[room - 1])]
           G == [q \in Nat \X Walks(disk) |-> whole(q[2])]
           walk == FileWalk(disk)
<1>1. walk = CHOOSE w : w = body(w)
  BY DEF FileWalk
<1>2. a \in Walks(disk) /\ \A f \in DOMAIN disk, s \in Walked(disk) : a[<<f, s>>] = s
  BY DEF Walks, NoWalk
<1>3. ASSUME NEW w \in Walks(disk) PROVE whole(w) \in Walks(disk)
  <2>1. LastLines(disk, w) \in [Nat -> Walks(disk)]
    BY LastLinesEquations
  <2>2. ASSUME NEW p \in D PROVE LastLines(disk, w)[Len(disk[p[1]])][p] \in Walked(disk)
    <3>1. Len(disk[p[1]]) \in Nat
      BY DEF HasLines
    <3>2. LastLines(disk, w)[Len(disk[p[1]])] \in Walks(disk)
      BY <2>1, <3>1
    <3> QED BY <3>2 DEF Walks
  <2> QED BY <2>2 DEF Walks
<1> HIDE DEF a, whole
<1>4. G \in StepFunctions(Walks(disk))
  BY <1>3 DEF StepFunctions
<1>5. PICK g : IsRecursion(g, Walks(disk), a, G)
  <2> HIDE DEF G, walk
  <2> QED BY <1>2, <1>4, NatRecursion
<1>6. /\ g \in [Nat -> Walks(disk)] /\ g[0] = a
      /\ \A n \in Nat : g[n + 1] = whole(g[n])
  <2> HIDE DEF walk
  <2> QED BY <1>5 DEF IsRecursion
<1>7. g = body(g)
  <2>1. ASSUME NEW n \in Nat PROVE g[n] = IF n = 0 THEN a ELSE whole(g[n - 1])
    <3>1. CASE n = 0
      BY <1>6, <3>1
    <3>2. CASE n # 0
      <4>1. n - 1 \in Nat /\ (n - 1) + 1 = n
        BY <3>2
      <4> QED BY <1>6, <3>2, <4>1
    <3> QED BY <3>1, <3>2
  <2> QED BY <1>6, <2>1
<1>8. walk = body(walk)
  <2> HIDE DEF body, walk
  <2>1. \E w : w = body(w)
    BY <1>7
  <2> QED BY <1>1, <2>1, Zenon
<1> HIDE DEF walk
<1>9. /\ walk[0] = a
      /\ \A n \in Nat : walk[n + 1] = whole(walk[n])
  <2>1. \A n \in Nat : walk[n] = IF n = 0 THEN a ELSE whole(walk[n - 1])
    BY <1>8
  <2>2. ASSUME NEW n \in Nat PROVE walk[n + 1] = whole(walk[n])
    <3>1. n + 1 \in Nat /\ n + 1 # 0 /\ (n + 1) - 1 = n
      OBVIOUS
    <3> QED BY <2>1, <3>1
  <2> QED BY <2>1, <2>2
<1>10. \A n \in Nat : walk[n] \in Walks(disk)
  <2> DEFINE P == {n \in Nat : walk[n] \in Walks(disk)}
  <2>1. 0 \in P /\ P \subseteq Nat
    BY <1>2, <1>9
  <2>2. \A n \in P : n + 1 \in P
    BY <1>3, <1>9
  <2>3. \A n \in Nat : n \in P
    <3> HIDE DEF P
    <3> QED BY <2>1, <2>2, SetInduction
  <2> QED BY <2>3
<1>11. walk \in [Nat -> Walks(disk)]
  BY <1>8, <1>10
<1>12. ASSUME NEW n \in Nat, NEW f \in DOMAIN disk, NEW s \in Walked(disk)
       PROVE  walk[n + 1][<<f, s>>] = LastLines(disk, walk[n])[Len(disk[f])][<<f, s>>]
  BY <1>9, ZenonT(60) DEF whole
<1> QED BY <1>2, <1>9, <1>11, <1>12 DEF walk
-----------------------------------------------------------------------------
(* Texts only grow: what was walked begins with what was walked before.    *)
Grows(disk, walk) ==
  \A f \in DOMAIN disk, s \in Walked(disk) : IsPrefix(s.text, walk[<<f, s>>].text)

(* A prefix is one element by element. *)
LEMMA PrefixPointwise ==
  ASSUME NEW S, NEW s \in Seq(S), NEW t \in Seq(S)
  PROVE  IsPrefix(s, t) <=> Len(s) <= Len(t) /\ \A i \in 1 .. Len(s) : s[i] = t[i]
<1>1. SubSeq(s, 1, Len(s)) = s
  OBVIOUS
<1>2. CASE Len(s) <= Len(t)
  <2>1. /\ SubSeq(t, 1, Len(s)) \in Seq(S) /\ Len(SubSeq(t, 1, Len(s))) = Len(s)
        /\ \A i \in 1 .. Len(s) : SubSeq(t, 1, Len(s))[i] = t[i]
    BY <1>2
  <2>2. SubSeq(t, 1, Len(s)) = s <=> \A i \in 1 .. Len(s) : s[i] = t[i]
    BY <2>1
  <2> QED BY <1>1, <1>2, <2>2 DEF IsPrefix
<1>3. CASE ~(Len(s) <= Len(t))
  BY <1>3 DEF IsPrefix
<1> QED BY <1>2, <1>3

LEMMA PrefixFacts ==
  ASSUME NEW S, NEW s \in Seq(S), NEW t \in Seq(S)
  PROVE  /\ IsPrefix(s, s)
         /\ IsPrefix(s, s \o t)
         /\ \A u \in Seq(S) : IsPrefix(s, t) /\ IsPrefix(t, u) => IsPrefix(s, u)
         /\ IsPrefix(s, t) /\ Len(s) = Len(t) => s = t
<1>1. IsPrefix(s, s)
  BY PrefixPointwise
<1>2. IsPrefix(s, s \o t)
  <2>1. s \o t \in Seq(S) /\ Len(s) <= Len(s \o t) /\ \A i \in 1 .. Len(s) : s[i] = (s \o t)[i]
    OBVIOUS
  <2> HIDE DEF IsPrefix
  <2> QED BY <2>1, PrefixPointwise
<1>3. ASSUME NEW u \in Seq(S), IsPrefix(s, t), IsPrefix(t, u) PROVE IsPrefix(s, u)
  <2>1. Len(s) <= Len(t) /\ \A i \in 1 .. Len(s) : s[i] = t[i]
    BY <1>3, PrefixPointwise
  <2>2. Len(t) <= Len(u) /\ \A i \in 1 .. Len(t) : t[i] = u[i]
    BY <1>3, PrefixPointwise
  <2>3. Len(s) <= Len(u) /\ \A i \in 1 .. Len(s) : s[i] = u[i]
    BY <2>1, <2>2
  <2> QED BY <2>3, PrefixPointwise
<1>4. ASSUME IsPrefix(s, t), Len(s) = Len(t) PROVE s = t
  <2>1. \A i \in 1 .. Len(s) : s[i] = t[i]
    BY <1>4, PrefixPointwise
  <2> QED BY <1>4, <2>1
<1> QED BY <1>1, <1>2, <1>3, <1>4

LEMMA AfterLineGrows ==
  ASSUME NEW disk, HasLines(disk), NEW header \in Walks(disk), Grows(disk, header),
         NEW f \in DOMAIN disk, NEW n \in 1 .. Len(disk[f]), NEW s \in Walked(disk)
  PROVE  IsPrefix(s.text, AfterLine(disk, header, f, n, s).text)
<1> DEFINE line == disk[f][n]
<1>1. s.text \in Seq(Place(disk)) /\ IsPrefix(s.text, s.text)
  BY PrefixFacts DEF Walked
<1>2. EndGroup(s).text = s.text /\ \A c : InGroup(s, c).text = s.text
      /\ \A m : [s EXCEPT !.macros = m].text = s.text
  BY DEF EndGroup, InGroup, Walked
<1>3. IsPrefix(s.text, [s EXCEPT !.text = @ \o LineText(f, n, line)].text)
  <2>1. [s EXCEPT !.text = @ \o LineText(f, n, line)].text = s.text \o LineText(f, n, line)
    BY DEF Walked
  <2> QED BY <1>1, <2>1, LineTextType, PrefixFacts
<1>4. line.arg \in DOMAIN disk => IsPrefix(s.text, header[<<line.arg, s>>].text)
  BY DEF Grows
<1> QED BY <1>1, <1>2, <1>3, <1>4, Zenon DEF AfterLine

LEMMA LastLinesGrow ==
  ASSUME NEW disk, HasLines(disk), NEW header \in Walks(disk), Grows(disk, header)
  PROVE  \A k \in Nat, f \in DOMAIN disk, s \in Walked(disk) :
           k <= Len(disk[f]) =>
             IsPrefix(s.text, LastLines(disk, header)[k][<<f, s>>].text)
<1> DEFINE walk == LastLines(disk, header)
           P == {k \in Nat : \A f \in DOMAIN disk, s \in Walked(disk) :
                   k <= Len(disk[f]) => IsPrefix(s.text, walk[k][<<f, s>>].text)}
<1>1. /\ walk \in [Nat -> Walks(disk)]
      /\ \A f \in DOMAIN disk, s \in Walked(disk) : walk[0][<<f, s>>] = s
      /\ \A k \in Nat, f \in DOMAIN disk, s \in Walked(disk) :
           k < Len(disk[f]) =>
             walk[k + 1][<<f, s>>] =
               walk[k][<<f, AfterLine(disk, header, f, Len(disk[f]) - k, s)>>]
  BY LastLinesEquations
<1> HIDE DEF walk
<1>2. \A s \in Walked(disk) : s.text \in Seq(Place(disk))
  BY DEF Walked
<1>3. 0 \in P
  BY <1>1, <1>2, PrefixFacts
<1>4. ASSUME NEW k \in P PROVE k + 1 \in P
  <2> SUFFICES ASSUME NEW f \in DOMAIN disk, NEW s \in Walked(disk), k + 1 <= Len(disk[f])
               PROVE  IsPrefix(s.text, walk[k + 1][<<f, s>>].text)
    OBVIOUS
  <2> DEFINE t == AfterLine(disk, header, f, Len(disk[f]) - k, s)
  <2>1. k \in Nat /\ k < Len(disk[f]) /\ Len(disk[f]) - k \in 1 .. Len(disk[f])
        /\ k <= Len(disk[f])
    BY DEF HasLines
  <2>2. t \in Walked(disk) /\ IsPrefix(s.text, t.text)
    BY <2>1, AfterLineType, AfterLineGrows
  <2>3. walk[k + 1][<<f, s>>] = walk[k][<<f, t>>]
    BY <1>1, <2>1
  <2> HIDE DEF t
  <2>4. IsPrefix(t.text, walk[k][<<f, t>>].text)
    BY <2>1, <2>2
  <2>5. walk[k][<<f, t>>] \in Walked(disk)
    BY <1>1, <2>1, <2>2 DEF Walks
  <2> HIDE DEF P
  <2> QED BY <1>2, <2>2, <2>3, <2>4, <2>5, PrefixFacts
<1>5. P \subseteq Nat
  OBVIOUS
<1>6. \A k \in Nat : k \in P
  <2> HIDE DEF P
  <2> QED BY <1>3, <1>4, <1>5, SetInduction
<1> QED BY <1>6 DEF walk

LEMMA FileWalkGrows ==
  ASSUME NEW disk, HasLines(disk)
  PROVE  \A room \in Nat : Grows(disk, FileWalk(disk)[room])
<1> DEFINE walk == FileWalk(disk)
           P == {room \in Nat : Grows(disk, walk[room])}
<1>1. /\ walk \in [Nat -> Walks(disk)]
      /\ \A f \in DOMAIN disk, s \in Walked(disk) : walk[0][<<f, s>>] = s
      /\ \A room \in Nat, f \in DOMAIN disk, s \in Walked(disk) :
           walk[room + 1][<<f, s>>] = LastLines(disk, walk[room])[Len(disk[f])][<<f, s>>]
  BY FileWalkEquations
<1> HIDE DEF walk
<1>2. 0 \in P
  <2>1. \A s \in Walked(disk) : s.text \in Seq(Place(disk))
    BY DEF Walked
  <2> QED BY <1>1, <2>1, PrefixFacts DEF Grows
<1>3. ASSUME NEW room \in P PROVE room + 1 \in P
  <2>1. room \in Nat /\ walk[room] \in Walks(disk) /\ Grows(disk, walk[room])
    BY <1>1
  <2>2. \A f \in DOMAIN disk : Len(disk[f]) \in Nat
    BY DEF HasLines
  <2>3. \A f \in DOMAIN disk, s \in Walked(disk) :
          IsPrefix(s.text, LastLines(disk, walk[room])[Len(disk[f])][<<f, s>>].text)
    <3> SUFFICES ASSUME NEW f \in DOMAIN disk, NEW s \in Walked(disk)
                 PROVE  IsPrefix(s.text,
                          LastLines(disk, walk[room])[Len(disk[f])][<<f, s>>].text)
      OBVIOUS
    <3>1. Len(disk[f]) \in Nat /\ Len(disk[f]) <= Len(disk[f])
      BY <2>2
    <3>2. \A k \in Nat : k <= Len(disk[f]) =>
            IsPrefix(s.text, LastLines(disk, walk[room])[k][<<f, s>>].text)
      BY <2>1, LastLinesGrow
    <3> QED BY <3>1, <3>2
  <2>4. Grows(disk, walk[room + 1])
    BY <1>1, <2>1, <2>3 DEF Grows
  <2> QED BY <2>1, <2>4
<1>4. P \subseteq Nat
  OBVIOUS
<1>5. \A room \in Nat : room \in P
  <2> HIDE DEF P
  <2> QED BY <1>2, <1>3, <1>4, SetInduction
<1> QED BY <1>5 DEF walk
(* The text of a source is a sequence of places in files. *)
LEMMA TextIsWalked ==
  ASSUME NEW disk, HasLines(disk), NEW f \in DOMAIN disk, NEW room \in Nat
  PROVE  Expanded(disk, f, room) \in Seq(Place(disk))
<1>1. FileWalk(disk)[room] \in Walks(disk)
  BY FileWalkEquations
<1>2. NothingWalked \in Walked(disk)
  BY DEF NothingWalked, Walked
<1>3. FileWalk(disk)[room][<<f, NothingWalked>>] \in Walked(disk)
  BY <1>1, <1>2 DEF Walks
<1> QED BY <1>3 DEF Walked, Expanded
=============================================================================
