--------------------------- MODULE AuditLogProofs ---------------------------
(***************************************************************************)
(* Proofs about AuditLog, for any number of processes and any bound: the   *)
(* variables keep their types, a log written by one agent at a time never  *)
(* fails verification as tampered, a log that verifies has lost nothing,   *)
(* and a log that does not never will again.                               *)
(***************************************************************************)
EXTENDS AuditLog, SequenceTheorems, TLAPS

LEMMA NoRecordType == NoRecord \in AuditRecord
  BY BodyAssumption DEF NoRecord, AuditRecord, Digest, GENESIS

(* What append writes is a record.                                         *)
LEMMA NextRecordType ==
  ASSUME TypeOK, NEW w \in Writer, NEW b \in Body
  PROVE  NextRecord(w, b) \in AuditRecord
<1>1. last_seq[w] + 1 \in Nat /\ last_hash[w] \in Seq(Nat \X Body)
  BY DEF TypeOK, Digest
<1>2. Append(last_hash[w], <<last_seq[w] + 1, b>>) \in Seq(Nat \X Body)
  BY <1>1
<1> QED  BY <1>1, <1>2 DEF NextRecord, AuditRecord, Digest, Hash

(* What open recovers from a file it can parse is a chain head.            *)
LEMMA ChainHeadType ==
  ASSUME TypeOK, Parses(disk)
  PROVE  ChainHead(disk).seq \in Nat /\ ChainHead(disk).hash \in Digest
<1>1. CASE disk = << >>
  BY <1>1 DEF ChainHead, Digest, GENESIS
<1>2. CASE disk # << >>
  <2>1. Len(disk) \in DOMAIN disk
    BY <1>2 DEF TypeOK
  <2>2. disk[Len(disk)] \in AuditRecord
    BY <2>1 DEF TypeOK, Parses
  <2> QED  BY <1>2, <2>2 DEF ChainHead, AuditRecord
<1> QED  BY <1>1, <1>2

(* PutText adds a line to the file, or spoils the unterminated last line.  *)
LEMMA PutTextShape ==
  ASSUME TypeOK, NEW text \in AuditRecord \cup {Torn}, PutText(text)
  PROVE  /\ disk' \in Seq(AuditRecord \cup {Torn})
         /\ disk' # << >>
         /\ eol' = FALSE
         /\ TextsMatch'
         /\ eol => /\ Len(disk') = Len(disk) + 1
                   /\ \A i \in 1..Len(disk) : disk'[i] = disk[i]
                   /\ disk'[Len(disk) + 1] = text
                   /\ \A i \in 1..Len(disk) : starts'[i] = starts[i]
                   /\ starts'[Len(disk) + 1] = text
         /\ ~eol => /\ Len(disk') = Len(disk)
                    /\ disk'[Len(disk)] = Torn
                    /\ \A i \in 1..(Len(disk) - 1) : disk'[i] = disk[i]
                    /\ starts' = starts
<1> DEFINE Line == AuditRecord \cup {Torn}
<1>1. /\ disk \in Seq(Line) /\ text \in Line /\ Torn \in Line /\ eol \in BOOLEAN
      /\ starts \in Seq(Line) /\ Len(starts) = Len(disk) /\ Len(disk) \in Nat
      /\ \A k \in DOMAIN disk : disk[k] # Torn => starts[k] = disk[k]
  BY DEF TypeOK, TextsMatch
<1>2. CASE eol
  <2>1. disk' = Append(disk, text) /\ eol' = FALSE /\ starts' = Append(starts, text)
    BY <1>2 DEF PutText
  <2>2. /\ disk' \in Seq(Line) /\ disk' # << >> /\ Len(disk') = Len(disk) + 1
        /\ \A i \in 1..Len(disk) : disk'[i] = disk[i]
        /\ disk'[Len(disk) + 1] = text
    BY <1>1, <2>1, AppendProperties
  <2>3. /\ starts' \in Seq(Line) /\ Len(starts') = Len(disk) + 1
        /\ \A i \in 1..Len(disk) : starts'[i] = starts[i]
        /\ starts'[Len(disk) + 1] = text
    BY <1>1, <2>1, AppendProperties
  <2>4. TextsMatch'
    <3>1. ASSUME NEW k \in 1..(Len(disk) + 1), disk'[k] # Torn
          PROVE  starts'[k] = disk'[k]
      BY <1>1, <2>2, <2>3, <3>1
    <3> QED  BY <2>2, <2>3, <3>1 DEF TextsMatch
  <2> QED
    BY <1>2, <2>1, <2>2, <2>3, <2>4
<1>3. CASE ~eol
  <2>1. disk' = [disk EXCEPT ![Len(disk)] = Torn] /\ eol' = FALSE /\ starts' = starts
    BY <1>3 DEF PutText
  <2>2. disk # << >>
    BY <1>3 DEF TypeOK
  <2>3. Len(disk) \in 1..Len(disk)
    BY <1>1, <2>2
  <2>4. /\ disk' \in Seq(Line)
        /\ Len(disk') = Len(disk)
        /\ \A j \in 1..Len(disk) :
             disk'[j] = IF j = Len(disk) THEN Torn ELSE disk[j]
    BY <1>1, <2>1, <2>3, ExceptSeq
  <2>5. disk' # << >>
    BY <1>1, <2>3, <2>4
  <2>6. disk'[Len(disk)] = Torn
    BY <2>3, <2>4
  <2>7. \A i \in 1..(Len(disk) - 1) : disk'[i] = disk[i]
    BY <1>1, <2>4
  <2>8. TextsMatch'
    BY <1>1, <2>1, <2>4 DEF TextsMatch
  <2> QED  BY <1>3, <2>1, <2>4, <2>5, <2>6, <2>7, <2>8
<1> QED  BY <1>1, <1>2, <1>3

(* A power cut leaves the file's first lines as they were and, behind      *)
(* at most what remains of one more line.                                  *)
LEMMA HostCrashShape ==
  ASSUME TypeOK, HostCrash
  PROVE  \E n \in 0..Len(disk) :
           /\ disk' \in Seq(AuditRecord \cup {Torn})
           /\ TextsMatch'
           /\ Len(disk') \in {n, n + 1}
           /\ \A i \in 1..n : disk'[i] = disk[i] /\ starts'[i] = starts[i]
           /\ Len(disk') = n + 1 =>
                 /\ n < Len(disk)
                 /\ <<disk'[n + 1], starts'[n + 1]>> \in Remains(n + 1)
           /\ ~eol' => disk' # << >>
           /\ eol' \in BOOLEAN
<1> DEFINE Line == AuditRecord \cup {Torn}
<1>1. /\ disk \in Seq(Line) /\ Torn \in Line /\ Len(disk) \in Nat
      /\ starts \in Seq(Line) /\ Len(starts) = Len(disk)
      /\ \A k \in DOMAIN disk : disk[k] # Torn => starts[k] = disk[k]
  BY DEF TypeOK, TextsMatch
<1>2. PICK n \in 0..Len(disk) :
        \/ /\ disk' = SubSeq(disk, 1, n)
           /\ starts' = SubSeq(starts, 1, n)
           /\ eol' = TRUE
        \/ /\ n < Len(disk)
           /\ \E left \in Remains(n + 1) :
                /\ disk' = Append(SubSeq(disk, 1, n), left[1])
                /\ starts' = Append(SubSeq(starts, 1, n), left[2])
           /\ eol' = FALSE
  BY DEF HostCrash
<1>3. n \in Int /\ 1 \in Int /\ \A i \in 1..n : disk[i] \in Line /\ starts[i] \in Line
  BY <1>1
<1>4. /\ SubSeq(disk, 1, n) \in Seq(Line)
      /\ Len(SubSeq(disk, 1, n)) = n
      /\ \A i \in 1..n : SubSeq(disk, 1, n)[i] = disk[i]
  <2>1. /\ SubSeq(disk, 1, n) \in Seq(Line)
        /\ Len(SubSeq(disk, 1, n)) = IF 1 <= n THEN n - 1 + 1 ELSE 0
        /\ \A i \in 1..(n - 1 + 1) : SubSeq(disk, 1, n)[i] = disk[1 + i - 1]
    BY <1>3, SubSeqProperties
  <2> QED  BY <1>3, <2>1
<1>5. /\ SubSeq(starts, 1, n) \in Seq(Line)
      /\ Len(SubSeq(starts, 1, n)) = n
      /\ \A i \in 1..n : SubSeq(starts, 1, n)[i] = starts[i]
  <2>1. /\ SubSeq(starts, 1, n) \in Seq(Line)
        /\ Len(SubSeq(starts, 1, n)) = IF 1 <= n THEN n - 1 + 1 ELSE 0
        /\ \A i \in 1..(n - 1 + 1) : SubSeq(starts, 1, n)[i] = starts[1 + i - 1]
    BY <1>3, SubSeqProperties
  <2> QED  BY <1>3, <2>1
<1>6. CASE /\ disk' = SubSeq(disk, 1, n)
           /\ starts' = SubSeq(starts, 1, n)
           /\ eol' = TRUE
  <2>1. \A i \in 1..n : disk'[i] = disk[i] /\ starts'[i] = starts[i]
    BY <1>4, <1>5, <1>6
  <2>2. TextsMatch'
    BY <1>1, <1>4, <1>5, <1>6, <2>1 DEF TextsMatch
  <2> QED  BY <1>3, <1>4, <1>6, <2>1, <2>2
<1>7. ASSUME n < Len(disk), NEW left \in Remains(n + 1),
             disk' = Append(SubSeq(disk, 1, n), left[1]),
             starts' = Append(SubSeq(starts, 1, n), left[2]),
             eol' = FALSE
      PROVE  /\ disk' \in Seq(Line) /\ disk' # << >> /\ TextsMatch'
             /\ Len(disk') = n + 1
             /\ \A i \in 1..n : disk'[i] = disk[i] /\ starts'[i] = starts[i]
             /\ <<disk'[n + 1], starts'[n + 1]>> \in Remains(n + 1)
  <2>1. n + 1 \in 1..Len(disk) /\ disk[n + 1] \in Line /\ starts[n + 1] \in Line
    BY <1>1, <1>7
  <2>2. /\ left = <<left[1], left[2]>> /\ left[1] \in Line /\ left[2] \in Line
        /\ left[1] # Torn => left[2] = left[1]
    BY <1>1, <1>7, <2>1 DEF Remains
  <2>3. PICK front \in Seq(Line) :
          /\ disk' = Append(front, left[1])
          /\ Len(front) = n
          /\ \A i \in 1..n : front[i] = disk[i]
    BY <1>4, <1>7
  <2>4. /\ disk' \in Seq(Line)
        /\ disk' # << >>
        /\ Len(disk') = n + 1
        /\ \A i \in 1..n : disk'[i] = disk[i]
        /\ disk'[n + 1] = left[1]
    BY <2>2, <2>3, AppendProperties
  <2>5. PICK front2 \in Seq(Line) :
          /\ starts' = Append(front2, left[2])
          /\ Len(front2) = n
          /\ \A i \in 1..n : front2[i] = starts[i]
    BY <1>5, <1>7
  <2>6. /\ starts' \in Seq(Line)
        /\ Len(starts') = n + 1
        /\ \A i \in 1..n : starts'[i] = starts[i]
        /\ starts'[n + 1] = left[2]
    BY <2>2, <2>5, AppendProperties
  <2>7. ASSUME NEW k \in 1..(n + 1), disk'[k] # Torn PROVE starts'[k] = disk'[k]
    BY <1>1, <2>1, <2>2, <2>4, <2>6, <2>7
  <2>8. TextsMatch'
    BY <2>4, <2>6, <2>7 DEF TextsMatch
  <2> QED  BY <1>7, <2>2, <2>4, <2>6, <2>8
<1> QED  BY <1>2, <1>6, <1>7

LEMMA TypeInvariant == TypeOK /\ [Next]_vars => TypeOK'
<1> SUFFICES ASSUME TypeOK, [Next]_vars PROVE TypeOK'
  OBVIOUS
<1>1. ASSUME NEW w \in Writer, Open(w) PROVE TypeOK'
  <2>1. CASE Parses(disk)
    <3>1. ChainHead(disk).seq \in Nat /\ ChainHead(disk).hash \in Digest
      BY <2>1, ChainHeadType
    <3> QED  BY <1>1, <2>1, <3>1 DEF TypeOK, TextsMatch, Open, Phase
  <2>2. CASE ~Parses(disk)
    BY <1>1, <2>2 DEF TypeOK, TextsMatch, Open, Phase
  <2> QED  BY <2>1, <2>2
<1>2. ASSUME NEW w \in Writer, NEW b \in Body, WriteRecord(w, b) PROVE TypeOK'
  <2>1. NextRecord(w, b) \in AuditRecord
    BY NextRecordType
  <2>2. PutText(NextRecord(w, b))
    BY <1>2 DEF WriteRecord
  <2>3. /\ disk' \in Seq(AuditRecord \cup {Torn}) /\ eol' = FALSE /\ disk' # << >>
        /\ TextsMatch'
    BY <2>1, <2>2, PutTextShape
  <2> QED  BY <1>2, <2>1, <2>3 DEF TypeOK, WriteRecord, Phase
<1>3. ASSUME NEW w \in Writer, WriteRecordFails(w) PROVE TypeOK'
  <2>1. /\ disk' \in Seq(AuditRecord \cup {Torn}) /\ eol' = FALSE /\ disk' # << >>
        /\ TextsMatch'
    BY <1>3, PutTextShape DEF WriteRecordFails
  <2> QED  BY <1>3, <2>1 DEF TypeOK, WriteRecordFails
<1>4. ASSUME NEW w \in Writer, WriteNewline(w) PROVE TypeOK'
  <2>1. pending[w] \in AuditRecord
    BY DEF TypeOK
  <2>2. pending[w].seq \in Nat /\ pending[w].hash \in Digest
    BY <2>1 DEF AuditRecord
  <2> QED  BY <1>4, <2>1, <2>2, NoRecordType DEF TypeOK, TextsMatch, WriteNewline, Phase
<1>5. ASSUME NEW w \in Writer, WriteNewlineFails(w) PROVE TypeOK'
  BY <1>5, NoRecordType DEF TypeOK, TextsMatch, WriteNewlineFails, Phase
<1>6. ASSUME NEW w \in Writer, Exit(w) PROVE TypeOK'
  <2>1. GENESIS \in Digest
    BY DEF GENESIS, Digest
  <2> QED  BY <1>6, <2>1, NoRecordType DEF TypeOK, TextsMatch, Exit, Phase
<1>7. ASSUME HostCrash PROVE TypeOK'
  <2>1. GENESIS \in Digest
    BY DEF GENESIS, Digest
  <2>2. disk' \in Seq(AuditRecord \cup {Torn}) /\ eol' \in BOOLEAN
          /\ (~eol' => disk' # << >>) /\ TextsMatch'
    BY <1>7, HostCrashShape
  <2>3. /\ phase' \in [Writer -> Phase]
        /\ last_seq' \in [Writer -> Nat]
        /\ last_hash' \in [Writer -> Digest]
        /\ pending' \in [Writer -> AuditRecord]
        /\ acked' \in SUBSET AuditRecord
    BY <1>7, <2>1, NoRecordType DEF HostCrash, Phase
  <2>4. shared' \in BOOLEAN
    BY <1>7 DEF HostCrash, TypeOK
  <2> QED  BY <2>2, <2>3, <2>4 DEF TypeOK
<1>8. CASE UNCHANGED vars
  BY <1>8 DEF TypeOK, TextsMatch, vars
<1> QED  BY <1>1, <1>2, <1>3, <1>4, <1>5, <1>6, <1>7, <1>8 DEF Next

LEMMA InitTypeOK == Init => TypeOK
<1> SUFFICES ASSUME Init PROVE TypeOK
  OBVIOUS
<1>1. shared \in BOOLEAN
  BY DEF Init
<1> QED  BY <1>1, NoRecordType DEF Init, TypeOK, TextsMatch, Phase, Digest, GENESIS

(* Every variable holds a value of the kind audit.rs gives it.             *)
THEOREM TypeCorrect == Spec => []TypeOK
  BY InitTypeOK, TypeInvariant, PTL DEF Spec
-----------------------------------------------------------------------------
(* The chain.                                                              *)

(* Whether a line links depends on that line and the one before it.        *)
LEMMA LinkedPrefix ==
  ASSUME NEW s, NEW t, NEW k \in Nat \ {0}, \A i \in 1..k : s[i] = t[i],
         Linked(s, k)
  PROVE  Linked(t, k)
<1>1. s[k] = t[k] /\ (k # 1 => s[k - 1] = t[k - 1])
  OBVIOUS
<1> QED  BY <1>1 DEF Linked

(* Of a log that links, open recovers the number of its lines and the      *)
(* digest of its last one.                                                 *)
LEMMA HeadOfLinked ==
  ASSUME TypeOK, ReadableLinked, Parses(disk)
  PROVE  /\ ChainHead(disk).seq = Len(disk)
         /\ ChainHead(disk).hash = IF disk = << >> THEN GENESIS
                                   ELSE disk[Len(disk)].hash
<1>1. CASE disk = << >>
  BY <1>1 DEF ChainHead
<1>2. CASE disk # << >>
  <2>1. Len(disk) \in DOMAIN disk /\ \A j \in 1..Len(disk) : disk[j] # Torn
    BY <1>2 DEF TypeOK, Parses
  <2>2. Linked(disk, Len(disk))
    BY <2>1 DEF ReadableLinked
  <2> QED  BY <1>2, <2>2 DEF ChainHead, Linked
<1> QED  BY <1>1, <1>2

(* A file whose old lines stay and whose new one, if any, links or does    *)
(* not parse, still links as far as it can be read.                        *)
LEMMA ReadableLinkedStep ==
  ASSUME TypeOK, ReadableLinked, NEW n \in 0..Len(disk),
         disk' \in Seq(AuditRecord \cup {Torn}),
         Len(disk') \in {n, n + 1},
         \A i \in 1..n : disk'[i] = disk[i],
         Len(disk') = n + 1 /\ Parses(disk') => Linked(disk', n + 1)
  PROVE  ReadableLinked'
<1> SUFFICES ASSUME NEW k \in 1..Len(disk'), \A j \in 1..k : disk'[j] # Torn
             PROVE  Linked(disk', k)
  BY DEF ReadableLinked
<1>1. CASE k <= n
  <2>1. k \in DOMAIN disk /\ \A i \in 1..k : disk[i] = disk'[i]
    BY <1>1 DEF TypeOK
  <2>2. Linked(disk, k)
    BY <2>1 DEF ReadableLinked
  <2> QED  BY <2>1, <2>2, LinkedPrefix
<1>2. CASE ~(k <= n)
  <2>1. k = n + 1 /\ Len(disk') = n + 1
    BY <1>2
  <2>2. Parses(disk')
    BY <2>1 DEF Parses
  <2> QED  BY <2>1, <2>2
<1> QED  BY <1>1, <1>2

(* Only the line itself and the one before it have to be the same.         *)
LEMMA LinkedExcept ==
  ASSUME TypeOK, NEW k \in DOMAIN disk, NEW line, NEW t,
         \A i \in 1..(k - 1) : t[i] = disk[i], t[k] = line,
         Linked([disk EXCEPT ![k] = line], k)
  PROVE  Linked(t, k)
<1> DEFINE s == [disk EXCEPT ![k] = line]
<1>1. k \in Nat \ {0} /\ s[k] = line /\ \A i \in 1..(k - 1) : s[i] = disk[i]
  BY DEF TypeOK
<1>2. \A i \in 1..k : s[i] = t[i]
  BY <1>1
<1>3. Linked(s, k)
  OBVIOUS
<1> HIDE DEF s
<1> QED  BY <1>1, <1>2, <1>3, LinkedPrefix

(* What a cut or a second text leaves of the first text of a line links as *)
(* that text did.                                                          *)
LEMMA StartRemains ==
  ASSUME TypeOK, TypeOK', StartsLinked, NEW n \in Nat, n + 1 \in DOMAIN disk,
         Len(disk') = n + 1, \A i \in 1..n : disk'[i] = disk[i],
         \A i \in 1..n : disk[i] # Torn, starts[n + 1] # Torn
  PROVE  Linked([disk' EXCEPT ![n + 1] = starts[n + 1]], n + 1)
<1> DEFINE t == [disk' EXCEPT ![n + 1] = starts[n + 1]]
<1>1. t[n + 1] = starts[n + 1] /\ \A i \in 1..n : t[i] = disk[i]
  BY DEF TypeOK
<1>2. Linked([disk EXCEPT ![n + 1] = starts[n + 1]], n + 1)
  BY DEF StartsLinked
<1> HIDE DEF t
<1>3. Linked(t, n + 1)
  BY <1>1, <1>2, LinkedExcept
<1> QED  BY <1>3 DEF t

LEMMA StartsLinkedStep ==
  ASSUME TypeOK, TypeOK', StartsLinked, NEW n \in 0..Len(disk),
         Len(disk') \in {n, n + 1},
         \A i \in 1..n : disk'[i] = disk[i],
         \A i \in 1..n : starts'[i] = starts[i],
         /\ Len(disk') = n + 1
         /\ \A i \in 1..n : disk[i] # Torn
         /\ starts'[n + 1] # Torn
         => Linked([disk' EXCEPT ![n + 1] = starts'[n + 1]], n + 1)
  PROVE  StartsLinked'
<1>a. DOMAIN disk' = 1..Len(disk')
  BY DEF TypeOK
<1> SUFFICES ASSUME NEW k \in 1..Len(disk'), \A j \in 1..(k - 1) : disk'[j] # Torn,
                    starts'[k] # Torn
             PROVE  Linked([disk' EXCEPT ![k] = starts'[k]], k)
  BY <1>a, Zenon DEF StartsLinked
<1>1. CASE k <= n
  <2> DEFINE t == [disk' EXCEPT ![k] = starts'[k]]
  <2>1. /\ k \in DOMAIN disk /\ starts'[k] = starts[k]
        /\ \A j \in 1..(k - 1) : disk[j] = disk'[j]
    BY <1>1 DEF TypeOK
  <2>2. Linked([disk EXCEPT ![k] = starts[k]], k)
    BY <2>1 DEF StartsLinked
  <2>3. t[k] = starts[k] /\ \A i \in 1..(k - 1) : t[i] = disk[i]
    BY <2>1 DEF TypeOK
  <2> HIDE DEF t
  <2>4. Linked(t, k)
    BY <2>1, <2>2, <2>3, LinkedExcept
  <2> QED  BY <2>4 DEF t
<1>2. CASE ~(k <= n)
  <2>1. k = n + 1 /\ Len(disk') = n + 1
    BY <1>2
  <2> QED  BY <2>1
<1> QED  BY <1>1, <1>2

(* The record a lone, idle agent appends to a terminated log links.        *)
LEMMA NextRecordLinks ==
  ASSUME TypeOK, ReadableLinked, HeadIsCurrent, NEW w \in Writer, NEW b \in Body,
         phase[w] = "idle", eol, Parses(disk), NEW lines,
         lines[Len(disk) + 1] = NextRecord(w, b),
         \A i \in 1..Len(disk) : lines[i] = disk[i]
  PROVE  Linked(lines, Len(disk) + 1)
<1> DEFINE n == Len(disk)
<1>1. n \in Nat
  BY DEF TypeOK
<1>2. last_seq[w] = n /\ last_hash[w] = ChainHead(disk).hash
  BY DEF HeadIsCurrent
<1>3. last_hash[w] = IF n + 1 = 1 THEN GENESIS ELSE lines[n + 1 - 1].hash
  <2>1. CASE n = 0
    <3>1. disk = << >>
      BY <2>1 DEF TypeOK
    <3> QED  BY <1>2, <2>1, <3>1 DEF ChainHead
  <2>2. CASE n # 0
    <3>1. disk # << >> /\ lines[n] = disk[n] /\ n + 1 # 1 /\ n + 1 - 1 = n
      BY <1>1, <2>2
    <3> QED  BY <1>2, <3>1, HeadOfLinked
  <2> QED  BY <2>1, <2>2
<1>4. /\ lines[n + 1].seq = n + 1
      /\ lines[n + 1].prev_hash = last_hash[w]
      /\ lines[n + 1].hash = Hash(lines[n + 1].seq, lines[n + 1].body, last_hash[w])
  BY <1>2 DEF NextRecord
<1> DEFINE prev == IF n + 1 = 1 THEN GENESIS ELSE lines[n + 1 - 1].hash
<1>5. /\ lines[n + 1].seq = n + 1
      /\ lines[n + 1].prev_hash = prev
      /\ lines[n + 1].hash = Hash(lines[n + 1].seq, lines[n + 1].body, prev)
  BY <1>3, <1>4 DEF Hash
<1> QED  BY <1>5 DEF Linked, Hash

(* No agent but the one that acts has the log open.                        *)
LEMMA OthersClosed ==
  ASSUME TypeOK, Alone, NEW w \in Writer, phase[w] \in {"idle", "newline"},
         NEW v \in Writer, v # w
  PROVE  phase[v] \in {"closed", "refused"}
  BY DEF Alone, TypeOK, Phase

(* With one agent at a time the chain survives every step.                 *)
LEMMA ChainInvariant ==
  ASSUME TypeOK, TypeOK', ~shared', Alone, ReadableLinked, StartsLinked,
         HeadIsCurrent, PendingIsLast, [Next]_vars
  PROVE  Alone' /\ ReadableLinked' /\ HeadIsCurrent' /\ PendingIsLast'
<1>1. ASSUME NEW w \in Writer, Open(w)
      PROVE  Alone' /\ ReadableLinked' /\ HeadIsCurrent' /\ PendingIsLast'
  <2>1. disk' = disk /\ eol' = eol /\ pending' = pending
    BY <1>1 DEF Open
  <2>2. phase'[w] = "idle" =>
          \A v \in Writer : v # w => phase'[v] \in {"closed", "refused"}
    BY <1>1 DEF Open, TypeOK, Phase
  <2>3. phase'[w] \in {"idle", "refused"}
    BY <1>1 DEF Open, TypeOK
  <2>4. phase'[w] = "idle" =>
          /\ Parses(disk)
          /\ last_seq'[w] = ChainHead(disk).seq
          /\ last_hash'[w] = ChainHead(disk).hash
    BY <1>1 DEF Open, TypeOK
  <2>5. \A v \in Writer : v # w =>
          /\ phase'[v] = phase[v]
          /\ last_seq'[v] = last_seq[v]
          /\ last_hash'[v] = last_hash[v]
    BY <1>1 DEF Open, TypeOK
  <2>6. Alone'
    BY <2>2, <2>3, <2>5 DEF Alone
  <2>7. ReadableLinked'
    BY <2>1 DEF ReadableLinked
  <2>8. HeadIsCurrent'
    BY <2>1, <2>3, <2>4, <2>5, HeadOfLinked DEF HeadIsCurrent
  <2>9. PendingIsLast'
    BY <2>1, <2>3, <2>5 DEF PendingIsLast
  <2> QED  BY <2>6, <2>7, <2>8, <2>9
<1>2. ASSUME NEW w \in Writer, NEW b \in Body, WriteRecord(w, b)
      PROVE  Alone' /\ ReadableLinked' /\ HeadIsCurrent' /\ PendingIsLast'
  <2> DEFINE text == NextRecord(w, b)
  <2>1. phase[w] = "idle" /\ PutText(text) /\ text \in AuditRecord
    BY <1>2, NextRecordType DEF WriteRecord
  <2>2. \A v \in Writer : v # w => phase'[v] \in {"closed", "refused"}
    BY <1>2, <2>1, OthersClosed DEF WriteRecord, TypeOK
  <2>3. phase'[w] = "newline" /\ pending'[w] = text /\ eol' = FALSE
    BY <1>2 DEF WriteRecord, PutText, TypeOK
  <2>4. Alone'
    BY <2>2 DEF Alone
  <2>5. HeadIsCurrent'
    BY <2>3 DEF HeadIsCurrent
  <2>6. CASE eol
    <3>1. /\ disk' \in Seq(AuditRecord \cup {Torn})
          /\ Len(disk') = Len(disk) + 1
          /\ \A i \in 1..Len(disk) : disk'[i] = disk[i]
          /\ disk'[Len(disk) + 1] = text
      BY <2>1, <2>6, PutTextShape
    <3>2. Len(disk) \in 0..Len(disk) /\ Len(disk) \in Nat
      BY DEF TypeOK
    <3>3. ASSUME Parses(disk') PROVE Linked(disk', Len(disk) + 1)
      <4>1. ASSUME NEW k \in DOMAIN disk PROVE disk[k] # Torn
        <5>1. k \in 1..Len(disk) /\ k \in DOMAIN disk'
          BY <3>1, <3>2 DEF TypeOK
        <5> QED  BY <3>1, <3>3, <5>1 DEF Parses
      <4>2. Parses(disk)
        BY <4>1 DEF Parses
      <4> QED  BY <2>1, <2>6, <3>1, <4>2, NextRecordLinks
    <3>4. ReadableLinked'
      BY <3>1, <3>2, <3>3, ReadableLinkedStep
    <3>5. PendingIsLast'
      BY <2>2, <2>3, <3>1 DEF PendingIsLast
    <3> QED  BY <2>4, <2>5, <3>4, <3>5
  <2>7. CASE ~eol
    <3>1. /\ disk' \in Seq(AuditRecord \cup {Torn})
          /\ Len(disk') = Len(disk)
          /\ disk'[Len(disk)] = Torn
          /\ \A i \in 1..(Len(disk) - 1) : disk'[i] = disk[i]
      BY <2>1, <2>7, PutTextShape
    <3>2. Len(disk) \in Nat \ {0}
      BY <2>7 DEF TypeOK
    <3>3. ~Parses(disk')
      BY <3>1, <3>2 DEF Parses
    <3>4. Len(disk) - 1 \in 0..Len(disk) /\ Len(disk') = Len(disk) - 1 + 1
      BY <3>1, <3>2
    <3>5. ReadableLinked'
      BY <3>1, <3>3, <3>4, ReadableLinkedStep
    <3>6. PendingIsLast'
      BY <2>2, <2>3, <3>3 DEF PendingIsLast, Parses
    <3> QED  BY <2>4, <2>5, <3>5, <3>6
  <2> QED  BY <2>6, <2>7
<1>3. ASSUME NEW w \in Writer, WriteRecordFails(w)
      PROVE  Alone' /\ ReadableLinked' /\ HeadIsCurrent' /\ PendingIsLast'
  <2>1. phase[w] = "idle" /\ PutText(Torn) /\ eol' = FALSE /\ phase' = phase
    BY <1>3 DEF WriteRecordFails, PutText
  <2>2. \A v \in Writer : v # w => phase[v] \in {"closed", "refused"}
    BY <2>1, OthersClosed
  <2>3. Alone' /\ HeadIsCurrent' /\ PendingIsLast'
    BY <2>1, <2>2 DEF Alone, HeadIsCurrent, PendingIsLast
  <2>4. \E n \in 0..Len(disk) :
          /\ Len(disk') = n + 1
          /\ disk'[n + 1] = Torn
          /\ \A i \in 1..n : disk'[i] = disk[i]
    <3>1. CASE eol
      <4>1. Len(disk) \in 0..Len(disk)
        BY DEF TypeOK
      <4> QED  BY <2>1, <3>1, <4>1, PutTextShape
    <3>2. CASE ~eol
      <4>1. Len(disk) \in Nat \ {0}
        BY <3>2 DEF TypeOK
      <4>2. Len(disk) - 1 \in 0..Len(disk) /\ Len(disk) - 1 + 1 = Len(disk)
        BY <4>1
      <4> QED  BY <2>1, <3>2, <4>2, PutTextShape
    <3> QED  BY <3>1, <3>2
  <2>5. PICK n \in 0..Len(disk) :
          /\ Len(disk') = n + 1
          /\ disk'[n + 1] = Torn
          /\ \A i \in 1..n : disk'[i] = disk[i]
    BY <2>4
  <2>6. disk' \in Seq(AuditRecord \cup {Torn})
    BY <2>1, PutTextShape
  <2>7. ~Parses(disk')
    BY <2>5, <2>6 DEF Parses
  <2>8. ReadableLinked'
    BY <2>5, <2>6, <2>7, ReadableLinkedStep
  <2> QED  BY <2>3, <2>8
<1>4. ASSUME NEW w \in Writer, WriteNewline(w)
      PROVE  Alone' /\ ReadableLinked' /\ HeadIsCurrent' /\ PendingIsLast'
  <2>1. phase[w] = "newline" /\ disk' = disk
    BY <1>4 DEF WriteNewline
  <2>2. \A v \in Writer : v # w => phase'[v] \in {"closed", "refused"}
    BY <1>4, <2>1, OthersClosed DEF WriteNewline, TypeOK
  <2>3. /\ phase'[w] = "idle"
        /\ last_seq'[w] = pending[w].seq
        /\ last_hash'[w] = pending[w].hash
    BY <1>4 DEF WriteNewline, TypeOK
  <2>4. Alone'
    BY <2>2 DEF Alone
  <2>5. ReadableLinked'
    BY <2>1 DEF ReadableLinked
  <2>6. PendingIsLast'
    BY <2>2, <2>3 DEF PendingIsLast
  <2>7. ASSUME Parses(disk)
        PROVE  last_seq'[w] = Len(disk) /\ last_hash'[w] = ChainHead(disk).hash
    <3>1. disk # << >> /\ disk[Len(disk)] = pending[w]
      BY <2>1, <2>7 DEF PendingIsLast, TypeOK
    <3> QED  BY <2>3, <2>7, <3>1, HeadOfLinked DEF ChainHead
  <2>8. HeadIsCurrent'
    BY <2>1, <2>2, <2>7 DEF HeadIsCurrent
  <2> QED  BY <2>4, <2>5, <2>6, <2>8
<1>5. ASSUME NEW w \in Writer, WriteNewlineFails(w)
      PROVE  Alone' /\ ReadableLinked' /\ HeadIsCurrent' /\ PendingIsLast'
  <2>1. phase[w] = "newline" /\ disk' = disk /\ eol' = eol
    BY <1>5 DEF WriteNewlineFails
  <2>2. \A v \in Writer : v # w => phase'[v] \in {"closed", "refused"}
    BY <1>5, <2>1, OthersClosed DEF WriteNewlineFails, TypeOK
  <2>3. ~eol' /\ phase'[w] = "idle"
    BY <1>5, <2>1 DEF PendingIsLast, WriteNewlineFails, TypeOK
  <2> QED
    BY <2>1, <2>2, <2>3 DEF Alone, ReadableLinked, HeadIsCurrent, PendingIsLast
<1>6. ASSUME NEW w \in Writer, Exit(w)
      PROVE  Alone' /\ ReadableLinked' /\ HeadIsCurrent' /\ PendingIsLast'
  <2>1. disk' = disk /\ eol' = eol
    BY <1>6 DEF Exit
  <2>2. phase'[w] = "closed"
    BY <1>6 DEF Exit, TypeOK
  <2>3. \A v \in Writer : v # w =>
          /\ phase'[v] = phase[v]
          /\ last_seq'[v] = last_seq[v]
          /\ last_hash'[v] = last_hash[v]
          /\ pending'[v] = pending[v]
    BY <1>6 DEF Exit, TypeOK
  <2>4. Alone'
    BY <2>2, <2>3 DEF Alone
  <2>5. ReadableLinked'
    BY <2>1 DEF ReadableLinked
  <2>6. HeadIsCurrent'
    BY <2>1, <2>2, <2>3 DEF HeadIsCurrent
  <2>7. PendingIsLast'
    BY <2>1, <2>2, <2>3 DEF PendingIsLast
  <2> QED  BY <2>4, <2>5, <2>6, <2>7
<1>7. ASSUME HostCrash
      PROVE  Alone' /\ ReadableLinked' /\ HeadIsCurrent' /\ PendingIsLast'
  <2>1. \A v \in Writer : phase'[v] = "closed"
    BY <1>7 DEF HostCrash
  <2>2. Alone' /\ HeadIsCurrent' /\ PendingIsLast'
    BY <2>1 DEF Alone, HeadIsCurrent, PendingIsLast
  <2>3. PICK n \in 0..Len(disk) :
          /\ disk' \in Seq(AuditRecord \cup {Torn})
          /\ Len(disk') \in {n, n + 1}
          /\ \A i \in 1..n : disk'[i] = disk[i]
          /\ Len(disk') = n + 1 =>
                /\ n < Len(disk)
                /\ <<disk'[n + 1], starts'[n + 1]>> \in Remains(n + 1)
    BY <1>7, HostCrashShape
  <2>4. ASSUME Len(disk') = n + 1, Parses(disk') PROVE Linked(disk', n + 1)
    <3>1. n + 1 \in DOMAIN disk /\ n + 1 \in DOMAIN disk'
      BY <2>3, <2>4 DEF TypeOK
    <3>2. disk'[n + 1] = starts[n + 1] /\ starts[n + 1] # Torn
      BY <2>3, <2>4, <3>1 DEF Remains, Parses, TypeOK, TextsMatch
    <3>3. \A i \in 1..n : disk[i] # Torn
      BY <2>3, <2>4 DEF Parses
    <3>4. Linked([disk EXCEPT ![n + 1] = starts[n + 1]], n + 1)
      BY <3>1, <3>2, <3>3 DEF StartsLinked
    <3> QED  BY <2>3, <3>1, <3>2, <3>4, LinkedExcept
  <2>5. ReadableLinked'
    BY <2>3, <2>4, ReadableLinkedStep
  <2> QED  BY <2>2, <2>5
<1>8. CASE UNCHANGED vars
  BY <1>8 DEF Alone, ReadableLinked, HeadIsCurrent, PendingIsLast, vars
<1> QED
  BY <1>1, <1>2, <1>3, <1>4, <1>5, <1>6, <1>7, <1>8 DEF Next

(* With one agent at a time the first text of every line links as well.    *)
LEMMA StartsInvariant ==
  ASSUME TypeOK, TypeOK', ReadableLinked, StartsLinked, HeadIsCurrent, [Next]_vars
  PROVE  StartsLinked'
<1>1. CASE disk' = disk /\ starts' = starts
  BY <1>1 DEF StartsLinked
<1>2. ASSUME NEW w \in Writer, NEW b \in Body, WriteRecord(w, b)
      PROVE  StartsLinked'
  <2> DEFINE text == NextRecord(w, b)
  <2>1. phase[w] = "idle" /\ PutText(text) /\ text \in AuditRecord
    BY <1>2, NextRecordType DEF WriteRecord
  <2>2. CASE eol
    <3>1. /\ Len(disk') = Len(disk) + 1
          /\ \A i \in 1..Len(disk) : disk'[i] = disk[i] /\ starts'[i] = starts[i]
          /\ starts'[Len(disk) + 1] = text
      BY <2>1, <2>2, PutTextShape
    <3>2. Len(disk) \in 0..Len(disk)
      BY DEF TypeOK
    <3>3. ASSUME \A i \in 1..Len(disk) : disk[i] # Torn
          PROVE  Linked([disk' EXCEPT ![Len(disk) + 1] = text], Len(disk) + 1)
      <4> DEFINE lines == [disk' EXCEPT ![Len(disk) + 1] = text]
      <4>1. Parses(disk)
        BY <3>3 DEF Parses, TypeOK
      <4>2. lines[Len(disk) + 1] = text /\ \A i \in 1..Len(disk) : lines[i] = disk[i]
        BY <3>1 DEF TypeOK
      <4> HIDE DEF lines
      <4>3. Linked(lines, Len(disk) + 1)
        BY <2>1, <2>2, <4>1, <4>2, NextRecordLinks
      <4> QED  BY <4>3 DEF lines
    <3> QED  BY <3>1, <3>2, <3>3, StartsLinkedStep
  <2>3. CASE ~eol
    <3>1. /\ Len(disk') = Len(disk)
          /\ \A i \in 1..(Len(disk) - 1) : disk'[i] = disk[i]
          /\ starts' = starts
      BY <2>1, <2>3, PutTextShape
    <3>2. Len(disk) - 1 \in 0..Len(disk) /\ Len(disk') = Len(disk) - 1 + 1
          /\ Len(disk) - 1 + 1 \in DOMAIN disk
      BY <2>3, <3>1 DEF TypeOK
    <3>3. ASSUME \A i \in 1..(Len(disk) - 1) : disk[i] # Torn,
                 starts[Len(disk) - 1 + 1] # Torn
          PROVE  Linked([disk' EXCEPT ![Len(disk) - 1 + 1] = starts[Len(disk) - 1 + 1]],
                        Len(disk) - 1 + 1)
      <4>1. Len(disk) - 1 \in Nat
        BY <3>2 DEF TypeOK
      <4> QED  BY <3>1, <3>2, <3>3, <4>1, StartRemains
    <3> QED  BY <3>1, <3>2, <3>3, StartsLinkedStep
  <2> QED  BY <2>2, <2>3
<1>3. ASSUME NEW w \in Writer, WriteRecordFails(w) PROVE StartsLinked'
  <2>1. PutText(Torn)
    BY <1>3 DEF WriteRecordFails
  <2>2. CASE eol
    <3>1. /\ Len(disk') = Len(disk) + 1
          /\ \A i \in 1..Len(disk) : disk'[i] = disk[i] /\ starts'[i] = starts[i]
          /\ starts'[Len(disk) + 1] = Torn
      BY <2>1, <2>2, PutTextShape
    <3>2. Len(disk) \in 0..Len(disk)
      BY DEF TypeOK
    <3> QED  BY <3>1, <3>2, StartsLinkedStep
  <2>3. CASE ~eol
    <3>1. /\ Len(disk') = Len(disk)
          /\ \A i \in 1..(Len(disk) - 1) : disk'[i] = disk[i]
          /\ starts' = starts
      BY <2>1, <2>3, PutTextShape
    <3>2. Len(disk) - 1 \in 0..Len(disk) /\ Len(disk') = Len(disk) - 1 + 1
          /\ Len(disk) - 1 + 1 \in DOMAIN disk
      BY <2>3, <3>1 DEF TypeOK
    <3>3. ASSUME \A i \in 1..(Len(disk) - 1) : disk[i] # Torn,
                 starts[Len(disk) - 1 + 1] # Torn
          PROVE  Linked([disk' EXCEPT ![Len(disk) - 1 + 1] = starts[Len(disk) - 1 + 1]],
                        Len(disk) - 1 + 1)
      <4>1. Len(disk) - 1 \in Nat
        BY <3>2 DEF TypeOK
      <4> QED  BY <3>1, <3>2, <3>3, <4>1, StartRemains
    <3> QED  BY <3>1, <3>2, <3>3, StartsLinkedStep
  <2> QED  BY <2>2, <2>3
<1>4. ASSUME HostCrash PROVE StartsLinked'
  <2>1. PICK n \in 0..Len(disk) :
          /\ Len(disk') \in {n, n + 1}
          /\ \A i \in 1..n : disk'[i] = disk[i] /\ starts'[i] = starts[i]
          /\ Len(disk') = n + 1 =>
                /\ n < Len(disk)
                /\ <<disk'[n + 1], starts'[n + 1]>> \in Remains(n + 1)
    BY <1>4, HostCrashShape
  <2>2. ASSUME Len(disk') = n + 1, \A i \in 1..n : disk[i] # Torn,
               starts'[n + 1] # Torn
        PROVE  Linked([disk' EXCEPT ![n + 1] = starts'[n + 1]], n + 1)
    <3>1. starts'[n + 1] = starts[n + 1] /\ n + 1 \in DOMAIN disk
      BY <2>1, <2>2 DEF Remains, TypeOK, TextsMatch
    <3>2. n \in Nat /\ starts[n + 1] # Torn /\ \A i \in 1..n : disk'[i] = disk[i]
      BY <2>1, <2>2, <3>1 DEF TypeOK
    <3>3. Linked([disk' EXCEPT ![n + 1] = starts[n + 1]], n + 1)
      BY <2>2, <3>1, <3>2, StartRemains
    <3> QED  BY <3>1, <3>3
  <2> QED  BY <2>1, <2>2, StartsLinkedStep
<1> QED
  BY <1>1, <1>2, <1>3, <1>4
     DEF Next, Open, WriteNewline, WriteNewlineFails, Exit, vars

LEMMA InitChain ==
  Init => Alone /\ ReadableLinked /\ StartsLinked /\ HeadIsCurrent /\ PendingIsLast
<1> SUFFICES ASSUME Init
             PROVE  Alone /\ ReadableLinked /\ StartsLinked /\ HeadIsCurrent
                    /\ PendingIsLast
  OBVIOUS
<1>1. disk = << >> /\ \A w \in Writer : phase[w] = "closed"
  BY DEF Init
<1> QED
  BY <1>1 DEF Alone, ReadableLinked, StartsLinked, HeadIsCurrent, PendingIsLast

-----------------------------------------------------------------------------
(* What was written.                                                       *)

(* A text put at the end of the file spoils it or leaves every line.       *)
LEMMA PutTextKeeps ==
  ASSUME TypeOK, NEW text \in AuditRecord \cup {Torn}, PutText(text), NEW r,
         Kept(r) \/ r = text
  PROVE  Kept(r)'
<1> SUFFICES ASSUME Parses(disk') PROVE \E k \in DOMAIN disk' : disk'[k] = r
  BY DEF Kept
<1>1. disk' \in Seq(AuditRecord \cup {Torn}) /\ disk \in Seq(AuditRecord \cup {Torn})
  BY PutTextShape DEF TypeOK
<1>2. CASE eol
  <2>1. /\ Len(disk') = Len(disk) + 1
        /\ \A i \in 1..Len(disk) : disk'[i] = disk[i]
        /\ disk'[Len(disk) + 1] = text
    BY <1>2, PutTextShape
  <2>2. \A k \in DOMAIN disk : k \in DOMAIN disk' /\ disk[k] = disk'[k]
    BY <1>1, <2>1
  <2>3. Parses(disk)
    BY <2>2 DEF Parses
  <2>4. CASE r = text
    <3>1. Len(disk) + 1 \in DOMAIN disk'
      BY <1>1, <2>1
    <3> QED  BY <2>1, <2>4, <3>1
  <2>5. CASE Kept(r)
    BY <2>2, <2>3, <2>5 DEF Kept
  <2> QED  BY <2>4, <2>5
<1>3. CASE ~eol
  <2>1. Len(disk') = Len(disk) /\ disk'[Len(disk)] = Torn
    BY <1>3, PutTextShape
  <2>2. Len(disk) \in DOMAIN disk'
    BY <1>1, <1>3, <2>1 DEF TypeOK
  <2> QED  BY <2>1, <2>2 DEF Parses
<1> QED  BY <1>2, <1>3

LEMMA WrittenInvariant == TypeOK /\ WrittenIsKept /\ [Next]_vars => WrittenIsKept'
<1> SUFFICES ASSUME TypeOK, WrittenIsKept, [Next]_vars PROVE WrittenIsKept'
  OBVIOUS
<1>1. ASSUME NEW w \in Writer, NEW b \in Body, WriteRecord(w, b) PROVE WrittenIsKept'
  <2> DEFINE text == NextRecord(w, b)
  <2>1. /\ PutText(text) /\ text \in AuditRecord /\ acked' = acked
        /\ pending' = [pending EXCEPT ![w] = text]
        /\ phase' = [phase EXCEPT ![w] = "newline"]
    BY <1>1, NextRecordType DEF WriteRecord
  <2>2. \A r \in acked' : Kept(r)'
    BY <2>1, PutTextKeeps DEF WrittenIsKept
  <2>3. ASSUME NEW v \in Writer, phase'[v] = "newline" PROVE Kept(pending[v])'
    <3>1. PICK r : r = pending'[v]
      OBVIOUS
    <3>2. Kept(r) \/ r = text
      BY <2>1, <2>3, <3>1 DEF WrittenIsKept, TypeOK
    <3>3. Kept(r)'
      BY <2>1, <3>2, PutTextKeeps
    <3> QED  BY <3>1, <3>3 DEF Kept
  <2> QED  BY <2>2, <2>3 DEF WrittenIsKept
<1>2. ASSUME NEW w \in Writer, WriteRecordFails(w) PROVE WrittenIsKept'
  <2>1. PutText(Torn) /\ UNCHANGED <<acked, pending, phase>>
    BY <1>2 DEF WriteRecordFails
  <2>2. \A r : Kept(r) => Kept(r)'
    BY <2>1, PutTextKeeps
  <2> QED  BY <2>1, <2>2 DEF WrittenIsKept, Kept
<1>3. ASSUME NEW w \in Writer, WriteNewline(w) PROVE WrittenIsKept'
  <2>1. /\ phase[w] = "newline" /\ disk' = disk /\ acked' = acked \cup {pending[w]}
        /\ \A v \in Writer : phase'[v] = "newline" =>
              phase[v] = "newline" /\ pending'[v] = pending[v]
    BY <1>3 DEF WriteNewline, TypeOK
  <2> QED  BY <2>1 DEF WrittenIsKept, Kept
<1>4. ASSUME NEW w \in Writer, Open(w) \/ WriteNewlineFails(w) \/ Exit(w)
      PROVE  WrittenIsKept'
  <2>1. /\ disk' = disk /\ acked' = acked
        /\ \A v \in Writer : phase'[v] = "newline" =>
              phase[v] = "newline" /\ pending'[v] = pending[v]
    BY <1>4 DEF Open, WriteNewlineFails, Exit, TypeOK
  <2> QED  BY <2>1 DEF WrittenIsKept, Kept
<1>5. ASSUME HostCrash PROVE WrittenIsKept'
  <2>1. acked' = {} /\ \A v \in Writer : phase'[v] = "closed"
    BY <1>5 DEF HostCrash
  <2> QED  BY <2>1 DEF WrittenIsKept
<1>6. CASE UNCHANGED vars
  BY <1>6 DEF WrittenIsKept, Kept, vars
<1> QED  BY <1>1, <1>2, <1>3, <1>4, <1>5, <1>6 DEF Next

LEMMA InitWritten == Init => WrittenIsKept
  BY DEF Init, WrittenIsKept
-----------------------------------------------------------------------------
(* With one agent at a time, the head every agent holds is that of the     *)
(* file and the file links as far as it can be read; and always, what was  *)
(* written stays while the file can be read.                               *)
THEOREM ChainIsSound == Spec => []IInv
<1>1. Init => IInv
  BY InitTypeOK, InitChain, InitWritten DEF IInv
<1>2. IInv /\ [Next]_vars => IInv'
  <2> SUFFICES ASSUME IInv, [Next]_vars PROVE IInv'
    OBVIOUS
  <2>1. TypeOK /\ TypeOK' /\ WrittenIsKept'
    BY TypeInvariant, WrittenInvariant DEF IInv
  <2>2. ~shared' => ~shared
    BY DEF Next, Open, WriteRecord, WriteRecordFails, WriteNewline, WriteNewlineFails,
           Exit, HostCrash, vars, IInv, TypeOK
  <2>3. ~shared' => Alone' /\ ReadableLinked' /\ HeadIsCurrent' /\ PendingIsLast'
    BY <2>1, <2>2, ChainInvariant DEF IInv
  <2>4. ~shared' => StartsLinked'
    BY <2>1, <2>2, StartsInvariant DEF IInv
  <2> QED  BY <2>1, <2>3, <2>4 DEF IInv
<1> QED  BY <1>1, <1>2, PTL DEF Spec

(* verify finds no broken link in a log that links as far as it can be     *)
(* read.                                                                   *)
LEMMA NoBreak ==
  ASSUME TypeOK, ReadableLinked
  PROVE  Verify(disk).verdict # "broken"
<1>1. ASSUME NEW k \in DOMAIN disk, BreaksAt(disk, k) PROVE FALSE
  <2>1. \A j \in 1..k : disk[j] # Torn
    BY <1>1 DEF BreaksAt, SoundUpTo, TypeOK
  <2> QED  BY <1>1, <2>1 DEF BreaksAt, ReadableLinked
<1> QED  BY <1>1 DEF Verify

(* A log written by one agent at a time never fails verification as        *)
(* tampered (src/src/audit.rs, AuditLog::verify), whatever writes fail and *)
(* wherever processes die or the host loses power.                         *)
THEOREM NoFalseAlarmHolds == Spec => []NoFalseAlarm
<1>1. IInv => NoFalseAlarm
  BY NoBreak DEF IInv, NoFalseAlarm
<1> QED  BY <1>1, ChainIsSound, PTL

(* A log that verifies holds every record for which append returned Ok, on *)
(* the line of its sequence number (src/src/audit.rs, AuditLog::append),   *)
(* however many processes append to it.                                    *)
THEOREM AckedAreKeptHolds == Spec => []AckedAreKept
<1>1. IInv => AckedAreKept
  <2> SUFFICES ASSUME IInv, Verify(disk).verdict = "ok", NEW r \in acked
               PROVE  r.seq \in DOMAIN disk /\ disk[r.seq] = r
    BY DEF AckedAreKept
  <2>1. SoundUpTo(disk, Len(disk))
    BY DEF Verify
  <2>2. \A k \in DOMAIN disk : disk[k] # Torn /\ disk[k].seq = k
    BY <2>1 DEF SoundUpTo, Linked, IInv, TypeOK
  <2>3. PICK k \in DOMAIN disk : disk[k] = r
    BY <2>2 DEF IInv, WrittenIsKept, Kept, Parses
  <2> QED  BY <2>2, <2>3
<1> QED  BY <1>1, ChainIsSound, PTL

(* A file that verifies after a text was put at its end verified before.   *)
LEMMA PutTextHealsNothing ==
  ASSUME TypeOK, NEW text \in AuditRecord \cup {Torn}, PutText(text),
         SoundUpTo(disk', Len(disk'))
  PROVE  SoundUpTo(disk, Len(disk))
<1>1. disk' \in Seq(AuditRecord \cup {Torn}) /\ disk \in Seq(AuditRecord \cup {Torn})
  BY PutTextShape DEF TypeOK
<1>2. CASE eol
  <2>1. /\ Len(disk') = Len(disk) + 1
        /\ \A i \in 1..Len(disk) : disk'[i] = disk[i]
    BY <1>2, PutTextShape
  <2>2. ASSUME NEW k \in 1..Len(disk) PROVE disk[k] # Torn /\ Linked(disk, k)
    <3>1. /\ k \in 1..Len(disk') /\ k \in Nat \ {0}
          /\ \A i \in 1..k : disk'[i] = disk[i]
      BY <1>1, <2>1
    <3>2. disk'[k] # Torn /\ Linked(disk', k) /\ disk'[k] = disk[k]
      BY <2>1, <3>1 DEF SoundUpTo
    <3> QED  BY <3>1, <3>2, LinkedPrefix
  <2> QED  BY <2>2 DEF SoundUpTo
<1>3. CASE ~eol
  <2>1. Len(disk') = Len(disk) /\ disk'[Len(disk)] = Torn
    BY <1>3, PutTextShape
  <2>2. Len(disk) \in 1..Len(disk')
    BY <1>1, <1>3, <2>1 DEF TypeOK
  <2> QED  BY <2>1, <2>2 DEF SoundUpTo
<1> QED  BY <1>2, <1>3

(* Short of a power cut, no step of any number of agents makes a log that  *)
(* verify refuses pass again (src/src/audit.rs, AuditLog::append).         *)
THEOREM EvidenceStaysHolds == Spec => EvidenceStays
<1>1. TypeOK /\ [Next]_vars => [HostCrash \/ StaysRefused]_vars
  <2> SUFFICES ASSUME TypeOK, Next, ~HostCrash, SoundUpTo(disk, Len(disk))'
               PROVE  SoundUpTo(disk, Len(disk))
    BY DEF StaysRefused, Verify
  <2>1. CASE disk' = disk
    BY <2>1 DEF SoundUpTo, Linked
  <2>2. ASSUME NEW w \in Writer, NEW b \in Body, WriteRecord(w, b)
        PROVE  SoundUpTo(disk, Len(disk))
    <3>1. NextRecord(w, b) \in AuditRecord /\ PutText(NextRecord(w, b))
      BY <2>2, NextRecordType DEF WriteRecord
    <3> QED  BY <3>1, PutTextHealsNothing
  <2>3. ASSUME NEW w \in Writer, WriteRecordFails(w)
        PROVE  SoundUpTo(disk, Len(disk))
    BY <2>3, PutTextHealsNothing DEF WriteRecordFails
  <2> QED
    BY <2>1, <2>2, <2>3 DEF Next, Open, WriteNewline, WriteNewlineFails, Exit
<1> QED  BY <1>1, TypeCorrect, PTL DEF EvidenceStays, Spec
-----------------------------------------------------------------------------
(* Tampering.                                                              *)

(* Records of a log that verifies, put in an order that verifies, are a    *)
(* beginning of it: every record says which line it is.                    *)
LEMMA RearrangedIsPrefix ==
  ASSUME TypeOK, SoundUpTo(disk, Len(disk)),
         NEW s \in Seq(Records(disk)), SoundUpTo(s, Len(s))
  PROVE  Len(s) \in 0..Len(disk) /\ s = SubSeq(disk, 1, Len(s))
<1>1. disk \in Seq(AuditRecord \cup {Torn}) /\ Len(disk) \in Nat /\ Len(s) \in Nat
  BY DEF TypeOK
<1>2. ASSUME NEW j \in 1..Len(s) PROVE j \in 1..Len(disk) /\ s[j] = disk[j]
  <2>1. s[j].seq = j
    BY DEF SoundUpTo, Linked
  <2>2. PICK k \in 1..Len(disk) : s[j] = disk[k]
    BY <1>1 DEF Records
  <2>3. disk[k].seq = k
    BY <2>2 DEF SoundUpTo, Linked
  <2> QED  BY <2>1, <2>2, <2>3
<1>3. Len(s) <= Len(disk)
  <2>1. CASE Len(s) = 0
    BY <1>1, <2>1
  <2>2. CASE Len(s) # 0
    BY <1>1, <1>2, <2>2
  <2> QED  BY <2>1, <2>2
<1>4. /\ SubSeq(disk, 1, Len(s)) \in Seq(AuditRecord \cup {Torn})
      /\ Len(SubSeq(disk, 1, Len(s))) = Len(s)
      /\ \A i \in 1..Len(s) : SubSeq(disk, 1, Len(s))[i] = disk[i]
  <2>1. 1 \in Int /\ Len(s) \in Int /\ \A i \in 1..Len(s) : disk[i] \in AuditRecord \cup {Torn}
    BY <1>1, <1>3
  <2>2. /\ SubSeq(disk, 1, Len(s)) \in Seq(AuditRecord \cup {Torn})
        /\ Len(SubSeq(disk, 1, Len(s))) = IF 1 <= Len(s) THEN Len(s) - 1 + 1 ELSE 0
        /\ \A i \in 1..(Len(s) - 1 + 1) : SubSeq(disk, 1, Len(s))[i] = disk[1 + i - 1]
    BY <2>1, SubSeqProperties
  <2> QED  BY <1>1, <2>2
<1>5. s = SubSeq(disk, 1, Len(s))
  BY <1>2, <1>4, SeqEqual
<1> QED  BY <1>1, <1>3, <1>5

(* No two contents of a line have the same hash.                           *)
LEMMA RewrittenBreaks ==
  ASSUME TypeOK, SoundUpTo(disk, Len(disk)), NEW k \in DOMAIN disk,
         NEW r \in Rewritten(disk, k), r # disk[k]
  PROVE  Verify([disk EXCEPT ![k] = r]).verdict = "broken"
<1> DEFINE lines == [disk EXCEPT ![k] = r]
<1>1. /\ disk \in Seq(AuditRecord \cup {Torn}) /\ k \in 1..Len(disk)
      /\ disk[k] \in AuditRecord /\ Linked(disk, k)
  BY DEF TypeOK, SoundUpTo
<1>2. PICK n \in 0..MaxLines, b \in Body :
        r = [seq |-> n, body |-> b, prev_hash |-> disk[k].prev_hash, hash |-> disk[k].hash]
  BY DEF Rewritten
<1>3. /\ r \in AuditRecord /\ r.seq = n /\ r.body = b
      /\ r.prev_hash = disk[k].prev_hash /\ r.hash = disk[k].hash
  BY <1>1, <1>2, BoundAssumption DEF AuditRecord
<1>4. /\ DOMAIN lines = DOMAIN disk /\ Len(lines) = Len(disk) /\ lines[k] = r
      /\ \A j \in 1..Len(disk) : j # k => lines[j] = disk[j]
  BY <1>1, <1>3, ExceptSeq
<1>5. r # Torn
  BY <1>3, TornAssumption
<1>6. ~Linked(lines, k)
  <2> SUFFICES ASSUME Linked(lines, k) PROVE FALSE
    OBVIOUS
  <2> DEFINE prev == IF k = 1 THEN GENESIS ELSE disk[k - 1].hash
  <2>1. (IF k = 1 THEN GENESIS ELSE lines[k - 1].hash) = prev
    BY <1>1, <1>4
  <2>2. r.seq = k /\ r.prev_hash = prev /\ r.hash = Append(prev, <<r.seq, r.body>>)
    BY <1>4, <2>1 DEF Linked, Hash
  <2>3. /\ disk[k].seq = k /\ disk[k].prev_hash = prev
        /\ disk[k].hash = Append(prev, <<disk[k].seq, disk[k].body>>)
    BY <1>1 DEF Linked, Hash
  <2>4. prev \in Seq(Nat \X Body) /\ disk[k].body \in Body
    BY <1>1, <2>3 DEF AuditRecord, Digest
  <2>5. b = disk[k].body
    <3>1. <<r.seq, r.body>> \in Nat \X Body /\ <<disk[k].seq, disk[k].body>> \in Nat \X Body
      BY <1>1, <1>3, <2>3, <2>4 DEF AuditRecord
    <3>2. Append(prev, <<r.seq, r.body>>) = Append(prev, <<disk[k].seq, disk[k].body>>)
      BY <1>3, <2>2, <2>3
    <3>3. <<r.seq, r.body>> = <<disk[k].seq, disk[k].body>>
      BY <2>4, <3>1, <3>2, AppendInjective
    <3> QED  BY <1>3, <3>3
  <2>6. r = disk[k]
    BY <1>1, <1>2, <1>3, <2>2, <2>3, <2>5 DEF AuditRecord
  <2> QED  BY <2>6
<1>7. SoundUpTo(lines, k - 1)
  <2> SUFFICES ASSUME NEW j \in 1..(k - 1) PROVE lines[j] # Torn /\ Linked(lines, j)
    BY DEF SoundUpTo
  <2>1. /\ j \in Nat \ {0} /\ j \in 1..Len(disk) /\ \A i \in 1..j : disk[i] = lines[i]
    BY <1>1, <1>4
  <2>2. disk[j] # Torn /\ Linked(disk, j)
    BY <2>1 DEF SoundUpTo
  <2> QED  BY <2>1, <2>2, LinkedPrefix
<1>8. k \in DOMAIN lines /\ BreaksAt(lines, k)
  BY <1>4, <1>5, <1>6, <1>7 DEF BreaksAt
<1>9. ~SoundUpTo(lines, Len(lines))
  BY <1>1, <1>4, <1>6 DEF SoundUpTo
<1> HIDE DEF lines
<1> QED  BY <1>8, <1>9 DEF Verify, lines

(* Of a log that verifies (src/src/audit.rs, AuditLog::verify), nothing    *)
(* that is made of its records without computing a hash verifies, but for  *)
(* a beginning of it.                                                      *)
THEOREM TamperingShowsHolds == Spec => []TamperingShows
<1>1. TypeOK => TamperingShows
  <2> SUFFICES ASSUME TypeOK, SoundUpTo(disk, Len(disk)) PROVE TamperingShows
    BY DEF TamperingShows, Verify
  <2>1. ASSUME NEW s \in Rearranged(disk), Verify(s).verdict = "ok"
        PROVE  \E n \in 0..Len(disk) : s = SubSeq(disk, 1, n)
    <3>1. s \in Seq(Records(disk))
      <4>1. PICK n \in 0..(Len(disk) + 1) : s \in [1..n -> Records(disk)]
        BY DEF Rearranged
      <4>2. n \in Nat
        BY <4>1 DEF TypeOK
      <4> QED  BY <4>1, <4>2, SeqDef
    <3>2. SoundUpTo(s, Len(s))
      BY <2>1 DEF Verify
    <3> QED  BY <3>1, <3>2, RearrangedIsPrefix
  <2>2. \A k \in DOMAIN disk : \A r \in Rewritten(disk, k) \ {disk[k]} :
          Verify([disk EXCEPT ![k] = r]).verdict = "broken"
    BY RewrittenBreaks
  <2> QED  BY <2>1, <2>2 DEF TamperingShows
<1> QED  BY <1>1, TypeCorrect, PTL
=============================================================================
