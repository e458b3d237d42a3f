------------------------------ MODULE AuditLog ------------------------------
(***************************************************************************)
(* The tamper-evident event log of the agent (src/src/audit.rs): a JSONL   *)
(* file whose records are chained by SHA-256, written by agent processes   *)
(* that come and go.                                                       *)
(*                                                                         *)
(* A process opens the log once (AuditLog::open), keeps the head of the    *)
(* chain in memory (last_seq, last_hash) and appends to the file.  append  *)
(* hands its text to the file with writeln! on an unbuffered File, that is *)
(* in two writes: the record, then the newline.  Either write may fail,    *)
(* and the process may die before, between or after them.                  *)
(*                                                                         *)
(* A line of the file is a record, or Torn: a text serde_json refuses,     *)
(* because a write was cut short or two texts share the line.  Of a line   *)
(* two texts share, the first may be a whole record, and is one again if   *)
(* the host loses the rest.  Blank lines are skipped by every reader and   *)
(* are not represented.  event, detail and ts of a record are one value,   *)
(* its body.                                                               *)
(***************************************************************************)
EXTENDS Integers, Sequences

CONSTANTS
    Writer,      \* agent processes that may open the log
    Body,        \* contents a record may have: event, detail and timestamp
    Torn,        \* a line that does not parse
    MaxLines,    \* bound: lines in the file
    PowerLoss    \* may the host lose what append, which never syncs, wrote?

(* SHA-256 is ideal: a digest determines what was hashed.  The digest of a *)
(* record is then the chain itself up to that record.                      *)
Digest == Seq(Nat \X Body)
GENESIS == << >>
Hash(seq, body, prev) == Append(prev, <<seq, body>>)

AuditRecord == [seq : Nat, body : Body, prev_hash : Digest, hash : Digest]

ASSUME BodyAssumption == Body # {}
ASSUME BoundAssumption == MaxLines \in Nat
ASSUME SwitchAssumption == PowerLoss \in BOOLEAN
ASSUME TornAssumption == Torn \notin AuditRecord

VARIABLES
    disk,        \* the lines of the file
    starts,      \* the first text of each line: the line itself, unless
                 \* other texts share the line with it
    eol,         \* the file is empty or ends with a newline
    phase,       \* what each process is doing with the log
    last_seq,    \* AuditLog.last_seq of each process
    last_hash,   \* AuditLog.last_hash of each process
    pending,     \* the record whose newline each process has yet to write
    acked,       \* history: the records for which append returned Ok since
                 \* the last power cut
    shared       \* history: have two processes had the log open at once?

vars == <<disk, starts, eol, phase, last_seq, last_hash, pending, acked, shared>>

Phase == {"closed", "refused", "idle", "newline"}

NoRecord == [seq |-> 0, body |-> CHOOSE b \in Body : TRUE,
             prev_hash |-> GENESIS, hash |-> GENESIS]
-----------------------------------------------------------------------------
(* Reading the file.                                                       *)

Parses(lines) == \A k \in DOMAIN lines : lines[k] # Torn

(* Plausible slips in open: a restart that begins a new chain, and one     *)
(* that takes the head from the record before the last.                    *)
RestartedHead(lines) == [seq |-> Len(lines), hash |-> GENESIS]
HeadBeforeLast(lines) ==
    IF lines = << >> THEN [seq |-> -1, hash |-> GENESIS]
    ELSE [seq |-> lines[Len(lines)].seq - 1, hash |-> lines[Len(lines)].prev_hash]

(* The chain head that open takes from the last record of the file.        *)
ChainHead(lines) ==
    IF lines = << >> THEN [seq |-> 0, hash |-> GENESIS]
    ELSE [seq |-> lines[Len(lines)].seq, hash |-> lines[Len(lines)].hash]

(* A slip in verify: each record is held against itself only.              *)
LinkedToItself(lines, k) ==
    lines[k].hash = Hash(lines[k].seq, lines[k].body, lines[k].prev_hash)

Linked(lines, k) ==
    LET prev == IF k = 1 THEN GENESIS ELSE lines[k - 1].hash
    IN  /\ lines[k].seq = k
        /\ lines[k].prev_hash = prev
        /\ lines[k].hash = Hash(lines[k].seq, lines[k].body, prev)

SoundUpTo(lines, n) == \A j \in 1..n : lines[j] # Torn /\ Linked(lines, j)

(* verify walks the file from the front and stops at the first line that   *)
(* does not link to its predecessor.                                       *)
BreaksAt(lines, k) ==
    SoundUpTo(lines, k - 1) /\ lines[k] # Torn /\ ~Linked(lines, k)

(* A slip in verify: a line that does not parse is passed over.            *)
LenientVerify(lines) ==
    IF \E k \in DOMAIN lines : BreaksAt(lines, k)
    THEN [verdict |-> "broken", records |-> 0]
    ELSE [verdict |-> "ok", records |-> Len(lines)]

(* AuditLog::verify.  A line that does not parse, met before any break,    *)
(* makes it return an error.                                               *)
Verify(lines) ==
    IF SoundUpTo(lines, Len(lines)) THEN [verdict |-> "ok", records |-> Len(lines)]
    ELSE IF \E k \in DOMAIN lines : BreaksAt(lines, k)
    THEN [verdict |-> "broken",
          records |-> (CHOOSE k \in DOMAIN lines : BreaksAt(lines, k)) - 1]
    ELSE [verdict |-> "error", records |-> 0]
-----------------------------------------------------------------------------
(* Writing to the file, always at its end (OpenOptions::append).           *)

(* A slip: a text that follows an unterminated line replaces that line.    *)
OverwritingText(text) ==
    /\ disk' = IF eol THEN Append(disk, text)
               ELSE [disk EXCEPT ![Len(disk)] = text]
    /\ starts' = disk'
    /\ eol' = FALSE

(* A text that follows an unterminated line shares that line with it.      *)
PutText(text) ==
    /\ disk' = IF eol THEN Append(disk, text)
               ELSE [disk EXCEPT ![Len(disk)] = Torn]
    /\ starts' = IF eol THEN Append(starts, text) ELSE starts
    /\ eol' = FALSE

NextRecord(w, b) ==
    [seq |-> last_seq[w] + 1, body |-> b, prev_hash |-> last_hash[w],
     hash |-> Hash(last_seq[w] + 1, b, last_hash[w])]

Init ==
    /\ disk = << >>
    /\ starts = << >>
    /\ eol = TRUE
    /\ phase = [w \in Writer |-> "closed"]
    /\ last_seq = [w \in Writer |-> 0]
    /\ last_hash = [w \in Writer |-> GENESIS]
    /\ pending = [w \in Writer |-> NoRecord]
    /\ acked = {}
    /\ shared = FALSE

(* A process opens the log; one that finds a line it cannot parse returns  *)
(* an error and does not start.  Nothing keeps a second process out.       *)
Open(w) ==
    /\ phase[w] = "closed"
    /\ IF Parses(disk)
       THEN /\ phase' = [phase EXCEPT ![w] = "idle"]
            /\ shared' = IF \E v \in Writer : phase[v] \in {"idle", "newline"}
                         THEN TRUE ELSE shared
            /\ last_seq' = [last_seq EXCEPT ![w] = ChainHead(disk).seq]
            /\ last_hash' = [last_hash EXCEPT ![w] = ChainHead(disk).hash]
       ELSE /\ phase' = [phase EXCEPT ![w] = "refused"]
            /\ UNCHANGED <<last_seq, last_hash, shared>>
    /\ UNCHANGED <<disk, starts, eol, pending, acked>>

(* append, first write: the record.                                        *)
WriteRecord(w, b) ==
    /\ phase[w] = "idle"
    /\ Len(disk) < MaxLines
    /\ PutText(NextRecord(w, b))
    /\ pending' = [pending EXCEPT ![w] = NextRecord(w, b)]
    /\ phase' = [phase EXCEPT ![w] = "newline"]
    /\ UNCHANGED <<last_seq, last_hash, acked, shared>>

(* append, first write cut short (disk full): append returns the error and *)
(* the head stays where it was.                                            *)
WriteRecordFails(w) ==
    /\ phase[w] = "idle"
    /\ Len(disk) < MaxLines
    /\ PutText(Torn)
    /\ UNCHANGED <<phase, last_seq, last_hash, pending, acked, shared>>

(* append, second write: the newline.  Only now does the head move.        *)
WriteNewline(w) ==
    /\ phase[w] = "newline"
    /\ eol' = TRUE
    /\ last_seq' = [last_seq EXCEPT ![w] = pending[w].seq]
    /\ last_hash' = [last_hash EXCEPT ![w] = pending[w].hash]
    /\ acked' = acked \cup {pending[w]}
    /\ phase' = [phase EXCEPT ![w] = "idle"]
    /\ pending' = [pending EXCEPT ![w] = NoRecord]
    /\ UNCHANGED <<disk, starts, shared>>

(* append, second write fails: the record is in the file, the head is not  *)
(* moved.                                                                  *)
WriteNewlineFails(w) ==
    /\ phase[w] = "newline"
    /\ phase' = [phase EXCEPT ![w] = "idle"]
    /\ pending' = [pending EXCEPT ![w] = NoRecord]
    /\ UNCHANGED <<disk, starts, eol, last_seq, last_hash, acked, shared>>

(* The process ends: stopped, killed, or out of run() with an error.       *)
Exit(w) ==
    /\ phase[w] # "closed"
    /\ phase' = [phase EXCEPT ![w] = "closed"]
    /\ last_seq' = [last_seq EXCEPT ![w] = 0]
    /\ last_hash' = [last_hash EXCEPT ![w] = GENESIS]
    /\ pending' = [pending EXCEPT ![w] = NoRecord]
    /\ UNCHANGED <<disk, starts, eol, acked, shared>>

(* What may be left of a line the file is cut in, and the text it then     *)
(* begins with: a part of its first text, that text as a whole, or all of  *)
(* the line but its newline.                                               *)
Remains(k) == {<<Torn, Torn>>, <<starts[k], starts[k]>>, <<disk[k], starts[k]>>}

(* The host goes down and an unsynced end of the file with it: the file is *)
(* cut after the newline of a line, or inside a line.                      *)
HostCrash ==
    /\ PowerLoss
    /\ \E n \in 0..Len(disk) :
         \/ /\ n = Len(disk) => eol
            /\ disk' = SubSeq(disk, 1, n)
            /\ starts' = SubSeq(starts, 1, n)
            /\ eol' = TRUE
         \/ /\ n < Len(disk)
            /\ \E left \in Remains(n + 1) :
                 /\ disk' = Append(SubSeq(disk, 1, n), left[1])
                 /\ starts' = Append(SubSeq(starts, 1, n), left[2])
            /\ eol' = FALSE
    /\ phase' = [w \in Writer |-> "closed"]
    /\ last_seq' = [w \in Writer |-> 0]
    /\ last_hash' = [w \in Writer |-> GENESIS]
    /\ pending' = [w \in Writer |-> NoRecord]
    /\ acked' = {}
    /\ UNCHANGED shared

Next ==
    \/ \E w \in Writer :
         \/ Open(w)
         \/ \E b \in Body : WriteRecord(w, b)
         \/ WriteRecordFails(w)
         \/ WriteNewline(w)
         \/ WriteNewlineFails(w)
         \/ Exit(w)
    \/ HostCrash

Spec == Init /\ [][Next]_vars
-----------------------------------------------------------------------------
(* The first text of a line is the line, unless texts share it.            *)
TextsMatch ==
    /\ starts \in Seq(AuditRecord \cup {Torn})
    /\ Len(starts) = Len(disk)
    /\ \A k \in DOMAIN disk : disk[k] # Torn => starts[k] = disk[k]

(* Every variable holds a value of the kind audit.rs gives it: the file    *)
(* lines and texts, a process's head a sequence number and a digest.       *)
TypeOK ==
    /\ disk \in Seq(AuditRecord \cup {Torn})
    /\ TextsMatch
    /\ eol \in BOOLEAN
    /\ ~eol => disk # << >>
    /\ phase \in [Writer -> Phase]
    /\ last_seq \in [Writer -> Nat]
    /\ last_hash \in [Writer -> Digest]
    /\ pending \in [Writer -> AuditRecord]
    /\ acked \in SUBSET AuditRecord
    /\ shared \in BOOLEAN

(* A log written by one agent at a time never fails verification as        *)
(* tampered: whatever writes fail, wherever a process dies and whatever    *)
(* end of the file a power cut takes, verify reports it whole or           *)
(* unreadable, and never a broken link.                                    *)
NoFalseAlarm == ~shared => Verify(disk).verdict # "broken"

(* A log that verifies has lost nothing: each record for which append      *)
(* returned Ok is in it, on the line of its sequence number.  Holds for    *)
(* any number of processes appending at once, until a power cut.           *)
AckedAreKept ==
    Verify(disk).verdict = "ok" =>
        \A r \in acked : r.seq \in DOMAIN disk /\ disk[r.seq] = r

(* Evidence stays: once verify refuses a log, no later append or restart   *)
(* of an agent makes it pass.  Only a power cut can, with the end of the   *)
(* file it takes away.                                                     *)
StaysRefused == Verify(disk).verdict # "ok" => Verify(disk)'.verdict # "ok"
EvidenceStays == [][HostCrash \/ StaysRefused]_vars

(* What somebody makes of a log without computing a hash: its records in   *)
(* any order, any of them left out or copied; or other contents under the  *)
(* hash of one record.                                                     *)
Records(lines) == {lines[k] : k \in DOMAIN lines}
Rearranged(lines) == UNION {[1..n -> Records(lines)] : n \in 0..(Len(lines) + 1)}
Rewritten(lines, k) ==
    {[seq |-> x[1], body |-> x[2],
      prev_hash |-> lines[k].prev_hash, hash |-> lines[k].hash]
         : x \in (0..MaxLines) \X Body}

(* Tampering shows, short of a truncation: of a log that verifies, no      *)
(* rearrangement but a beginning of it and no rewriting of a record        *)
(* verifies (AuditLog::verify).  What becomes of a truncation is the       *)
(* question of DeletionShows.                                              *)
TamperingShows ==
    Verify(disk).verdict = "ok" =>
        /\ \A s \in Rearranged(disk) :
             Verify(s).verdict = "ok" =>
                 \E n \in 0..Len(disk) : s = SubSeq(disk, 1, n)
        /\ \A k \in DOMAIN disk : \A r \in Rewritten(disk, k) \ {disk[k]} :
             Verify([disk EXCEPT ![k] = r]).verdict = "broken"

Without(lines, k) == SubSeq(lines, 1, k - 1) \o SubSeq(lines, k + 1, Len(lines))

(* What audit.rs says of verify ("Any edit, deletion, or reordering of     *)
(* past records breaks the chain"): a log that verifies does not verify    *)
(* any more once one of its records is deleted (audit.rs:5-6, 134).        *)
DeletionShows ==
    Verify(disk).verdict = "ok" =>
        \A k \in DOMAIN disk : Verify(Without(disk, k)).verdict # "ok"

(* AuditLog::open recovers the chain head of any log the agent wrote, so   *)
(* an agent can always start again.                                        *)
OpenRecovers == \A w \in Writer : phase[w] # "refused"
-----------------------------------------------------------------------------
(* Why NoFalseAlarm and AckedAreKept are inductive.                        *)

(* With one process at a time, the process that has the log open is alone. *)
Alone ==
    \A v, w \in Writer :
        phase[v] \in {"idle", "newline"} /\ phase[w] \in {"idle", "newline"} => v = w

(* Up to the first line that does not parse, every line links.             *)
ReadableLinked ==
    \A k \in DOMAIN disk :
        (\A j \in 1..k : disk[j] # Torn) => Linked(disk, k)

(* So does the first text of a line, if other texts share the line with    *)
(* it: a power cut may leave that text alone.                              *)
StartsLinked ==
    \A k \in DOMAIN disk :
        (\A j \in 1..(k - 1) : disk[j] # Torn) /\ starts[k] # Torn =>
            Linked([disk EXCEPT ![k] = starts[k]], k)

(* The head a process would chain its next record to is the last line of   *)
(* the file, unless the file is already unreadable or its last line is     *)
(* unterminated: then that next record makes it unreadable.                *)
HeadIsCurrent ==
    \A w \in Writer :
        phase[w] = "idle" /\ eol /\ Parses(disk) =>
            /\ last_seq[w] = Len(disk)
            /\ last_hash[w] = ChainHead(disk).hash

(* A process between the two writes finds its record on the last line.     *)
PendingIsLast ==
    \A w \in Writer :
        phase[w] = "newline" =>
            /\ ~eol
            /\ Parses(disk) => disk[Len(disk)] = pending[w]

(* A record append has written stays in the file while the file parses.    *)
Kept(r) == Parses(disk) => \E k \in DOMAIN disk : disk[k] = r

WrittenIsKept ==
    /\ \A r \in acked : Kept(r)
    /\ \A w \in Writer : phase[w] = "newline" => Kept(pending[w])

IInv ==
    /\ TypeOK
    /\ WrittenIsKept
    /\ ~shared => /\ Alone /\ ReadableLinked /\ StartsLinked
                  /\ HeadIsCurrent /\ PendingIsLast
=============================================================================
