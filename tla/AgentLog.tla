------------------------------ MODULE AgentLog ------------------------------
(***************************************************************************)
(* The agent's hash-chained log file (agent/logger.py, agent/crypto.py),   *)
(* the thread that anchors its head on the server                          *)
(* (agent/anchor_scheduler.py, server/routers/anchor.py), and what         *)
(* tools/verify_chain.py --file makes of the file after full disks, power  *)
(* cuts, restarts and changes of the encryption key.                       *)
(*                                                                         *)
(* The writers (monitor threads, through handle_event) hold the log's lock *)
(* for the whole of write, so a write is one step, as is the read of       *)
(* chain_head.  An event is named by its number; a record is kept as its   *)
(* prev_hash, its record_hash and the key it is encrypted with.            *)
(***************************************************************************)
EXTENDS HashChain, FiniteSets, SequencesExt

CONSTANTS
    Keys,         \* usable values of ITDN_LOG_KEY
    MaxEvents,    \* bound of the model: events written
    MaxFaults,    \* bound of the model: faults
    MaxRestarts   \* bound of the model: starts of the agent after the first

ASSUME LogAssumption ==
    /\ {"none", "invalid"} \cap Keys = {}
    /\ MaxEvents \in Nat /\ MaxFaults \in Nat /\ MaxRestarts \in Nat

VARIABLES
    file,      \* the lines of the log file, in order
    ended,     \* does the file end in a newline (or is it empty)?
    synced,    \* how many lines the kernel has written back: nothing calls fsync
    head,      \* LocalAuditLogger._prev_hash
    key,       \* ITDN_LOG_KEY of the running agent
    up,        \* is the agent running?
    posting,   \* the head in an anchor POST under way; Genesis: none
    anchors,   \* the chain_head_hash values of the server's log_anchors rows
    count,     \* events so far
    restarts,  \* restarts so far
    returned,  \* history: the hashes that write has returned
    faults,    \* history: faults so far
    cut        \* history: has a fault cost bytes of the file?

log == <<file, ended, synced>>
anchoring == <<posting, anchors>>
history == <<returned, faults, cut>>
logVars == <<log, head, key, up, anchoring, count, restarts, history>>

Settings == {"none", "invalid"} \cup Keys

(* A line that is not JSON: a part of a record, or two records run together. *)
Garbage == [prev_hash |-> "unreadable"]

(* is_encryption_enabled: an invalid key counts as no key.                 *)
Encrypts(k) == k \in Keys

(* decrypt_record raises on garbage and on a record of another key.        *)
Decrypts(k, line) == line # Garbage /\ line.key \in {"none", k}

(* The record that write makes of an event.                                *)
Record(prev, e, k) ==
    [prev_hash |-> prev, event |-> e, record_hash |-> Digest(prev, e),
     key |-> IF Encrypts(k) THEN k ELSE "none"]

(* Mutants, part of no specification: the tail is looked for in the record *)
(* before the last one; a new line is begun after an unfinished one.       *)
TailOffByOne(lines, k) ==
    IF lines # <<>> /\ Decrypts(k, Last(lines)) THEN Last(lines).prev_hash ELSE Genesis
Separated(lines, line) == Append(lines, line)

(* What _load_tail_hash takes from the last line of the file.              *)
TailOf(lines, k) ==
    IF lines # <<>> /\ Decrypts(k, Last(lines)) THEN Last(lines).record_hash ELSE Genesis

(* Bytes after an unfinished line make one unreadable line with it (and    *)
(* count as written back if the unfinished line has been).                 *)
Glued(lines, line) == IF ended THEN Append(lines, line) ELSE Append(Front(lines), Garbage)

LogInit ==
    /\ file = <<>> /\ ended = TRUE /\ synced = 0
    /\ key \in Settings
    /\ head = Genesis
    /\ up = TRUE
    /\ posting = Genesis /\ anchors = {}
    /\ count = 0 /\ restarts = 0
    /\ returned = {} /\ faults = 0 /\ cut = FALSE

-----------------------------------------------------------------------------
(* handle_event -> write                                                   *)

Write ==
    LET r == Record(head, count + 1, key) IN
    /\ up /\ count < MaxEvents
    /\ file' = Glued(file, r)
    /\ ended' = TRUE
    /\ head' = r.record_hash
    /\ returned' = returned \cup {r.record_hash}
    /\ count' = count + 1
    /\ UNCHANGED <<synced, key, up, anchoring, restarts, faults, cut>>

(* Mutant, part of no specification: _prev_hash is set before the write.   *)
FailureAdvancesHead ==
    /\ up /\ count < MaxEvents
    /\ count' = count + 1
    /\ head' = Digest(head, count + 1)
    /\ UNCHANGED <<log, key, up, anchoring, restarts, history>>

(* OSError with nothing written: handle_event goes on without the log.     *)
WriteFails ==
    /\ up /\ count < MaxEvents
    /\ count' = count + 1
    /\ UNCHANGED <<log, head, key, up, anchoring, restarts, history>>

(* What is on disk when the line's last bytes are not: a part of the       *)
(* record, or all of it but the newline.                                   *)
TornLines(r) == {Glued(file, Garbage), Glued(file, r)}

(* The disk fills up inside the line: OSError, _prev_hash stays.           *)
WriteTorn ==
    /\ up /\ count < MaxEvents /\ faults < MaxFaults
    /\ file' \in TornLines(Record(head, count + 1, key))
    /\ ended' = FALSE
    /\ count' = count + 1
    /\ faults' = faults + 1 /\ cut' = TRUE
    /\ UNCHANGED <<synced, head, key, up, anchoring, restarts, returned>>

-----------------------------------------------------------------------------
(* The anchor scheduler's loop, and the server's side of it.               *)

ReadHead ==
    /\ up /\ posting = Genesis /\ head # Genesis
    /\ posting' = head
    /\ UNCHANGED <<log, head, key, up, anchors, count, restarts, history>>

(* Mutant, part of no specification: one anchor per agent, the first stays. *)
AnchorIgnored ==
    /\ up /\ posting # Genesis
    /\ anchors' = IF anchors = {} THEN {posting} ELSE anchors
    /\ posting' = Genesis
    /\ UNCHANGED <<log, head, key, up, count, restarts, history>>

(* insert_anchor; whether its answer reaches the agent makes no difference. *)
AnchorStored ==
    /\ up /\ posting # Genesis
    /\ anchors' = anchors \cup {posting}
    /\ posting' = Genesis
    /\ UNCHANGED <<log, head, key, up, count, restarts, history>>

(* Refused, lost, or 503 because the server has no signing key: the thread *)
(* goes on, and posts whatever the head is after the next interval.        *)
AnchorFails ==
    /\ up /\ posting # Genesis
    /\ posting' = Genesis
    /\ UNCHANGED <<log, head, key, up, anchors, count, restarts, history>>

-----------------------------------------------------------------------------
(* The process, the machine and the service manager.                       *)

WriteBack ==
    /\ synced # Len(file)
    /\ synced' = Len(file)
    /\ UNCHANGED <<file, ended, head, key, up, anchoring, count, restarts, history>>

(* The process ends, by a signal or a crash; its file is with the kernel.  *)
Exit ==
    /\ up
    /\ up' = FALSE /\ posting' = Genesis
    /\ UNCHANGED <<log, head, key, anchors, count, restarts, history>>

(* The machine loses power: of what was not written back, a front survives, *)
(* which may end inside a line.                                            *)
PowerLoss ==
    /\ faults < MaxFaults /\ synced < Len(file)
    /\ \E n \in synced..Len(file) - 1 :
        LET kept == SubSeq(file, 1, n) IN
        \/ file' = kept /\ ended' = TRUE
        \/ file' = Append(kept, Garbage) /\ ended' = FALSE
        \/ file' = Append(kept, file[n + 1]) /\ ended' = FALSE
    /\ synced' = Len(file')
    /\ up' = FALSE /\ posting' = Genesis
    /\ faults' = faults + 1 /\ cut' = TRUE
    /\ UNCHANGED <<head, key, anchors, count, restarts, returned>>

(* Start on the same file, with the same or another ITDN_LOG_KEY.  A fault *)
(* of its own is a start that cannot read the record it should go on from. *)
FreshChain(k) == file # <<>> /\ ~Decrypts(k, Last(file))

Restart(k) ==
    /\ ~up /\ restarts < MaxRestarts
    /\ up' = TRUE
    /\ key' = k
    /\ head' = TailOf(file, k)
    /\ restarts' = restarts + 1
    /\ faults' = IF FreshChain(k) THEN faults + 1 ELSE faults
    /\ UNCHANGED <<log, anchoring, count, returned, cut>>

Anchoring == ReadHead \/ AnchorStored \/ AnchorFails
LogNext ==
    \/ Write \/ WriteFails \/ WriteTorn
    \/ Anchoring
    \/ WriteBack \/ Exit \/ PowerLoss
    \/ \E k \in Settings : Restart(k)

LogSpec == LogInit /\ [][LogNext]_logVars

(* The anchor thread runs while the agent does, its POST ends, and a       *)
(* server asked again and again stores an anchor at some point.            *)
Fairness == WF_logVars(Anchoring) /\ SF_logVars(AnchorStored)
FairLogSpec == LogSpec /\ Fairness

-----------------------------------------------------------------------------
(* tools/verify_chain.py --file, run with the key k: lines it cannot read  *)
(* are skipped with a warning; without a key an encrypted line stops it.   *)

ReadBy(k) == {i \in DOMAIN file : Decrypts(k, file[i])}
Verdict(k) ==
    IF k = "none" /\ \E i \in DOMAIN file : file[i] # Garbage /\ file[i].key # "none"
    THEN "no key"
    ELSE IF verify_chain(file, ReadBy(k)) = {} THEN "intact" ELSE "broken"

(* The places of the records that are still whole, whatever their key.     *)
Whole == {i \in DOMAIN file : file[i] # Garbage}
Hashes == {file[i].record_hash : i \in Whole}

-----------------------------------------------------------------------------
(* Properties.                                                             *)

LogHash == Seq(1..MaxEvents)
Lines == {Garbage} \cup
    [prev_hash : LogHash, event : 1..MaxEvents, record_hash : LogHash,
     key : {"none"} \cup Keys]

(* Every variable has its type.                                            *)
LogTypeOK ==
    /\ file \in Seq(Lines) /\ ended \in BOOLEAN /\ synced \in 0..Len(file)
    /\ head \in LogHash /\ key \in Settings /\ up \in BOOLEAN
    /\ posting \in LogHash /\ anchors \subseteq LogHash
    /\ count \in 0..MaxEvents /\ restarts \in Nat
    /\ returned \subseteq LogHash /\ faults \in Nat /\ cut \in BOOLEAN

(* What the breaks so far and one that is due have in common: a torn last  *)
(* line, or a head that is not the hash of the last whole record, is a     *)
(* break that a fault has already paid for and the next record may make.   *)
LastHash == HashBefore(file, Whole, Len(file) + 1)
Due == IF ~ended \/ (up /\ head # LastHash) THEN 1 ELSE 0
PaidFor == Cardinality(LinkErrors(file, Whole)) + Due <= faults

(* The chain of whole records breaks at most once for each fault: writes,  *)
(* failed writes and restarts never break it by themselves, and a torn     *)
(* line, a power cut or an unreadable tail breaks it in one place only.    *)
BreaksAreFaults == Cardinality(LinkErrors(file, Whole)) <= faults

(* As long as no fault has cost bytes of the file, every hash that write   *)
(* has returned, and so every anchor, is that of a record on the file.     *)
ReturnedIsOnFile ==
    ~cut => returned \cup anchors \cup {posting} \subseteq Hashes \cup {Genesis}

(* No two records on the file follow the same one: a write that failed but *)
(* left its whole record behind does not fork the chain.                   *)
NoFork ==
    \A i, j \in Whole :
        i # j /\ file[i].prev_hash = file[j].prev_hash => file[i].prev_hash = Genesis

(* When the verifier, with whatever key, calls the file intact, no record  *)
(* is missing that a record it could read commits to: a loss inside a      *)
(* chain shows, and what it skips can only be a chain of its own or an end.*)
IntactIsComplete ==
    \A k \in Settings : Verdict(k) = "intact" =>
        \A i \in ReadBy(k) : \A n \in 1..Len(file[i].record_hash) :
            \E j \in ReadBy(k) :
                j <= i /\ file[j].record_hash = SubSeq(file[i].record_hash, 1, n)

(* An agent left running anchors the head of its chain, or a later head    *)
(* that commits to it, unless it is stopped first: a failed POST does not  *)
(* end the thread.                                                         *)
EventuallyAnchored ==
    \A n \in 1..MaxEvents :
        (up /\ head # Genesis /\ Last(head) = n)
            ~> (~up \/ \E a \in anchors : n \in Range(a))

=============================================================================
