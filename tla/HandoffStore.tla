---------------------------- MODULE HandoffStore ----------------------------
(***************************************************************************)
(* The durable state of the handoff subsystem: a tree of directories, one  *)
(* set of boxes per role, in which every message is one file.  The only    *)
(* operations on it are writing a file with an atomic rename, which makes  *)
(* it or replaces it, and moving a file from one box to another with a     *)
(* rename, so a box is a set of message ids and each of them is one step.  *)
(* (internal/handoff/store.go, selector.go)                                *)
(*                                                                         *)
(* An id stands for one logical handoff together with the fields its       *)
(* sender fixed: who sent it, to whom, at which priority, whether it       *)
(* carries a commit.  They are constant functions of the id, because no    *)
(* code changes them once the file is written; an id is used when its file *)
(* is first written.                                                       *)
(***************************************************************************)
EXTENDS Naturals, FiniteSets

CONSTANTS
    Roles,      \* the configured roles
    System,     \* the reserved sender of submitted tasks, not a role
    Ids,        \* the ids the generator may produce
    NoId,       \* the empty source_id
    Sender,     \* Sender[i]: the role whose outbox holds i, or System
    Dests,      \* Dests[i]: the destinations of i
    Priority,   \* Priority[i]: higher is more urgent
    Rank,       \* Rank[i]: position of i's file name (creation time, then id)
    GitIds,     \* the git_handoffs: they name a commit to resolve
    Malformed,  \* messages whose file does not parse back into a handoff
    MaxFaults   \* bound on the killed processes and file-system errors of a run

ASSUME RolesAssumption == System \notin Roles
ASSUME IdsAssumption == NoId \notin Ids
ASSUME SenderAssumption == Sender \in [Ids -> Roles \cup {System}]
ASSUME DestsAssumption ==
    /\ Dests \in [Ids -> SUBSET Roles]
    /\ \A i \in Ids : Dests[i] # {} /\ Sender[i] \notin Dests[i]
    /\ \A i \in Ids : Sender[i] = System => \E r \in Roles : Dests[i] = {r}
ASSUME OrderAssumption ==
    /\ Priority \in [Ids -> Nat]
    /\ Rank \in [Ids -> Nat]
    /\ \A i, j \in Ids : Rank[i] = Rank[j] => i = j
ASSUME KindAssumption == GitIds \subseteq Ids /\ Malformed \subseteq Ids
ASSUME MaxFaultsAssumption == MaxFaults \in Nat

VARIABLES
    outbox,     \* ids whose source file is in their sender's outbox/
    sent,       \* ... in their sender's sent/
    failed,     \* ... in their sender's failed/
    rejected,   \* ... in the shared rejected/
    inbox,      \* inbox[r]: ids with a destination copy in r's inbox/
    current,    \* current[r]: ... in r's current/
    completed,  \* completed[r]: ... in r's completed/
    archive,    \* archive[r]: copies of r that were acknowledged into archive/
    garbled,    \* garbled[r]: files of current[r] rewritten so that none parses
    marker,     \* marker[r]: r's current/ holds a batch marker
    source,     \* source[i]: the source_id field of a sent message, or NoId
    faults      \* kills and file-system errors so far, at most MaxFaults

sourceBoxes == <<outbox, sent, failed, rejected>>
copyBoxes == <<inbox, current, completed, archive, garbled>>
storeVars == <<sourceBoxes, copyBoxes, marker, source>>

StoreTypeOK ==
    /\ outbox \subseteq Ids
    /\ sent \subseteq Ids
    /\ failed \subseteq Ids
    /\ rejected \subseteq Ids
    /\ inbox \in [Roles -> SUBSET Ids]
    /\ current \in [Roles -> SUBSET Ids]
    /\ completed \in [Roles -> SUBSET Ids]
    /\ archive \in [Roles -> SUBSET Ids]
    /\ garbled \in [Roles -> SUBSET Ids]
    /\ marker \in [Roles -> BOOLEAN]
    /\ source \in [Ids -> Ids \cup {NoId}]
    /\ faults \in 0 .. MaxFaults

\* EnsureDirs leaves every box of every role present and empty.
StoreInit ==
    /\ outbox = {} /\ sent = {} /\ failed = {} /\ rejected = {}
    /\ inbox = [r \in Roles |-> {}]
    /\ current = [r \in Roles |-> {}]
    /\ completed = [r \in Roles |-> {}]
    /\ archive = [r \in Roles |-> {}]
    /\ garbled = [r \in Roles |-> {}]
    /\ marker = [r \in Roles |-> FALSE]
    /\ source = [i \in Ids |-> NoId]
    /\ faults = 0

\* A process is killed, or an operation on the file system fails.
Fault == faults < MaxFaults /\ faults' = faults + 1

-----------------------------------------------------------------------------
(* Reading the store.                                                      *)

\* Every copy of a role that exists anywhere, the archive included.
Received(r) == inbox[r] \cup current[r] \cup completed[r] \cup archive[r]

\* The boxes HasDelivery searches.
Held(r) == inbox[r] \cup current[r] \cup completed[r]

Accepted == outbox \cup sent \cup failed \cup rejected

\* NewID draws 128 random bits, so an id that is already in use never recurs.
Fresh(i) == i \notin Accepted /\ \A r \in Roles : i \notin Received(r)

\* List skips the files that do not parse.
Readable(box) == box \ Malformed

\* Current: the entries of r's current/ that parse.
Listed(r) == current[r] \ garbled[r]

\* A git_handoff of a role, with a commit to integrate; a submitted task has none.
CarriesCommit(i) == i \in GitIds /\ Sender[i] # System

\* SortEntries: priority descending, then the file name.
Before(i, j) ==
    \/ Priority[i] > Priority[j]
    \/ Priority[i] = Priority[j] /\ Rank[i] < Rank[j]

IsFirst(i, S) == i \in S /\ \A j \in S \ {i} : Before(i, j)

\* Select: one entry in task mode, the whole top priority in batch mode.
Select(S, mode) ==
    IF mode = "batch"
    THEN {i \in S : \A j \in S : Priority[j] <= Priority[i]}
    ELSE {i \in S : IsFirst(i, S)}

\* FindBySource over one of the two boxes it lists.
FromSource(box, r, k) == {i \in Readable(box) : Sender[i] = r /\ source[i] = k}

-----------------------------------------------------------------------------
(* Changing the store.  Each is one rename.                                *)

\* Send: the message appears in its sender's outbox, linked to its source.
WriteOutbox(i, k) ==
    /\ outbox' = outbox \cup {i}
    /\ source' = [source EXCEPT ![i] = k]
    /\ UNCHANGED <<sent, failed, rejected, copyBoxes, marker>>

\* Deliver, once HasDelivery has said no: the destination copy appears.
WriteInbox(i, r) ==
    /\ inbox' = [inbox EXCEPT ![r] = @ \cup {i}]
    /\ UNCHANGED <<sourceBoxes, current, completed, archive, garbled, marker, source>>

\* A defect: the copy for sent/ is made whether or not the source is still there.
RetireUnchecked(i) ==
    /\ outbox' = outbox \ {i}
    /\ sent' = sent \cup {i}
    /\ UNCHANGED <<failed, rejected, copyBoxes, marker, source>>

\* MoveTo(sent): a source that is no longer in the outbox makes the rename
\* fail, which is logged and changes nothing.
RetireToSent(i) ==
    /\ outbox' = outbox \ {i}
    /\ sent' = sent \cup (outbox \cap {i})
    /\ UNCHANGED <<failed, rejected, copyBoxes, marker, source>>

\* A defect: the failed source is deleted instead of kept.
RetireDropped(i) ==
    /\ outbox' = outbox \ {i}
    /\ UNCHANGED <<sent, failed, rejected, copyBoxes, marker, source>>

\* Fail: the same, into the sender's failed/ box.
RetireToFailed(i) ==
    /\ outbox' = outbox \ {i}
    /\ failed' = failed \cup (outbox \cap {i})
    /\ UNCHANGED <<sent, rejected, copyBoxes, marker, source>>

\* Reject: the same, into rejected/.
RetireToRejected(i) ==
    /\ outbox' = outbox \ {i}
    /\ rejected' = rejected \cup (outbox \cap {i})
    /\ UNCHANGED <<sent, failed, copyBoxes, marker, source>>

\* MoveTo(current) of an entry that is in the inbox.
MoveToCurrent(i, r) ==
    /\ inbox' = [inbox EXCEPT ![r] = @ \ {i}]
    /\ current' = [current EXCEPT ![r] = @ \cup {i}]
    /\ UNCHANGED <<sourceBoxes, completed, archive, garbled, marker, source>>

\* MoveTo(completed) of an entry that is in current, read there or not since.
MoveToCompleted(i, r) ==
    /\ current' = [current EXCEPT ![r] = @ \ {i}]
    /\ completed' = [completed EXCEPT ![r] = @ \cup {i}]
    /\ garbled' = [garbled EXCEPT ![r] = @ \ {i}]
    /\ UNCHANGED <<sourceBoxes, inbox, archive, marker, source>>

\* UpdateEntry of an entry read in current/ earlier: its file is written again
\* under the same path, and made again when it is no longer there.  The record
\* is not readable when a value in it runs over several lines.
Rewrite(i, r, readable) ==
    /\ current' = [current EXCEPT ![r] = @ \cup {i}]
    /\ garbled' = [garbled EXCEPT ![r] = IF readable THEN @ \ {i} ELSE @ \cup {i}]
    /\ UNCHANGED <<sourceBoxes, inbox, completed, archive, marker, source>>

\* Ack: inbox to archive.
MoveToArchive(i, r) ==
    /\ inbox' = [inbox EXCEPT ![r] = @ \ {i}]
    /\ archive' = [archive EXCEPT ![r] = @ \cup {i}]
    /\ UNCHANGED <<sourceBoxes, current, completed, garbled, marker, source>>

\* MoveTo(outbox) of a failed entry.
MoveToOutbox(i) ==
    /\ failed' = failed \ {i}
    /\ outbox' = outbox \cup {i}
    /\ UNCHANGED <<sent, rejected, copyBoxes, marker, source>>

\* SetBatchID and ClearBatchID.
SetMarker(r, b) ==
    /\ marker' = [marker EXCEPT ![r] = b]
    /\ UNCHANGED <<sourceBoxes, copyBoxes, source>>
=============================================================================
