-------------------------- MODULE FileBackedMemory --------------------------
(***************************************************************************)
(* The JSON file of the harness memory (FileBackedMemory in                *)
(* harness/memory.py): add() locks the file it has opened, reads it,       *)
(* writes a temporary file and renames it over the path; search() reads    *)
(* under a shared lock.  flock locks an inode, and the rename gives the    *)
(* path another one.                                                       *)
(***************************************************************************)
EXTENDS Naturals, SequencesExt

CONSTANTS
  Writer, Reader,   \* processes that add, processes that search
  Sig,              \* memory signatures (evidence_signature)
  NoSig,            \* of a writer that adds nothing
  MaxAdds,          \* bound: calls of add, of each writer
  MaxCrashes        \* bound: writers that die

ASSUME MemoryAssumption ==
  /\ MaxAdds \in [Writer -> Nat] /\ MaxCrashes \in Nat
  /\ IsFiniteSet(Writer) /\ IsFiniteSet(Reader) /\ Writer \cap Reader = {}
  /\ NoSig \notin Sig /\ "torn" \notin Sig

Proc   == Writer \cup Reader
NoFile == 0
\* Inodes are reused: one for each path and each open file suffices.
Inode  == 1..(2 + Cardinality(Reader) + 2 * Cardinality(Writer))
Torn   == <<"torn">>     \* text that json.loads refuses

VARIABLES
  path, tmp,   \* the inodes that harness_memory.json and its .tmp file name
  text,        \* what an inode holds: the signatures of its records, or Torn
  locks,       \* the writer, if any, that holds the flock of an inode
  pc,
  fd,          \* the inode a process has opened
  out,         \* the temporary inode a writer has opened
  sig,         \* the signature a writer adds
  records,     \* the records a process has read
  retried,     \* writers whose add() raised once and is called again
  acked,       \* signatures that some add() has returned
  promised,    \* acked when a search was called
  adds, crashes,
  raced        \* auxiliary: two writers were inside add() at once

diskVars  == <<path, tmp, text>>
localVars == <<fd, out, sig, records>>
histVars  == <<acked, promised, adds, crashes, raced>>
vars == <<diskVars, locks, pc, localVars, retried, histVars>>

Init ==
  /\ path = NoFile /\ tmp = NoFile
  /\ text = [i \in Inode |-> <<>>]
  /\ locks = [i \in Inode |-> {}]
  /\ pc = [p \in Proc |-> "idle"]
  /\ fd = [p \in Proc |-> NoFile] /\ out = [p \in Proc |-> NoFile]
  /\ sig = [w \in Writer |-> NoSig]
  /\ records = [p \in Proc |-> <<>>]
  /\ retried = {} /\ acked = {}
  /\ promised = [r \in Reader |-> {}]
  /\ adds = [w \in Writer |-> 0] /\ crashes = 0 /\ raced = FALSE

Move(p, to) == pc' = [pc EXCEPT ![p] = to]
\* Corrupt JSON counts as an empty memory.
Parsed(i)   == IF text[i] = Torn THEN <<>> ELSE text[i]
Remembered  == IF path = NoFile THEN {} ELSE ToSet(Parsed(path))

\* The inode of a file that is created.
Unused == CHOOSE i \in Inode : i \notin {path, tmp} \cup Range(fd) \cup Range(out)

-----------------------------------------------------------------------------
(* add(). *)

\* open("a+") creates the file if the path names none.
Open(w) ==
  /\ IF path = NoFile THEN path' = Unused /\ text' = [text EXCEPT ![path'] = <<>>]
                      ELSE UNCHANGED <<path, text>>
  /\ fd' = [fd EXCEPT ![w] = path']
  /\ Move(w, "opened")
  /\ UNCHANGED <<tmp, locks, out, records, acked, promised, crashes>>

AddBegins(w, s) ==
  /\ pc[w] = "idle" /\ adds[w] < MaxAdds[w] /\ adds' = [adds EXCEPT ![w] = @ + 1]
  /\ sig' = [sig EXCEPT ![w] = s]
  /\ Open(w)
  /\ raced' = (raced \/ \E v \in Writer \ {w} : pc[v] # "idle")
  /\ UNCHANGED retried

\* mutant: the second call of add() is not given the metadata
AddAgainBare(w) ==
  /\ pc[w] = "raised" /\ w \notin retried
  /\ retried' = retried \cup {w} /\ sig' = [sig EXCEPT ![w] = NoSig]
  /\ Open(w)
  /\ UNCHANGED <<adds, raced>>

\* record_evidence falls back to a new FileBackedMemory after an exception.
AddAgain(w) ==
  /\ pc[w] = "raised" /\ w \notin retried
  /\ retried' = retried \cup {w}
  /\ Open(w)
  /\ UNCHANGED <<sig, adds, raced>>

\* mutant: the lock is not released
CloseLocked(p) ==
  /\ fd' = [fd EXCEPT ![p] = NoFile] /\ out' = [out EXCEPT ![p] = NoFile]
  /\ records' = [records EXCEPT ![p] = <<>>]
  /\ UNCHANGED <<locks, text>>

\* The lock is released and the files are closed; a file that no path names
\* and no process has open is gone.
Close(p) == /\ locks' = [i \in Inode |-> locks[i] \ {p}]
            /\ fd' = [fd EXCEPT ![p] = NoFile] /\ out' = [out EXCEPT ![p] = NoFile]
            /\ records' = [records EXCEPT ![p] = <<>>]
            /\ text' = [i \in Inode |-> IF i \in {path', tmp'} \cup Range(fd') \cup Range(out')
                                       THEN text[i] ELSE <<>>]
Ends(w) == /\ Close(w) /\ Move(w, "idle")
           /\ sig' = [sig EXCEPT ![w] = NoSig] /\ retried' = retried \ {w}
Returns(w) == Ends(w) /\ acked' = acked \cup {sig[w]}

KnownNever(w) == FALSE   \* mutant: signatures are not compared
Known(w)      == sig[w] \in ToSet(Parsed(fd[w]))

\* LOCK_EX, and the records are read at once: nobody can come between.
LockFree(w) == locks[fd[w]] = {}

AddDeduped(w) ==
  /\ pc[w] = "opened" /\ LockFree(w) /\ Known(w)
  /\ UNCHANGED <<path, tmp>> /\ Returns(w)
  /\ UNCHANGED <<promised, adds, crashes, raced>>

AddReads(w) ==
  /\ pc[w] = "opened" /\ LockFree(w) /\ ~Known(w)
  /\ locks' = [locks EXCEPT ![fd[w]] = {w}]
  /\ records' = [records EXCEPT ![w] = Parsed(fd[w])]
  /\ Move(w, "read")
  /\ UNCHANGED <<diskVars, fd, out, sig, retried, histVars>>

\* mutant: the file is rewritten in place
OpenInPlace(w) ==
  /\ pc[w] = "read"
  /\ text' = [text EXCEPT ![path] = <<>>]
  /\ out' = [out EXCEPT ![w] = path]
  /\ Move(w, "writing")
  /\ UNCHANGED <<path, tmp, locks, fd, sig, records, retried, histVars>>

\* write_text opens the temporary path with "w": an old file is truncated.
OpenTmp(w) ==
  /\ pc[w] = "read"
  /\ tmp' = IF tmp = NoFile THEN Unused ELSE tmp
  /\ text' = [text EXCEPT ![tmp'] = <<>>]
  /\ out' = [out EXCEPT ![w] = tmp']
  /\ Move(w, "writing")
  /\ UNCHANGED <<path, locks, fd, sig, records, retried, histVars>>

WrittenAlone(w) == {<<sig[w]>>}   \* mutant: the records read are left out

\* What another writer has put into the file since is overwritten from the
\* start; its longer tail remains.
Written(w) == {Append(records[w], sig[w])} \cup (IF text[out[w]] = <<>> THEN {} ELSE {Torn})
WriteTmp(w) ==
  /\ pc[w] = "writing"
  /\ \E t \in Written(w) : text' = [text EXCEPT ![out[w]] = t]
  /\ Move(w, "written")
  /\ UNCHANGED <<path, tmp, locks, localVars, retried, histVars>>

Replace(w) ==
  /\ pc[w] = "written" /\ tmp # NoFile
  /\ path' = tmp /\ tmp' = NoFile
  /\ Returns(w)
  /\ UNCHANGED <<promised, adds, crashes, raced>>

\* Another writer has renamed the temporary file: FileNotFoundError.
ReplaceRaises(w) ==
  /\ pc[w] = "written" /\ tmp = NoFile
  /\ UNCHANGED <<path, tmp>> /\ Close(w) /\ Move(w, "raised")
  /\ UNCHANGED <<sig, retried, histVars>>

\* The second exception reaches the runner, which goes on without the memory.
AddFails(w) ==
  /\ pc[w] = "raised" /\ w \in retried
  /\ UNCHANGED <<path, tmp>> /\ Ends(w)
  /\ UNCHANGED histVars

\* The process dies; the kernel drops its lock, the files stay as they are.
Crash(w) ==
  /\ pc[w] # "idle" /\ crashes < MaxCrashes
  /\ crashes' = crashes + 1
  /\ UNCHANGED <<path, tmp>> /\ Ends(w)
  /\ UNCHANGED <<acked, promised, adds, raced>>

-----------------------------------------------------------------------------
(* search(). *)

SearchOpens(r) ==
  /\ pc[r] = "idle" /\ path # NoFile
  /\ fd' = [fd EXCEPT ![r] = path]
  /\ promised' = [promised EXCEPT ![r] = acked]
  /\ Move(r, "opened")
  /\ UNCHANGED <<diskVars, locks, out, sig, records, retried, acked, adds, crashes, raced>>

\* LOCK_SH, the records are read, LOCK_UN.
SearchReads(r) ==
  /\ pc[r] = "opened" /\ locks[fd[r]] = {}
  /\ records' = [records EXCEPT ![r] = Parsed(fd[r])]
  /\ Move(r, "found")
  /\ UNCHANGED <<diskVars, locks, fd, out, sig, retried, histVars>>

SearchReturns(r) ==
  /\ pc[r] = "found"
  /\ UNCHANGED <<path, tmp>> /\ Close(r) /\ Move(r, "idle")
  /\ promised' = [promised EXCEPT ![r] = {}]
  /\ UNCHANGED <<sig, retried, acked, adds, crashes, raced>>

-----------------------------------------------------------------------------
AddStep(w) ==
  \/ AddAgain(w) \/ AddDeduped(w) \/ AddReads(w) \/ OpenTmp(w) \/ WriteTmp(w)
  \/ Replace(w) \/ ReplaceRaises(w) \/ AddFails(w)
SearchStep(r) == SearchReads(r) \/ SearchReturns(r)

Next == \/ \E w \in Writer : (\E s \in Sig : AddBegins(w, s)) \/ AddStep(w) \/ Crash(w)
        \/ \E r \in Reader : SearchOpens(r) \/ SearchStep(r)

Spec == Init /\ [][Next]_vars

\* A process that lives goes on, and the kernel wakes the writers that wait
\* for a lock in turn.
Fairness == /\ \A w \in Writer : WF_vars(AddStep(w)) /\ SF_vars(AddDeduped(w) \/ AddReads(w))
            /\ \A r \in Reader : WF_vars(SearchStep(r))
FairSpec == Spec /\ Fairness

-----------------------------------------------------------------------------
(* Properties. *)

TypeOK ==
  /\ path \in Inode \cup {NoFile} /\ tmp \in Inode \cup {NoFile}
  /\ \A i \in Inode : text[i] = Torn \/ text[i] \in Seq(Sig)
  /\ locks \in [Inode -> SUBSET Writer]
  /\ pc \in [Proc -> {"idle", "opened", "read", "writing", "written", "raised", "found"}]
  /\ fd \in [Proc -> Inode \cup {NoFile}] /\ out \in [Proc -> Inode \cup {NoFile}]
  /\ sig \in [Writer -> Sig \cup {NoSig}]
  /\ \A p \in Proc : records[p] \in Seq(Sig)
  /\ retried \subseteq Writer /\ acked \subseteq Sig
  /\ promised \in [Reader -> SUBSET Sig]
  /\ \A w \in Writer : adds[w] \in 0..MaxAdds[w]
  /\ crashes \in 0..MaxCrashes /\ raced \in BOOLEAN

\* "Dedupe by memory_signature": whatever writers overlap, the file never
\* holds two records of one signature.
SignaturesAreUnique ==
  path # NoFile => \A m, n \in DOMAIN Parsed(path) :
                     Parsed(path)[m] = Parsed(path)[n] => m = n

\* As long as adds do not overlap, what an add has returned is in the file,
\* and the file can be read, wherever a writer died.
SerialAddsAreKept ==
  ~raced => acked \subseteq Remembered /\ (path # NoFile => text[path] # Torn)

\* As long as adds do not overlap, a search finds all that was there when it
\* was called, even if the file is renamed over while it waits for the lock.
SearchFindsAcked ==
  ~raced => \A r \in Reader : pc[r] = "found" => promised[r] \subseteq ToSet(records[r])

\* Every add returns or raises.
AddEnds == \A w \in Writer : pc[w] # "idle" ~> pc[w] = "idle"

\* "File-backed writes use fcntl.flock() exclusive lock", so what an add has
\* returned is in the file.
AcknowledgedIsKept == acked \subseteq Remembered
=============================================================================
