----------------------- MODULE FileBackedMemory_proofs -----------------------
(* Proofs about FileBackedMemory, for any writers, readers and signatures. *)
EXTENDS FileBackedMemory, FiniteSetTheorems, TLAPS

Typed ==
  /\ path \in Inode \cup {NoFile} /\ tmp \in Inode \cup {NoFile}
  /\ text \in [Inode -> Seq(Sig) \cup {Torn}]
  /\ locks \in [Inode -> SUBSET Writer]
  /\ pc \in [Proc -> {"idle", "opened", "read", "writing", "written", "raised", "found"}]
  /\ fd \in [Proc -> Inode \cup {NoFile}] /\ out \in [Proc -> Inode \cup {NoFile}]
  /\ sig \in [Writer -> Sig \cup {NoSig}]
  /\ records \in [Proc -> Seq(Sig)]
  /\ retried \subseteq Writer /\ acked \subseteq Sig
  /\ promised \in [Reader -> SUBSET Sig]
  /\ raced \in BOOLEAN

Counters ==
  /\ adds \in [Writer -> Nat] /\ \A w \in Writer : adds[w] <= MaxAdds[w]
  /\ crashes \in 0 .. MaxCrashes

(* What the place of a process says of the files it has open; a writer has not *)
(* read the signature that it adds, and no two records of one signature.       *)
Unique(s) == \A m, n \in DOMAIN s : s[m] = s[n] => m = n
WriterInv(w) ==
  /\ pc[w] # "found" /\ (pc[w] # "idle" => sig[w] \in Sig)
  /\ pc[w] \in {"opened", "read", "writing", "written"} => fd[w] \in Inode
  /\ pc[w] \in {"writing", "written"} => out[w] \in Inode
  /\ pc[w] \in {"read", "writing", "written"} =>
       Unique(records[w]) /\ sig[w] \notin ToSet(records[w])
ReaderInv(r) ==
  /\ pc[r] \in {"idle", "opened", "found"} /\ out[r] = NoFile
  /\ pc[r] # "idle" => fd[r] \in Inode

LocalInv == (\A w \in Writer : WriterInv(w)) /\ (\A r \in Reader : ReaderInv(r))

\* No file has two records of one signature.
UniqueInv == /\ path # NoFile => path # tmp
             /\ \A i \in Inode : Unique(text[i])

IInv == Typed /\ Counters /\ LocalInv /\ UniqueInv

-----------------------------------------------------------------------------
(* Inodes. *)

LEMMA InodeFacts ==
  /\ NoFile \notin Inode /\ IsFiniteSet(Inode) /\ IsFiniteSet(Proc)
  /\ Cardinality(Writer) \in Nat /\ Cardinality(Reader) \in Nat /\ Cardinality(Proc) \in Nat
  /\ Cardinality(Inode) = 2 + Cardinality(Reader) + 2 * Cardinality(Writer)
  /\ Cardinality(Proc) <= Cardinality(Reader) + Cardinality(Writer)
<1>1. Cardinality(Writer) \in Nat /\ Cardinality(Reader) \in Nat
  BY MemoryAssumption, FS_CardinalityType
<1>2. /\ IsFiniteSet(Proc) /\ Cardinality(Proc) \in Nat
      /\ Cardinality(Proc) <= Cardinality(Reader) + Cardinality(Writer)
  <2>1. IsFiniteSet(Writer \cap Reader) /\ Cardinality(Writer \cap Reader) \in Nat
    BY MemoryAssumption, FS_Intersection, FS_CardinalityType
  <2>2. IsFiniteSet(Proc)
    BY MemoryAssumption, FS_Union DEF Proc
  <2>3. Cardinality(Proc) = Cardinality(Writer) + Cardinality(Reader)
                              - Cardinality(Writer \cap Reader)
    BY MemoryAssumption, FS_Union DEF Proc
  <2> QED BY <1>1, <2>1, <2>2, <2>3, FS_CardinalityType
<1> DEFINE n == 2 + Cardinality(Reader) + 2 * Cardinality(Writer)
<1>3. n \in Nat /\ n >= 2
  BY <1>1
<1> HIDE DEF n
<1>4. IsFiniteSet(1 .. n) /\ Cardinality(1 .. n) = n
  BY <1>3, FS_Interval
<1>5. Inode = 1 .. n
  BY DEF Inode, n
<1>6. NoFile \notin Inode
  BY <1>5 DEF NoFile
<1> QED BY <1>1, <1>2, <1>4, <1>5, <1>6 DEF n

\* The range of a function on a finite set.
LEMMA ImageBound ==
  ASSUME NEW S, IsFiniteSet(S), NEW f, DOMAIN f = S
  PROVE  LET T == {f[x] : x \in S} IN IsFiniteSet(T) /\ Cardinality(T) <= Cardinality(S)
<1> DEFINE T == {f[x] : x \in S}
           g == [x \in S |-> f[x]]
<1>1. g \in Surjection(S, T)
  BY DEF Surjection
<1> HIDE DEF g, T
<1>2. IsFiniteSet(T) /\ Cardinality(T) <= Cardinality(S)
  BY <1>1, FS_Surjection
<1> QED BY <1>2 DEF T

\* A file can be created: the paths and the open files do not name all inodes.
LEMMA UnusedInode ==
  ASSUME Typed, LocalInv, path = NoFile \/ tmp = NoFile
  PROVE  /\ Unused \in Inode /\ Unused # path /\ Unused # tmp
         /\ \A p \in Proc : Unused # fd[p] /\ Unused # out[p]
<1> DEFINE F == {fd[p] : p \in Proc}
           ow == [w \in Writer |-> out[w]]
           O == {ow[w] : w \in Writer}
           q == IF path = NoFile THEN tmp ELSE path
           U == ({q} \cup F) \cup O
<1>1. DOMAIN fd = Proc /\ DOMAIN out = Proc
  BY DEF Typed
<1>2. IsFiniteSet(F) /\ Cardinality(F) <= Cardinality(Proc)
  BY <1>1, InodeFacts, ImageBound
<1>3. IsFiniteSet(O) /\ Cardinality(O) <= Cardinality(Writer)
  <2>1. DOMAIN ow = Writer
    OBVIOUS
  <2> HIDE DEF ow
  <2> QED BY <2>1, MemoryAssumption, ImageBound
<1>4. O \subseteq {out[p] : p \in Proc} /\ {out[p] : p \in Proc} \subseteq O \cup {NoFile}
  BY DEF Proc, LocalInv, ReaderInv
<1> HIDE DEF O, F
<1>5. IsFiniteSet(U) /\ Cardinality(U) <= 1 + Cardinality(F) + Cardinality(O)
  <2>1. IsFiniteSet({q}) /\ Cardinality({q}) = 1
    BY FS_Singleton
  <2>2. IsFiniteSet({q} \cup F)
        /\ Cardinality({q} \cup F) <= 1 + Cardinality(F)
    <3>1. IsFiniteSet({q} \cap F) /\ Cardinality({q} \cap F) \in Nat
      BY <2>1, FS_Intersection, FS_CardinalityType
    <3>2. Cardinality(F) \in Nat
      BY <1>2, FS_CardinalityType
    <3>3. Cardinality({q} \cup F) = 1 + Cardinality(F) - Cardinality({q} \cap F)
      BY <1>2, <2>1, FS_Union
    <3> QED BY <1>2, <2>1, <3>1, <3>2, <3>3, FS_Union
  <2>3. IsFiniteSet(U)
    BY <1>3, <2>2, FS_Union
  <2>4. Cardinality(U) = Cardinality({q} \cup F) + Cardinality(O)
                           - Cardinality(({q} \cup F) \cap O)
    BY <1>3, <2>2, FS_Union
  <2>5. Cardinality(({q} \cup F) \cap O) \in Nat
    BY <2>2, FS_Intersection, FS_CardinalityType
  <2>6. /\ Cardinality(F) \in Nat /\ Cardinality(O) \in Nat
        /\ Cardinality({q} \cup F) \in Nat
    BY <1>2, <1>3, <2>2, FS_CardinalityType
  <2> HIDE DEF U
  <2> QED BY <2>2, <2>3, <2>4, <2>5, <2>6
<1>6. Cardinality(U) < Cardinality(Inode)
  <2>1. Cardinality(U) \in Nat /\ Cardinality(F) \in Nat /\ Cardinality(O) \in Nat
    BY <1>2, <1>3, <1>5, FS_CardinalityType
  <2> HIDE DEF U
  <2> QED BY <1>2, <1>3, <1>5, <2>1, InodeFacts
<1>7. \E i \in Inode : i \notin U
  <2> SUFFICES ASSUME Inode \subseteq U PROVE FALSE
    OBVIOUS
  <2>1. Cardinality(Inode) <= Cardinality(U)
    BY <1>5, FS_Subset
  <2>2. Cardinality(U) \in Nat /\ Cardinality(Inode) \in Nat
    BY <1>5, InodeFacts, FS_CardinalityType
  <2> HIDE DEF U
  <2> QED BY <1>6, <2>1, <2>2
<1>8. Range(fd) = F /\ Range(out) = {out[p] : p \in Proc}
  BY <1>1 DEF Range, F
<1>9. \E i \in Inode : i \notin {path, tmp} \cup Range(fd) \cup Range(out)
  BY <1>4, <1>7, <1>8, InodeFacts
<1>10. Unused \in Inode /\ Unused \notin {path, tmp} \cup Range(fd) \cup Range(out)
  BY <1>9 DEF Unused
<1> QED BY <1>8, <1>10 DEF F

LEMMA TornUnique == Unique(Torn) /\ Unique(<<>>) /\ Torn \notin Seq(Sig)
<1>1. Unique(Torn) /\ Unique(<<>>)
  BY DEF Unique, Torn
<1>2. ASSUME Torn \in Seq(Sig) PROVE FALSE
  <2>1. Torn[1] = "torn" /\ 1 \in 1 .. Len(Torn)
    BY DEF Torn
  <2>2. Torn[1] \in Sig
    BY <1>2, <2>1
  <2> QED BY <2>1, <2>2, MemoryAssumption
<1> QED BY <1>1, <1>2

LEMMA ParsedTyped ==
  ASSUME Typed, UniqueInv, NEW i \in Inode
  PROVE  Parsed(i) \in Seq(Sig) /\ Unique(Parsed(i))
BY TornUnique DEF Typed, UniqueInv, Parsed

\* A record is added to records that have none of its signature.
LEMMA UniqueAppend ==
  ASSUME NEW t \in Seq(Sig), NEW x \in Sig, Unique(t), x \notin ToSet(t)
  PROVE  Append(t, x) \in Seq(Sig) /\ Unique(Append(t, x))
<1>1. /\ Append(t, x) \in Seq(Sig) /\ Len(Append(t, x)) = Len(t) + 1 /\ Len(t) \in Nat
      /\ DOMAIN Append(t, x) = 1 .. Len(t) + 1 /\ DOMAIN t = 1 .. Len(t)
      /\ \A i \in 1 .. Len(t) : Append(t, x)[i] = t[i]
      /\ Append(t, x)[Len(t) + 1] = x
  OBVIOUS
<1>2. \A i \in 1 .. Len(t) : t[i] # x
  BY <1>1 DEF ToSet
<1>3. ASSUME NEW m \in 1 .. Len(t) + 1, NEW n \in 1 .. Len(t) + 1,
             Append(t, x)[m] = Append(t, x)[n]
      PROVE  m = n
  <2>1. CASE m \in 1 .. Len(t) /\ n \in 1 .. Len(t)
    BY <1>1, <1>3, <2>1 DEF Unique
  <2>2. CASE m = Len(t) + 1 \/ n = Len(t) + 1
    BY <1>1, <1>2, <1>3, <2>2
  <2> QED BY <1>1, <2>1, <2>2
<1> QED BY <1>1, <1>3 DEF Unique

\* What closing leaves of the open files and of the texts.
LEMMA CloseKeeps ==
  ASSUME Typed, UniqueInv, NEW p \in Proc, Close(p)
  PROVE  /\ text' \in [Inode -> Seq(Sig) \cup {Torn}] /\ locks' \in [Inode -> SUBSET Writer]
         /\ fd' \in [Proc -> Inode \cup {NoFile}] /\ out' \in [Proc -> Inode \cup {NoFile}]
         /\ records' \in [Proc -> Seq(Sig)]
         /\ \A i \in Inode : Unique(text'[i])
         /\ \A q \in Proc \ {p} : fd'[q] = fd[q] /\ out'[q] = out[q] /\ records'[q] = records[q]
         /\ fd'[p] = NoFile /\ out'[p] = NoFile
         /\ \A i \in Inode : i \in {path', tmp'} => text'[i] = text[i]
         /\ \A q \in Proc \ {p} : fd[q] \in Inode => text'[fd[q]] = text[fd[q]]
<1>1. /\ fd' \in [Proc -> Inode \cup {NoFile}] /\ out' \in [Proc -> Inode \cup {NoFile}]
      /\ \A q \in Proc \ {p} : fd'[q] = fd[q] /\ out'[q] = out[q]
      /\ fd'[p] = NoFile /\ out'[p] = NoFile
  BY DEF Typed, Close
<1>2. records' \in [Proc -> Seq(Sig)] /\ \A q \in Proc \ {p} : records'[q] = records[q]
  BY DEF Typed, Close
<1>3. locks' \in [Inode -> SUBSET Writer]
  BY DEF Typed, Close
<1> DEFINE keep == {path', tmp'} \cup Range(fd') \cup Range(out')
<1>9. text' = [i \in Inode |-> IF i \in keep THEN text[i] ELSE <<>>]
  BY DEF Close
<1> HIDE DEF keep
<1>4. /\ \A i \in Inode : text'[i] = text[i] \/ text'[i] = <<>>
      /\ \A i \in Inode : i \in keep => text'[i] = text[i]
  BY <1>9
<1>5. text' \in [Inode -> Seq(Sig) \cup {Torn}]
  BY <1>9 DEF Typed
<1>6. \A i \in Inode : Unique(text'[i])
  BY <1>4, TornUnique DEF UniqueInv
<1>7. \A q \in Proc : fd'[q] \in Range(fd')
  BY <1>1 DEF Range
<1>8. \A q \in Proc \ {p} : fd[q] \in Inode => text'[fd[q]] = text[fd[q]]
  BY <1>1, <1>4, <1>7 DEF keep
<1>10. \A i \in Inode : i \in {path', tmp'} => text'[i] = text[i]
  BY <1>4 DEF keep
<1> QED BY <1>1, <1>2, <1>3, <1>5, <1>6, <1>8, <1>10

\* Opening the file, which may create it.
LEMMA OpenKeeps ==
  ASSUME Typed, LocalInv, UniqueInv, NEW w \in Writer, Open(w)
  PROVE  /\ path' \in Inode /\ path' # tmp
         /\ path' = path \/ (path = NoFile /\ \A q \in Proc : fd[q] # path' /\ out[q] # path')
         /\ text' \in [Inode -> Seq(Sig) \cup {Torn}]
         /\ text' = [text EXCEPT ![path'] = <<>>] \/ (text' = text /\ path' = path)
         /\ path = NoFile => text'[path'] = <<>>
         /\ \A i \in Inode : Unique(text'[i])
         /\ fd' = [fd EXCEPT ![w] = path']
         /\ pc' = [pc EXCEPT ![w] = "opened"]
<1>1. CASE path = NoFile
  <2>1. path' = Unused /\ text' = [text EXCEPT ![path'] = <<>>]
    BY <1>1 DEF Open
  <2>2. path' \in Inode /\ path' # tmp /\ \A q \in Proc : fd[q] # path' /\ out[q] # path'
    BY <1>1, <2>1, UnusedInode
  <2>3. text' \in [Inode -> Seq(Sig) \cup {Torn}] /\ text'[path'] = <<>>
    BY <2>1, <2>2 DEF Typed
  <2>4. \A i \in Inode : Unique(text'[i])
    BY <2>1, <2>2, TornUnique DEF Typed, UniqueInv
  <2> QED BY <1>1, <2>1, <2>2, <2>3, <2>4 DEF Open, Move
<1>2. CASE path # NoFile
  BY <1>2 DEF Open, Move, Typed, LocalInv, UniqueInv
<1> QED BY <1>1, <1>2

-----------------------------------------------------------------------------
(* The signatures. *)

LEMMA InitIInv == Init => IInv
<1> SUFFICES ASSUME Init PROVE IInv
  OBVIOUS
<1>1. Typed
  <2>1. path \in Inode \cup {NoFile} /\ tmp \in Inode \cup {NoFile}
    BY DEF Init
  <2>2. text \in [Inode -> Seq(Sig) \cup {Torn}] /\ locks \in [Inode -> SUBSET Writer]
    BY DEF Init
  <2>3. pc \in [Proc -> {"idle", "opened", "read", "writing", "written", "raised", "found"}]
    BY DEF Init
  <2>4. fd \in [Proc -> Inode \cup {NoFile}] /\ out \in [Proc -> Inode \cup {NoFile}]
    BY DEF Init
  <2>5. sig \in [Writer -> Sig \cup {NoSig}] /\ records \in [Proc -> Seq(Sig)]
    BY DEF Init
  <2>6. retried \subseteq Writer /\ acked \subseteq Sig /\ raced \in BOOLEAN
    BY DEF Init
  <2>7. promised \in [Reader -> SUBSET Sig]
    BY DEF Init
  <2> QED BY <2>1, <2>2, <2>3, <2>4, <2>5, <2>6, <2>7 DEF Typed
<1>2. Counters
  BY MemoryAssumption DEF Init, Counters
<1>3. LocalInv
  BY DEF Init, LocalInv, WriterInv, ReaderInv, Proc
<1>4. UniqueInv
  BY TornUnique DEF Init, UniqueInv, Proc
<1> QED BY <1>1, <1>2, <1>3, <1>4 DEF IInv

\* A step of one process leaves the others where they are.
LEMMA OthersKept ==
  ASSUME LocalInv, NEW p \in Proc,
         \A q \in Proc \ {p} : /\ pc'[q] = pc[q] /\ fd'[q] = fd[q] /\ out'[q] = out[q]
                               /\ records'[q] = records[q],
         \A v \in Writer \ {p} : sig'[v] = sig[v],
         p \in Writer => WriterInv(p)', p \in Reader => ReaderInv(p)'
  PROVE  LocalInv'
<1>1. ASSUME NEW v \in Writer PROVE WriterInv(v)'
  <2>1. CASE v = p
    BY <2>1
  <2>2. CASE v # p
    BY <2>2 DEF LocalInv, WriterInv, Proc
  <2> QED BY <2>1, <2>2
<1>2. ASSUME NEW r \in Reader PROVE ReaderInv(r)'
  <2>1. CASE r = p
    BY <2>1
  <2>2. CASE r # p
    BY <2>2 DEF LocalInv, ReaderInv, Proc
  <2> QED BY <2>1, <2>2
<1> QED BY <1>1, <1>2 DEF LocalInv

LEMMA OpensIInv ==
  ASSUME IInv, NEW w \in Writer, Open(w), sig' \in [Writer -> Sig \cup {NoSig}], sig'[w] \in Sig,
         \A v \in Writer \ {w} : sig'[v] = sig[v]
  PROVE  LocalInv' /\ UniqueInv'
<1>1. /\ Typed /\ LocalInv /\ UniqueInv /\ w \in Proc /\ w \notin Reader
  BY MemoryAssumption DEF IInv, Proc
<1>2. UniqueInv'
  BY <1>1, OpenKeeps DEF Open, UniqueInv
<1>3. /\ pc' = [pc EXCEPT ![w] = "opened"] /\ fd' = [fd EXCEPT ![w] = path'] /\ path' \in Inode
      /\ UNCHANGED <<out, records>>
  BY <1>1, OpenKeeps DEF Open
<1>4. WriterInv(w)'
  BY <1>1, <1>3 DEF WriterInv, Typed
<1>5. LocalInv'
  BY <1>1, <1>3, <1>4, OthersKept DEF Typed
<1> QED BY <1>2, <1>5

\* A writer leaves add().
LEMMA ClosesIInv ==
  ASSUME IInv, NEW w \in Writer, Close(w), path' # NoFile => path' # tmp',
         \/ pc' = [pc EXCEPT ![w] = "idle"] /\ sig' = [sig EXCEPT ![w] = NoSig]
         \/ pc' = [pc EXCEPT ![w] = "raised"] /\ UNCHANGED sig /\ pc[w] # "idle"
  PROVE  LocalInv' /\ UniqueInv'
<1>1. Typed /\ LocalInv /\ UniqueInv /\ w \in Proc /\ w \notin Reader
  BY MemoryAssumption DEF IInv, Proc
<1>2. UniqueInv'
  BY <1>1, CloseKeeps DEF UniqueInv
<1>3. WriterInv(w)'
  BY <1>1, CloseKeeps DEF LocalInv, WriterInv, Typed
<1>4. LocalInv'
  <2>1. \A q \in Proc \ {w} : fd'[q] = fd[q] /\ out'[q] = out[q] /\ records'[q] = records[q]
    BY <1>1, CloseKeeps
  <2>2. \A q \in Proc \ {w} : pc'[q] = pc[q]
    BY <1>1 DEF Typed
  <2>3. \A v \in Writer \ {w} : sig'[v] = sig[v]
    BY <1>1 DEF Typed
  <2> QED BY <1>1, <1>3, <2>1, <2>2, <2>3, OthersKept
<1> QED BY <1>2, <1>4

\* A call of add() begins.
LEMMA BeginIInv ==
  ASSUME IInv, NEW w \in Writer, (\E s \in Sig : AddBegins(w, s)) \/ AddAgain(w)
  PROVE  IInv'
<1>1. Typed /\ Counters /\ LocalInv /\ UniqueInv
  BY DEF IInv
<1>2. /\ Open(w) /\ sig' \in [Writer -> Sig \cup {NoSig}] /\ sig'[w] \in Sig
      /\ \A v \in Writer \ {w} : sig'[v] = sig[v]
  <2>1. CASE AddAgain(w)
    <3>1. pc[w] = "raised" /\ sig[w] \in Sig
      BY <1>1, <2>1 DEF AddAgain, LocalInv, WriterInv
    <3> QED BY <1>1, <2>1, <3>1 DEF AddAgain, Typed
  <2>2. CASE \E s \in Sig : AddBegins(w, s)
    <3>1. PICK s \in Sig : AddBegins(w, s)
      BY <2>2
    <3>2. sig' = [sig EXCEPT ![w] = s] /\ Open(w)
      BY <3>1 DEF AddBegins
    <3> QED BY <1>1, <3>2 DEF Typed
  <2> QED BY <2>1, <2>2
<1>3. raced' \in BOOLEAN /\ retried' \subseteq Writer
  BY <1>1 DEF AddBegins, AddAgain, Typed
<1>4. Typed'
  BY <1>1, <1>2, <1>3, OpenKeeps DEF Open, Typed, Proc
<1>5. Counters'
  <2>1. UNCHANGED crashes
    BY <1>2 DEF Open
  <2>2. CASE AddAgain(w)
    BY <1>1, <2>1, <2>2 DEF AddAgain, Counters
  <2>3. CASE \E s \in Sig : AddBegins(w, s)
    <3>1. adds[w] < MaxAdds[w] /\ adds' = [adds EXCEPT ![w] = adds[w] + 1]
      BY <2>3 DEF AddBegins
    <3>2. adds[w] \in Nat /\ adds[w] + 1 \in Nat /\ MaxAdds[w] \in Nat
      BY <1>1, MemoryAssumption DEF Counters
    <3>3. adds[w] + 1 <= MaxAdds[w]
      BY <3>1, <3>2
    <3> QED BY <1>1, <2>1, <3>1, <3>2, <3>3 DEF Counters
  <2> QED BY <2>2, <2>3
<1>6. LocalInv' /\ UniqueInv'
  BY <1>2, OpensIInv
<1> QED BY <1>4, <1>5, <1>6 DEF IInv

\* A call of add() ends, whether it returns, raises or dies.
LEMMA EndIInv ==
  ASSUME IInv, NEW w \in Writer,
         AddDeduped(w) \/ Replace(w) \/ ReplaceRaises(w) \/ AddFails(w) \/ Crash(w)
  PROVE  IInv'
<1>1. Typed /\ Counters /\ LocalInv /\ UniqueInv /\ w \in Proc
  BY DEF IInv, Proc
<1>2. /\ Close(w)
      /\ \/ pc' = [pc EXCEPT ![w] = "idle"] /\ sig' = [sig EXCEPT ![w] = NoSig]
         \/ pc' = [pc EXCEPT ![w] = "raised"] /\ UNCHANGED sig /\ pc[w] # "idle"
  BY DEF AddDeduped, Replace, ReplaceRaises, AddFails, Crash, Returns, Ends, Move
<1>3. \/ UNCHANGED <<path, tmp>>
      \/ tmp # NoFile /\ path' = tmp /\ tmp' = NoFile
  BY DEF AddDeduped, Replace, ReplaceRaises, AddFails, Crash, Returns, Ends, Move
<1>4. path' # NoFile => path' # tmp'
  BY <1>1, <1>3 DEF UniqueInv
<1>5. /\ retried' \subseteq Writer /\ acked' \subseteq Sig /\ UNCHANGED <<promised, raced>>
  BY <1>1 DEF AddDeduped, Replace, ReplaceRaises, AddFails, Crash, Returns, Ends, Typed, histVars,
              LocalInv, WriterInv
<1>6. Typed'
  <2>1. path' \in Inode \cup {NoFile} /\ tmp' \in Inode \cup {NoFile}
    BY <1>1, <1>3 DEF Typed
  <2>2. pc' \in [Proc -> {"idle", "opened", "read", "writing", "written", "raised", "found"}]
    BY <1>1, <1>2 DEF Typed
  <2>3. sig' \in [Writer -> Sig \cup {NoSig}]
    BY <1>1, <1>2 DEF Typed
  <2>4. promised' \in [Reader -> SUBSET Sig] /\ raced' \in BOOLEAN
    BY <1>1, <1>5 DEF Typed
  <2> QED BY <1>1, <1>2, <1>5, <2>1, <2>2, <2>3, <2>4, CloseKeeps DEF Typed
<1>7. Counters'
  <2>1. UNCHANGED adds
    BY DEF AddDeduped, Replace, ReplaceRaises, AddFails, Crash, histVars
  <2>2. UNCHANGED crashes \/ (crashes < MaxCrashes /\ crashes' = crashes + 1)
    BY DEF AddDeduped, Replace, ReplaceRaises, AddFails, Crash, histVars
  <2>3. MaxCrashes \in Nat
    BY MemoryAssumption
  <2>4. crashes' \in 0 .. MaxCrashes
    BY <1>1, <2>2, <2>3 DEF Counters
  <2> QED BY <1>1, <2>1, <2>4 DEF Counters
<1>8. LocalInv' /\ UniqueInv'
  BY <1>2, <1>4, ClosesIInv
<1> QED BY <1>6, <1>7, <1>8 DEF IInv

\* Under the lock: the records are read.
LEMMA ReadIInv ==
  ASSUME IInv, NEW w \in Writer, AddReads(w)
  PROVE  IInv'
<1>1. Typed /\ Counters /\ LocalInv /\ UniqueInv /\ w \in Proc /\ w \notin Reader
  BY MemoryAssumption DEF IInv, Proc
<1>2. /\ pc[w] = "opened" /\ pc' = [pc EXCEPT ![w] = "read"] /\ fd[w] \in Inode
      /\ sig[w] \in Sig
  BY <1>1 DEF AddReads, Move, LocalInv, WriterInv
<1>3. Parsed(fd[w]) \in Seq(Sig) /\ Unique(Parsed(fd[w])) /\ sig[w] \notin ToSet(Parsed(fd[w]))
  BY <1>1, <1>2, ParsedTyped DEF AddReads, Known
<1>4. /\ records' = [records EXCEPT ![w] = Parsed(fd[w])]
      /\ locks' = [locks EXCEPT ![fd[w]] = {w}]
      /\ UNCHANGED <<diskVars, fd, out, sig, retried, histVars>>
  BY DEF AddReads
<1> HIDE DEF Parsed
<1>5. records' \in [Proc -> Seq(Sig)] /\ locks' \in [Inode -> SUBSET Writer]
  BY <1>1, <1>2, <1>3, <1>4 DEF Typed
<1>6. Typed'
  BY <1>1, <1>2, <1>4, <1>5 DEF Typed, diskVars, histVars
<1>7. Counters' /\ UniqueInv'
  BY <1>1, <1>4 DEF Counters, UniqueInv, diskVars, histVars
<1>8. WriterInv(w)'
  BY <1>1, <1>2, <1>3, <1>4 DEF Typed, WriterInv
<1>9. LocalInv'
  BY <1>1, <1>2, <1>4, <1>8, OthersKept DEF Typed
<1> QED BY <1>6, <1>7, <1>9 DEF IInv

\* The temporary file is opened, and created if there is none.
LEMMA OpenTmpIInv ==
  ASSUME IInv, NEW w \in Writer, OpenTmp(w)
  PROVE  IInv'
<1>1. Typed /\ Counters /\ LocalInv /\ UniqueInv /\ w \in Proc /\ w \notin Reader
  BY MemoryAssumption DEF IInv, Proc
<1>2. tmp' \in Inode /\ (path # NoFile => path # tmp')
  <2>1. CASE tmp = NoFile
    <3>1. tmp' = Unused
      BY <2>1 DEF OpenTmp
    <3> QED BY <1>1, <2>1, <3>1, UnusedInode
  <2>2. CASE tmp # NoFile
    <3>1. tmp' = tmp
      BY <2>2 DEF OpenTmp
    <3> QED BY <1>1, <2>2, <3>1 DEF Typed, UniqueInv
  <2> QED BY <2>1, <2>2
<1>3. /\ pc[w] = "read" /\ pc' = [pc EXCEPT ![w] = "writing"]
      /\ text' = [text EXCEPT ![tmp'] = <<>>] /\ out' = [out EXCEPT ![w] = tmp']
      /\ UNCHANGED <<path, locks, fd, sig, records, retried, histVars>>
  BY DEF OpenTmp, Move
<1>4. text' \in [Inode -> Seq(Sig) \cup {Torn}]
  BY <1>1, <1>2, <1>3 DEF Typed
<1>5. out' \in [Proc -> Inode \cup {NoFile}]
  BY <1>1, <1>2, <1>3 DEF Typed
<1>6. Typed'
  BY <1>1, <1>2, <1>3, <1>4, <1>5 DEF Typed, histVars
<1>7. Counters'
  BY <1>1, <1>3 DEF Counters, histVars
<1>8. UniqueInv'
  BY <1>1, <1>2, <1>3, TornUnique DEF UniqueInv, Typed
<1>9. WriterInv(w)'
  BY <1>1, <1>2, <1>3 DEF LocalInv, WriterInv, Typed
<1>10. LocalInv'
  BY <1>1, <1>3, <1>9, OthersKept DEF Typed
<1> QED BY <1>6, <1>7, <1>8, <1>10 DEF IInv

\* What is written is the records read and one that is not among them, or torn.
LEMMA WriteIInv ==
  ASSUME IInv, NEW w \in Writer, WriteTmp(w)
  PROVE  IInv'
<1>1. Typed /\ Counters /\ LocalInv /\ UniqueInv /\ w \in Proc /\ w \notin Reader
  BY MemoryAssumption DEF IInv, Proc
<1>2. /\ pc[w] = "writing" /\ pc' = [pc EXCEPT ![w] = "written"]
      /\ UNCHANGED <<path, tmp, locks, localVars, retried, histVars>>
  BY DEF WriteTmp, Move
<1>3. /\ sig[w] \in Sig /\ fd[w] \in Inode /\ out[w] \in Inode
      /\ records[w] \in Seq(Sig) /\ Unique(records[w]) /\ sig[w] \notin ToSet(records[w])
  BY <1>1, <1>2 DEF LocalInv, WriterInv, Typed
<1>4. PICK t \in Written(w) : text' = [text EXCEPT ![out[w]] = t]
  BY DEF WriteTmp
<1>5. t \in Seq(Sig) \cup {Torn} /\ Unique(t)
  BY <1>3, <1>4, TornUnique, UniqueAppend DEF Written
<1>6. text' \in [Inode -> Seq(Sig) \cup {Torn}]
  BY <1>1, <1>3, <1>4, <1>5 DEF Typed
<1>7. Typed'
  BY <1>1, <1>2, <1>6 DEF Typed, localVars, histVars
<1>8. Counters'
  BY <1>1, <1>2 DEF Counters, histVars
<1>9. UniqueInv'
  BY <1>1, <1>2, <1>3, <1>4, <1>5 DEF UniqueInv, Typed
<1>10. WriterInv(w)'
  BY <1>1, <1>2, <1>3 DEF LocalInv, WriterInv, Typed, localVars
<1>11. LocalInv'
  BY <1>1, <1>2, <1>10, OthersKept DEF Typed, localVars
<1> QED BY <1>7, <1>8, <1>9, <1>11 DEF IInv

\* The steps of search() write nothing.
LEMMA SearchIInv ==
  ASSUME IInv, NEW r \in Reader, SearchOpens(r) \/ SearchReads(r) \/ SearchReturns(r)
  PROVE  IInv'
<1>1. Typed /\ Counters /\ LocalInv /\ UniqueInv /\ r \in Proc /\ r \notin Writer
  BY MemoryAssumption DEF IInv, Proc
<1>2. Counters'
  BY <1>1 DEF SearchOpens, SearchReads, SearchReturns, Counters, histVars
<1>3. CASE SearchOpens(r)
  <2>1. Typed'
    BY <1>1, <1>3 DEF SearchOpens, Move, Typed, diskVars
  <2>2. UniqueInv'
    BY <1>1, <1>3 DEF SearchOpens, UniqueInv, diskVars
  <2>3. ReaderInv(r)'
    BY <1>1, <1>3 DEF SearchOpens, Move, ReaderInv, LocalInv, Typed
  <2>4. LocalInv'
    BY <1>1, <1>3, <2>3, OthersKept DEF SearchOpens, Move, Typed
  <2> QED BY <1>2, <2>1, <2>2, <2>4 DEF IInv
<1>4. CASE SearchReads(r)
  <2>1. /\ pc[r] = "opened" /\ pc' = [pc EXCEPT ![r] = "found"] /\ fd[r] \in Inode
        /\ records' = [records EXCEPT ![r] = Parsed(fd[r])]
        /\ UNCHANGED <<diskVars, locks, fd, out, sig, retried, histVars>>
    BY <1>1, <1>4 DEF SearchReads, Move, LocalInv, ReaderInv
  <2>2. Parsed(fd[r]) \in Seq(Sig)
    BY <1>1, <2>1, ParsedTyped
  <2> HIDE DEF Parsed
  <2>3. records' \in [Proc -> Seq(Sig)]
    BY <1>1, <2>1, <2>2 DEF Typed
  <2>4. Typed'
    BY <1>1, <2>1, <2>3 DEF Typed, diskVars, histVars
  <2>5. UniqueInv'
    BY <1>1, <2>1 DEF UniqueInv, diskVars
  <2>6. ReaderInv(r)'
    BY <1>1, <2>1 DEF ReaderInv, LocalInv, Typed
  <2>7. LocalInv'
    BY <1>1, <2>1, <2>6, OthersKept DEF Typed
  <2> QED BY <1>2, <2>4, <2>5, <2>7 DEF IInv
<1>5. CASE SearchReturns(r)
  <2>1. /\ Close(r) /\ pc' = [pc EXCEPT ![r] = "idle"]
        /\ promised' = [promised EXCEPT ![r] = {}]
        /\ UNCHANGED <<path, tmp, sig, retried, acked, adds, crashes, raced>>
    BY <1>5 DEF SearchReturns, Move
  <2>2. promised' \in [Reader -> SUBSET Sig]
    BY <1>1, <2>1 DEF Typed
  <2>3. pc' \in [Proc -> {"idle", "opened", "read", "writing", "written", "raised", "found"}]
    BY <1>1, <2>1 DEF Typed
  <2>4. Typed'
    BY <1>1, <2>1, <2>2, <2>3, CloseKeeps DEF Typed
  <2>5. UniqueInv'
    BY <1>1, <2>1, CloseKeeps DEF UniqueInv
  <2>6. ReaderInv(r)'
    BY <1>1, <2>1, CloseKeeps DEF ReaderInv, Typed
  <2>7. LocalInv'
    BY <1>1, <2>1, <2>6, CloseKeeps, OthersKept DEF Typed
  <2> QED BY <1>2, <2>4, <2>5, <2>7 DEF IInv
<1> QED BY <1>3, <1>4, <1>5

LEMMA StepIInv == IInv /\ [Next]_vars => IInv'
<1> SUFFICES ASSUME IInv, [Next]_vars PROVE IInv'
  OBVIOUS
<1>1. ASSUME NEW w \in Writer, (\E s \in Sig : AddBegins(w, s)) \/ AddStep(w) \/ Crash(w)
      PROVE  IInv'
  BY <1>1, BeginIInv, EndIInv, ReadIInv, OpenTmpIInv, WriteIInv DEF AddStep
<1>2. ASSUME NEW r \in Reader, SearchOpens(r) \/ SearchStep(r)
      PROVE  IInv'
  BY <1>2, SearchIInv DEF SearchStep
<1>3. CASE UNCHANGED vars
  BY <1>3 DEF IInv, Typed, Counters, LocalInv, WriterInv, ReaderInv, UniqueInv, vars, diskVars,
              localVars, histVars
<1> QED BY <1>1, <1>2, <1>3 DEF Next

LEMMA AlwaysIInv == Spec => []IInv
BY InitIInv, StepIInv, PTL DEF Spec

\* Whatever the processes do, the files hold signatures or refused text, and a
\* process has open what its place in add() or search() says.
THEOREM TypeCorrect == Spec => []TypeOK
<1>1. IInv => TypeOK
  <2> SUFFICES ASSUME IInv PROVE TypeOK
    OBVIOUS
  <2>1. \A w \in Writer : adds[w] \in 0 .. MaxAdds[w]
    BY MemoryAssumption DEF IInv, Counters
  <2> QED BY <2>1 DEF IInv, Typed, Counters, TypeOK
<1> QED BY <1>1, AlwaysIInv, PTL

\* "Dedupe by memory_signature" in add(): the file never holds two records of
\* one signature, however the writers overlap, crash and retry.
THEOREM SignaturesStayUnique == Spec => []SignaturesAreUnique
<1>1. IInv => SignaturesAreUnique
  BY ParsedTyped DEF IInv, Typed, SignaturesAreUnique, Unique
<1> QED BY <1>1, AlwaysIInv, PTL

-----------------------------------------------------------------------------
(* Adds that do not overlap: the one writer works on the file that the path  *)
(* names and on the temporary file, and no search reads the latter.          *)

SerialWriter(w) ==
  /\ pc[w] # "raised"
  /\ pc[w] # "idle" => path # NoFile /\ fd[w] = path
  /\ pc[w] \in {"read", "writing", "written"} => records[w] = text[path]
  /\ pc[w] \in {"writing", "written"} => tmp # NoFile /\ out[w] = tmp
  /\ pc[w] = "writing" => text[tmp] = <<>>
  /\ pc[w] = "written" => text[tmp] = Append(records[w], sig[w])

SerialReader(r) ==
  /\ pc[r] = "opened" => fd[r] # tmp /\ promised[r] \subseteq ToSet(Parsed(fd[r]))
  /\ pc[r] = "found" => promised[r] \subseteq ToSet(records[r])

FileKept == acked \subseteq Remembered /\ (path # NoFile => text[path] # Torn)

Serial ==
  /\ \A v, w \in Writer : pc[v] # "idle" /\ pc[w] # "idle" => v = w
  /\ FileKept
  /\ \A w \in Writer : SerialWriter(w)
  /\ \A r \in Reader : SerialReader(r)

SerialInv == ~raced => Serial

LEMMA SetOfAppend ==
  ASSUME NEW t \in Seq(Sig), NEW x \in Sig
  PROVE  ToSet(t) \subseteq ToSet(Append(t, x)) /\ x \in ToSet(Append(t, x))
<1>1. /\ Len(t) \in Nat /\ DOMAIN t = 1 .. Len(t) /\ DOMAIN Append(t, x) = 1 .. Len(t) + 1
      /\ \A i \in 1 .. Len(t) : Append(t, x)[i] = t[i]
      /\ Append(t, x)[Len(t) + 1] = x
  OBVIOUS
<1>2. Len(t) + 1 \in 1 .. Len(t) + 1 /\ \A i \in 1 .. Len(t) : i \in 1 .. Len(t) + 1
  BY <1>1
<1> QED BY <1>1, <1>2 DEF ToSet

\* The other writers are idle and stay so.
LEMMA WritersSerial ==
  ASSUME NEW w \in Writer, \A v \in Writer \ {w} : pc[v] = "idle" /\ pc'[v] = pc[v],
         SerialWriter(w)'
  PROVE  /\ \A v \in Writer : SerialWriter(v)'
         /\ \A v, u \in Writer : pc'[v] # "idle" /\ pc'[u] # "idle" => v = u
BY DEF SerialWriter

\* A writer inside add() is the only one.
LEMMA Alone ==
  ASSUME IInv, Serial, NEW w \in Writer, pc[w] # "idle"
  PROVE  /\ \A v \in Writer \ {w} : pc[v] = "idle"
         /\ pc[w] # "raised" /\ path # NoFile /\ path \in Inode /\ fd[w] = path
         /\ text[path] \in Seq(Sig) /\ text[path] # Torn /\ Parsed(path) = text[path]
         /\ Remembered = ToSet(text[path]) /\ acked \subseteq ToSet(text[path])
         /\ sig[w] \in Sig /\ w \in Proc /\ w \notin Reader
<1>1. \A v \in Writer \ {w} : pc[v] = "idle"
  BY DEF Serial
<1>2. pc[w] # "raised" /\ path # NoFile /\ fd[w] = path
  BY DEF Serial, SerialWriter
<1>3. path \in Inode
  BY <1>2 DEF IInv, Typed
<1>4. text[path] # Torn /\ acked \subseteq Remembered
  BY <1>2 DEF Serial, FileKept
<1>5. Parsed(path) = text[path] /\ text[path] \in Seq(Sig)
  BY <1>3, <1>4 DEF Parsed, IInv, Typed
<1>6. Remembered = ToSet(text[path])
  BY <1>2, <1>5 DEF Remembered
<1>7. sig[w] \in Sig /\ w \in Proc /\ w \notin Reader
  BY MemoryAssumption DEF IInv, LocalInv, WriterInv, Proc
<1> QED BY <1>1, <1>2, <1>3, <1>4, <1>5, <1>6, <1>7

LEMMA BeginSerial ==
  ASSUME IInv, SerialInv, NEW w \in Writer, NEW s \in Sig, AddBegins(w, s), ~raced'
  PROVE  Serial'
<1>1. /\ Typed /\ LocalInv /\ UniqueInv /\ w \in Proc /\ w \notin Reader /\ Open(w)
      /\ Reader \subseteq Proc
  BY MemoryAssumption DEF IInv, Proc, AddBegins
<1>2. ~raced /\ \A v \in Writer \ {w} : pc[v] = "idle"
  BY DEF AddBegins
<1>3. Serial
  BY <1>2 DEF SerialInv
<1>4. /\ pc' = [pc EXCEPT ![w] = "opened"] /\ fd' = [fd EXCEPT ![w] = path'] /\ path' \in Inode
      /\ path' # NoFile /\ UNCHANGED <<tmp, out, records, acked, promised>>
  BY <1>1, OpenKeeps, InodeFacts DEF Open
<1>5. SerialWriter(w)'
  BY <1>1, <1>4 DEF SerialWriter, Typed
<1>6. \A v \in Writer \ {w} : pc'[v] = pc[v]
  BY <1>1, <1>4 DEF Typed
<1>7. FileKept'
  <2>1. CASE path = NoFile
    <3>1. acked' = {}
      BY <1>3, <1>4, <2>1 DEF Serial, FileKept, Remembered
    <3>2. text'[path'] = <<>>
      BY <1>1, <2>1, OpenKeeps
    <3>3. <<>> # Torn
      BY DEF Torn
    <3> QED BY <3>1, <3>2, <3>3 DEF FileKept
  <2>2. CASE path # NoFile
    <3>1. path' = path /\ text' = text
      BY <2>2, <1>1 DEF Open
    <3>2. Remembered' = Remembered
      BY <3>1 DEF Remembered, Parsed
    <3> QED BY <1>3, <1>4, <3>1, <3>2 DEF Serial, FileKept
  <2> QED BY <2>1, <2>2
<1>8. ASSUME NEW r \in Reader
      PROVE  /\ pc'[r] = pc[r] /\ fd'[r] = fd[r] /\ records'[r] = records[r]
             /\ pc[r] # "idle" => text'[fd[r]] = text[fd[r]]
  <2>1. r \in Proc /\ r # w
    BY <1>1
  <2>2. pc'[r] = pc[r] /\ fd'[r] = fd[r] /\ records'[r] = records[r]
    BY <1>1, <1>4, <2>1 DEF Typed
  <2>3. CASE path = NoFile
    <3>1. path' = Unused /\ text' = [text EXCEPT ![path'] = <<>>] /\ fd[r] # Unused
      BY <1>1, <2>1, <2>3, UnusedInode DEF Open
    <3> QED BY <1>1, <2>2, <3>1 DEF Typed
  <2>4. CASE path # NoFile
    BY <1>1, <2>2, <2>4 DEF Open
  <2> QED BY <2>3, <2>4
<1>9. \A r \in Reader : SerialReader(r)'
  <2>1. ASSUME NEW r \in Reader PROVE SerialReader(r)'
    <3>1. CASE pc[r] = "opened"
      <4>1. Parsed(fd[r])' = Parsed(fd[r])
        BY <1>8, <3>1 DEF Parsed
      <4>2. fd[r] # tmp /\ promised[r] \subseteq ToSet(Parsed(fd[r]))
        BY <1>3, <3>1 DEF Serial, SerialReader
      <4> QED BY <1>4, <1>8, <3>1, <4>1, <4>2 DEF SerialReader
    <3>2. CASE pc[r] # "opened"
      BY <1>3, <1>4, <1>8, <3>2 DEF Serial, SerialReader
    <3> QED BY <3>1, <3>2
  <2> QED BY <2>1
<1>10. /\ \A v \in Writer : SerialWriter(v)'
       /\ \A v, u \in Writer : pc'[v] # "idle" /\ pc'[u] # "idle" => v = u
  BY <1>2, <1>5, <1>6, WritersSerial
<1> QED BY <1>7, <1>9, <1>10 DEF Serial

\* The file that is left behind holds what it held, or what was added to it.
LEMMA EndSerial ==
  ASSUME IInv, SerialInv, NEW w \in Writer, ~raced',
         AddDeduped(w) \/ Replace(w) \/ ReplaceRaises(w) \/ AddFails(w) \/ Crash(w)
  PROVE  Serial'
<1>1. Typed /\ LocalInv /\ UniqueInv /\ Reader \subseteq Proc
  BY DEF IInv, Proc
<1>2. ~raced /\ pc[w] # "idle" /\ UNCHANGED promised
  BY DEF AddDeduped, Replace, ReplaceRaises, AddFails, Crash, Returns, Ends, histVars
<1>3. Serial
  BY <1>2 DEF SerialInv
<1>4. /\ \A v \in Writer \ {w} : pc[v] = "idle"
      /\ pc[w] # "raised" /\ path # NoFile /\ path \in Inode /\ fd[w] = path
      /\ text[path] \in Seq(Sig) /\ text[path] # Torn /\ Parsed(path) = text[path]
      /\ Remembered = ToSet(text[path]) /\ acked \subseteq ToSet(text[path])
      /\ sig[w] \in Sig /\ w \in Proc /\ w \notin Reader
  BY <1>2, <1>3, Alone
<1>5. ~AddFails(w)
  BY <1>4 DEF AddFails
<1>6. ~ReplaceRaises(w)
  <2>1. pc[w] = "written" => tmp # NoFile
    BY <1>3 DEF Serial, SerialWriter
  <2> QED BY <2>1 DEF ReplaceRaises
<1>7. Close(w) /\ pc' = [pc EXCEPT ![w] = "idle"]
  BY <1>5, <1>6 DEF AddDeduped, Replace, Crash, Returns, Ends, Move
<1>8. /\ \A q \in Proc \ {w} : fd'[q] = fd[q] /\ records'[q] = records[q]
      /\ \A i \in Inode : i \in {path', tmp'} => text'[i] = text[i]
      /\ \A q \in Proc \ {w} : fd[q] \in Inode => text'[fd[q]] = text[fd[q]]
  BY <1>1, <1>4, <1>7, CloseKeeps
<1>9. /\ path' \in Inode /\ text[path'] \in Seq(Sig) /\ text[path'] # Torn
      /\ acked' \subseteq ToSet(text[path']) /\ tmp' \in {tmp, NoFile}
  <2>1. CASE AddDeduped(w)
    <3>1. path' = path /\ tmp' = tmp /\ acked' = acked \cup {sig[w]}
      BY <2>1 DEF AddDeduped, Returns
    <3>2. sig[w] \in ToSet(text[path])
      BY <1>4, <2>1 DEF AddDeduped, Known
    <3> QED BY <1>4, <3>1, <3>2
  <2>2. CASE Crash(w)
    BY <1>4, <2>2 DEF Crash
  <2>3. CASE Replace(w)
    <3>1. path' = tmp /\ tmp # NoFile /\ tmp' = NoFile /\ acked' = acked \cup {sig[w]}
          /\ pc[w] = "written"
      BY <2>3 DEF Replace, Returns
    <3>2. text[tmp] = Append(text[path], sig[w])
      BY <1>3, <3>1 DEF Serial, SerialWriter
    <3>3. tmp \in Inode
      BY <1>1, <3>1 DEF Typed
    <3>4. text[tmp] \in Seq(Sig) /\ text[tmp] # Torn
      <4>1. text[path] \in Seq(Sig) /\ sig[w] \in Sig
        BY <1>4
      <4>2. Append(text[path], sig[w]) \in Seq(Sig)
        BY <4>1
      <4> QED BY <3>2, <4>2, TornUnique
    <3>5. ToSet(text[path]) \subseteq ToSet(text[tmp]) /\ sig[w] \in ToSet(text[tmp])
      BY <1>4, <3>2, SetOfAppend
    <3> QED BY <1>4, <3>1, <3>3, <3>4, <3>5
  <2> QED BY <1>5, <1>6, <2>1, <2>2, <2>3
<1>10. FileKept'
  <2>1. text'[path'] = text[path'] /\ path' # NoFile
    BY <1>8, <1>9, InodeFacts
  <2>2. Remembered' = ToSet(text[path'])
    BY <1>9, <2>1 DEF Remembered, Parsed
  <2> QED BY <1>9, <2>1, <2>2 DEF FileKept
<1>11. SerialWriter(w)' /\ \A v \in Writer \ {w} : pc'[v] = pc[v]
  BY <1>1, <1>7, <1>4 DEF SerialWriter, Typed, Proc
<1>12. ASSUME NEW r \in Reader
       PROVE  /\ pc'[r] = pc[r] /\ fd'[r] = fd[r] /\ records'[r] = records[r]
              /\ pc[r] # "idle" => fd[r] \in Inode /\ text'[fd[r]] = text[fd[r]]
  <2>1. r \in Proc \ {w}
    BY <1>1, <1>4
  <2>2. pc'[r] = pc[r]
    BY <1>1, <1>7, <2>1 DEF Typed
  <2>3. pc[r] # "idle" => fd[r] \in Inode
    BY <1>1 DEF LocalInv, ReaderInv
  <2> QED BY <1>8, <2>1, <2>2, <2>3
<1>13. ASSUME NEW r \in Reader PROVE SerialReader(r)'
  <2>1. CASE pc[r] = "opened"
    <3>1. Parsed(fd[r])' = Parsed(fd[r])
      BY <1>12, <2>1 DEF Parsed
    <3>2. fd[r] # tmp /\ promised[r] \subseteq ToSet(Parsed(fd[r]))
      BY <1>3, <2>1 DEF Serial, SerialReader
    <3>3. fd[r] # tmp'
      BY <1>9, <1>12, <2>1, <3>2, InodeFacts
    <3> QED BY <1>2, <1>12, <2>1, <3>1, <3>2, <3>3 DEF SerialReader
  <2>2. CASE pc[r] # "opened"
    BY <1>2, <1>3, <1>12, <2>2 DEF Serial, SerialReader
  <2> QED BY <2>1, <2>2
<1>14. /\ \A v \in Writer : SerialWriter(v)'
       /\ \A v, u \in Writer : pc'[v] # "idle" /\ pc'[u] # "idle" => v = u
  BY <1>4, <1>11, WritersSerial
<1> QED BY <1>10, <1>13, <1>14 DEF Serial

\* The steps between the opening and the rename change the temporary file only.
LEMMA WriterSerial ==
  ASSUME IInv, SerialInv, NEW w \in Writer, ~raced', AddReads(w) \/ OpenTmp(w) \/ WriteTmp(w)
  PROVE  Serial'
<1>1. Typed /\ LocalInv /\ UniqueInv /\ Reader \subseteq Proc
  BY DEF IInv, Proc
<1>2. ~raced /\ pc[w] # "idle" /\ UNCHANGED <<path, fd, sig, promised, acked>>
  BY DEF AddReads, OpenTmp, WriteTmp, diskVars, localVars, histVars
<1>3. Serial
  BY <1>2 DEF SerialInv
<1>4. /\ \A v \in Writer \ {w} : pc[v] = "idle"
      /\ pc[w] # "raised" /\ path # NoFile /\ path \in Inode /\ fd[w] = path
      /\ text[path] \in Seq(Sig) /\ text[path] # Torn /\ Parsed(path) = text[path]
      /\ Remembered = ToSet(text[path]) /\ acked \subseteq ToSet(text[path])
      /\ sig[w] \in Sig /\ w \in Proc /\ w \notin Reader
  BY <1>2, <1>3, Alone
<1>5. \A v \in Proc \ {w} : pc'[v] = pc[v] /\ records'[v] = records[v]
  BY <1>1 DEF AddReads, OpenTmp, WriteTmp, Move, Typed, localVars
<1>6. \A r \in Reader : pc[r] # "idle" => fd[r] \in Inode
  BY <1>1 DEF LocalInv, ReaderInv
<1>7. /\ SerialWriter(w)' /\ text'[path] = text[path]
      /\ \A r \in Reader : pc[r] = "opened" => fd[r] # tmp' /\ text'[fd[r]] = text[fd[r]]
  <2>1. CASE AddReads(w)
    <3>1. /\ pc' = [pc EXCEPT ![w] = "read"] /\ records' = [records EXCEPT ![w] = text[path]]
          /\ UNCHANGED <<path, tmp, text>>
      BY <1>4, <2>1 DEF AddReads, Move, diskVars
    <3>2. pc'[w] = "read" /\ records'[w] = text[path]
      BY <1>1, <1>4, <3>1 DEF Typed
    <3>3. SerialWriter(w)'
      BY <1>2, <1>4, <3>1, <3>2 DEF SerialWriter
    <3> QED BY <1>3, <3>1, <3>3 DEF Serial, SerialReader
  <2>2. CASE OpenTmp(w)
    <3>1. /\ pc[w] = "read" /\ pc' = [pc EXCEPT ![w] = "writing"] /\ UNCHANGED records
          /\ text' = [text EXCEPT ![tmp'] = <<>>] /\ out' = [out EXCEPT ![w] = tmp']
          /\ tmp' = IF tmp = NoFile THEN Unused ELSE tmp
      BY <2>2 DEF OpenTmp, Move
    <3>2. /\ tmp' \in Inode /\ tmp' # path /\ tmp' # NoFile
          /\ \A r \in Reader : pc[r] = "opened" => fd[r] # tmp'
      <4>1. CASE tmp = NoFile
        BY <1>1, <3>1, <4>1, UnusedInode, InodeFacts
      <4>2. CASE tmp # NoFile
        BY <1>1, <1>3, <1>4, <3>1, <4>2 DEF Typed, UniqueInv, Serial, SerialReader
      <4> QED BY <4>1, <4>2
    <3>3. text'[tmp'] = <<>> /\ \A i \in Inode \ {tmp'} : text'[i] = text[i]
      BY <1>1, <3>1, <3>2 DEF Typed
    <3>4. pc'[w] = "writing" /\ out'[w] = tmp'
      BY <1>1, <1>4, <3>1 DEF Typed
    <3>5. records[w] = text[path]
      BY <1>3, <3>1 DEF Serial, SerialWriter
    <3>6. text'[path] = text[path]
      BY <1>4, <3>2, <3>3
    <3>7. SerialWriter(w)'
      BY <1>2, <1>4, <3>1, <3>2, <3>3, <3>4, <3>5, <3>6 DEF SerialWriter
    <3> QED BY <1>6, <3>2, <3>3, <3>6, <3>7
  <2>3. CASE WriteTmp(w)
    <3>1. /\ pc[w] = "writing" /\ pc' = [pc EXCEPT ![w] = "written"]
          /\ UNCHANGED <<path, tmp, out, records>>
      BY <2>3 DEF WriteTmp, Move, localVars
    <3>2. /\ tmp # NoFile /\ out[w] = tmp /\ text[tmp] = <<>> /\ records[w] = text[path]
      BY <1>3, <3>1 DEF Serial, SerialWriter
    <3>3. tmp \in Inode /\ tmp # path
      BY <1>1, <1>4, <3>2 DEF Typed, UniqueInv
    <3>4. text' = [text EXCEPT ![tmp] = Append(records[w], sig[w])]
      BY <2>3, <3>2 DEF WriteTmp, Written
    <3>5. text'[tmp] = Append(records[w], sig[w]) /\ \A i \in Inode \ {tmp} : text'[i] = text[i]
      BY <1>1, <3>3, <3>4 DEF Typed
    <3>6. pc'[w] = "written"
      BY <1>1, <1>4, <3>1 DEF Typed
    <3>7. text'[path] = text[path]
      BY <1>4, <3>3, <3>5
    <3>8. SerialWriter(w)'
      BY <1>2, <1>4, <3>1, <3>2, <3>5, <3>6, <3>7 DEF SerialWriter
    <3>9. \A r \in Reader : pc[r] = "opened" => fd[r] # tmp
      BY <1>3 DEF Serial, SerialReader
    <3> QED BY <1>6, <3>1, <3>5, <3>7, <3>8, <3>9
  <2> QED BY <2>1, <2>2, <2>3
<1>8. FileKept'
  <2>1. Remembered' = Remembered
    BY <1>2, <1>7 DEF Remembered, Parsed
  <2> QED BY <1>2, <1>3, <1>7, <2>1 DEF Serial, FileKept
<1>9. ASSUME NEW r \in Reader PROVE SerialReader(r)'
  <2>1. pc'[r] = pc[r] /\ records'[r] = records[r]
    BY <1>1, <1>4, <1>5
  <2>2. CASE pc[r] = "opened"
    <3>1. Parsed(fd[r])' = Parsed(fd[r])
      BY <1>2, <1>7, <2>2 DEF Parsed
    <3>2. promised[r] \subseteq ToSet(Parsed(fd[r]))
      BY <1>3, <2>2 DEF Serial, SerialReader
    <3> QED BY <1>2, <1>7, <2>1, <2>2, <3>1, <3>2 DEF SerialReader
  <2>3. CASE pc[r] # "opened"
    BY <1>2, <1>3, <2>1, <2>3 DEF Serial, SerialReader
  <2> QED BY <2>2, <2>3
<1>10. /\ \A v \in Writer : SerialWriter(v)'
       /\ \A v, u \in Writer : pc'[v] # "idle" /\ pc'[u] # "idle" => v = u
  BY <1>4, <1>5, <1>7, WritersSerial DEF Proc
<1> QED BY <1>8, <1>9, <1>10 DEF Serial

\* A search reads what was there when it opened the file, or more.
LEMMA SearchSerial ==
  ASSUME IInv, SerialInv, NEW r \in Reader, ~raced',
         SearchOpens(r) \/ SearchReads(r) \/ SearchReturns(r)
  PROVE  Serial'
<1>1. Typed /\ LocalInv /\ UniqueInv /\ r \in Proc /\ r \notin Writer /\ Reader \subseteq Proc
      /\ Writer \subseteq Proc
  BY MemoryAssumption DEF IInv, Proc
<1>2. Serial /\ UNCHANGED <<path, tmp, sig, acked>>
  BY DEF SerialInv, SearchOpens, SearchReads, SearchReturns, diskVars, histVars
<1>3. /\ \A q \in Proc \ {r} : /\ pc'[q] = pc[q] /\ fd'[q] = fd[q] /\ out'[q] = out[q]
                               /\ records'[q] = records[q]
                               /\ fd[q] \in Inode => text'[fd[q]] = text[fd[q]]
      /\ \A q \in Reader \ {r} : promised'[q] = promised[q]
      /\ \A i \in Inode : i \in {path, tmp} => text'[i] = text[i]
  <2>1. CASE SearchOpens(r)
    BY <1>1, <2>1 DEF SearchOpens, Move, diskVars, Typed
  <2>2. CASE SearchReads(r)
    BY <1>1, <2>2 DEF SearchReads, Move, diskVars, histVars, Typed
  <2>3. CASE SearchReturns(r)
    <3>1. /\ Close(r) /\ pc' = [pc EXCEPT ![r] = "idle"]
          /\ promised' = [promised EXCEPT ![r] = {}]
      BY <2>3 DEF SearchReturns, Move
    <3>2. \A q \in Proc \ {r} : pc'[q] = pc[q]
      BY <1>1, <3>1 DEF Typed
    <3>3. \A q \in Reader \ {r} : promised'[q] = promised[q]
      BY <1>1, <3>1 DEF Typed
    <3> QED BY <1>1, <1>2, <3>1, <3>2, <3>3, CloseKeeps
  <2> QED BY <2>1, <2>2, <2>3
<1>4. FileKept'
  <2>1. path # NoFile => text'[path] = text[path]
    BY <1>1, <1>3 DEF Typed
  <2>2. Remembered' = Remembered
    BY <1>2, <2>1 DEF Remembered, Parsed
  <2> QED BY <1>2, <2>1, <2>2 DEF Serial, FileKept
<1>5. ASSUME NEW w \in Writer PROVE SerialWriter(w)'
  <2>1. /\ w \in Proc \ {r} /\ (path # NoFile => text'[path] = text[path])
        /\ (tmp # NoFile => text'[tmp] = text[tmp])
    BY <1>1, <1>3 DEF Typed
  <2> QED BY <1>2, <1>3, <2>1 DEF Serial, SerialWriter
<1>6. ASSUME NEW q \in Reader \ {r} PROVE SerialReader(q)'
  <2>1. q \in Proc \ {r} /\ (pc[q] = "opened" => fd[q] \in Inode)
    BY <1>1 DEF LocalInv, ReaderInv
  <2>2. CASE pc[q] = "opened"
    <3>1. Parsed(fd[q])' = Parsed(fd[q])
      BY <1>3, <2>1, <2>2 DEF Parsed
    <3>2. fd[q] # tmp /\ promised[q] \subseteq ToSet(Parsed(fd[q]))
      BY <1>2, <2>2 DEF Serial, SerialReader
    <3> QED BY <1>2, <1>3, <2>1, <2>2, <3>1, <3>2 DEF SerialReader
  <2>3. CASE pc[q] # "opened"
    BY <1>2, <1>3, <2>1, <2>3 DEF Serial, SerialReader
  <2> QED BY <2>2, <2>3
<1>7. SerialReader(r)'
  <2>1. CASE SearchOpens(r)
    <3>1. pc'[r] = "opened" /\ fd'[r] = path /\ promised'[r] = acked /\ path # NoFile
          /\ text' = text
      BY <1>1, <2>1 DEF SearchOpens, Move, Typed, diskVars
    <3>2. Remembered = ToSet(Parsed(path)) /\ Parsed(fd[r])' = Parsed(path)
      BY <3>1 DEF Remembered, Parsed
    <3> QED BY <1>1, <1>2, <3>1, <3>2 DEF Serial, FileKept, SerialReader, UniqueInv
  <2>2. CASE SearchReads(r)
    <3>1. pc[r] = "opened" /\ pc'[r] = "found" /\ records'[r] = Parsed(fd[r])
          /\ promised' = promised
      BY <1>1, <2>2 DEF SearchReads, Move, Typed, histVars
    <3> QED BY <1>2, <3>1 DEF Serial, SerialReader
  <2>3. CASE SearchReturns(r)
    BY <1>1, <2>3 DEF SearchReturns, Move, Typed, SerialReader
  <2> QED BY <2>1, <2>2, <2>3
<1>8. \A v, w \in Writer : pc'[v] # "idle" /\ pc'[w] # "idle" => v = w
  BY <1>1, <1>2, <1>3 DEF Serial
<1> QED BY <1>4, <1>5, <1>6, <1>7, <1>8 DEF Serial

LEMMA InitSerial == Init => SerialInv
<1> SUFFICES ASSUME Init PROVE Serial
  BY DEF SerialInv
<1>1. /\ path = NoFile /\ acked = {} /\ (\A p \in Proc : pc[p] = "idle")
  BY DEF Init
<1> QED BY <1>1 DEF Serial, FileKept, SerialWriter, SerialReader, Proc

LEMMA StepSerial == IInv /\ SerialInv /\ [Next]_vars => SerialInv'
<1> SUFFICES ASSUME IInv, SerialInv, [Next]_vars, ~raced' PROVE Serial'
  BY DEF SerialInv
<1>1. ASSUME NEW w \in Writer, NEW s \in Sig, AddBegins(w, s) PROVE Serial'
  BY <1>1, BeginSerial
<1>2. ASSUME NEW w \in Writer, AddAgain(w) PROVE Serial'
  BY <1>2 DEF AddAgain, SerialInv, Serial, SerialWriter
<1>3. ASSUME NEW w \in Writer, AddStep(w) \/ Crash(w) PROVE Serial'
  BY <1>2, <1>3, EndSerial, WriterSerial DEF AddStep
<1>4. ASSUME NEW r \in Reader, SearchOpens(r) \/ SearchStep(r) PROVE Serial'
  BY <1>4, SearchSerial DEF SearchStep
<1>5. CASE UNCHANGED vars
  <2>1. Remembered' = Remembered /\ \A i : Parsed(i)' = Parsed(i)
    BY <1>5 DEF Remembered, Parsed, vars, diskVars
  <2> QED BY <1>5, <2>1 DEF SerialInv, Serial, FileKept, SerialWriter, SerialReader, vars, diskVars,
              localVars, histVars, Remembered, Parsed
<1> QED BY <1>1, <1>3, <1>4, <1>5 DEF Next

LEMMA AlwaysSerial == Spec => []SerialInv
BY InitSerial, StepSerial, AlwaysIInv, PTL, InitIInv, StepIInv DEF Spec

\* As long as no two writers are inside add() at once, what an add() has
\* returned stays in the file, and the file can be read, wherever a writer dies.
THEOREM SerialAddsStay == Spec => []SerialAddsAreKept
<1>1. SerialInv => SerialAddsAreKept
  BY DEF SerialInv, Serial, FileKept, SerialAddsAreKept
<1> QED BY <1>1, AlwaysSerial, PTL

\* As long as no two writers are inside add() at once, search() returns all that
\* was there when it opened the file, though the file is renamed over meanwhile.
THEOREM SearchesFind == Spec => []SearchFindsAcked
<1>1. SerialInv => SearchFindsAcked
  BY DEF SerialInv, Serial, SerialReader, SearchFindsAcked
<1> QED BY <1>1, AlwaysSerial, PTL
=============================================================================
