---------------------------- MODULE DriverProofs ----------------------------
(***************************************************************************)
(* Proofs about the compiler driver: for any command lines, any number of  *)
(* files and any size of the pipes, whatever its children do and whenever  *)
(* they end, exit status 0 means complete output, a compiler that succeeds *)
(* has seen a whole file, no output stays behind a failure, and xcc kills  *)
(* and waits for children of its own only.                                 *)
(***************************************************************************)
EXTENDS Driver, SequenceTheorems, WellFoundedInduction, TLAPS

Pieces == Files \X Nat
States == {"none", "run", "zombie", "reaped"}

XccTypes ==
    /\ job \in Jobs
    /\ pc \in {"start", "files", "cat", "spawn", "wait", "wait as", "exit"}
    /\ file \in Nat \ {0} /\ running \in Int
    /\ res \in BOOLEAN /\ exit \in {-1, 0, 1} /\ made \in BOOLEAN

PidTypes ==
    /\ cpp_pid \in {NoOne} \cup {Cpp(i) : i \in Files}
    /\ cc_pid \in {NoOne} \cup {Cc1(i) : i \in Files}
    /\ as_pid \in {NoOne, As}

ChildTypes ==
    /\ state \in [Children -> States] /\ failed \in [Children -> BOOLEAN]
    /\ doomed \subseteq Children

DataTypes ==
    /\ wrote \in [Children \cup {Xcc} -> Nat] /\ took \in [Children -> Seq(Pieces)]
    /\ buf \in [Pipes -> Seq(Pieces)] /\ out \in Seq(Pieces)

EndTypes ==
    /\ readers \in [Pipes -> SUBSET (Children \cup {Xcc})]
    /\ writers \in [Pipes -> SUBSET (Children \cup {Xcc})]

TypeOK == XccTypes /\ PidTypes /\ ChildTypes /\ DataTypes /\ EndTypes

\* Where xcc is in the list of files.
FileAgrees ==
    /\ pc = "exit" <=> exit # -1
    /\ pc \in {"cat", "spawn", "wait"} => file <= Len(job.files)
    /\ pc \in {"start", "files"} => file <= Len(job.files) + 1
    /\ pc = "wait as" \/ exit = 0 => file = Len(job.files) + 1

-----------------------------------------------------------------------------
Ended(q) == state[q] \in {"zombie", "reaped"}
IsOver(q) == state[q] \in {"none", "reaped"}

\* A child that has not been started has done nothing, and only those that
\* run hold a descriptor or are to be killed.
ChildrenAgree ==
    /\ \A q \in Children :
          /\ state[q] = "none" => ~failed[q] /\ wrote[q] = 0 /\ took[q] = << >>
          /\ q \in doomed => state[q] = "run"
    /\ \A p \in Pipes : \A q \in writers[p] : q = Xcc \/ state[q] = "run"

\* The assembler, which runs from the first step on when there is one.
AsAgrees ==
    /\ pc = "start" \/ job.mode # "exe" => (state[As] = "none" /\ as_pid = NoOne /\ ~made)
    /\ pc # "start" /\ job.mode = "exe" => state[As] # "none" \/ exit = 1
    /\ pc # "start" /\ job.mode = "exe" /\ exit = -1 => as_pid = As
    /\ exit = -1 => As \notin doomed
    /\ as_pid # NoOne /\ exit = -1 /\ pc # "wait as" => Xcc \in writers[0]
    /\ made => Ended(As) /\ ~failed[As]
    /\ Ended(As) /\ ~failed[As] /\ exit # 1 => made /\ buf[0] = << >> /\ (pc = "wait as" \/ exit = 0)
    /\ pc = "wait as" => as_pid = As /\ state[As] # "reaped"
    /\ AsDiesLate /\ exit = -1 /\ pc # "wait as" => ~Ended(As)
    /\ exit = 1 /\ res => ~made /\ (state[As] = "run" => As \in doomed)

\* The files before this one are done with, and those after it untouched.
Reaped(q) == state[q] = "reaped"
FilesAgree ==
    /\ \A i \in Files :
          (i > file \/ (i = file /\ pc \in {"start", "files", "cat", "wait as"}) \/ (exit = 0 /\ i >= file))
             => state[Cpp(i)] = "none" /\ state[Cc1(i)] = "none" 
    /\ pc \notin {"files", "exit"} \/ ~res =>
          \A i \in Files : i < file => IsOver(Cpp(i)) /\ IsOver(Cc1(i))
    /\ ~res => \A i \in Files : i < file => ~failed[Cpp(i)] /\ ~failed[Cc1(i)]
    /\ job.mode = "pp" => \A i \in Files : state[Cc1(i)] = "none"
    /\ pc = "wait as" \/ exit = 0 => ~res
    /\ pc \in {"start", "cat", "spawn"} => ~res
    /\ exit = 0 /\ job.mode = "exe" => Reaped(As) /\ ~failed[As]

\* The two children of a file, while xcc waits for them.  The assembler is
\* counted when it has died early.
AsCounted == IF Reaped(As) THEN 1 ELSE 0

BothLeft ==
    /\ job.mode # "pp" /\ cpp_pid = Cpp(file) /\ cc_pid = Cc1(file)
    /\ ~IsOver(Cpp(file)) /\ ~IsOver(Cc1(file))
    /\ running = 2 - AsCounted /\ Xcc \in writers[file]
    /\ Cpp(file) \notin doomed /\ Cc1(file) \notin doomed

Cc1Left ==
    /\ job.mode # "pp" /\ cpp_pid = NoOne /\ cc_pid = Cc1(file)
    /\ Reaped(Cpp(file)) /\ ~failed[Cpp(file)] /\ ~IsOver(Cc1(file))
    /\ running = 1 - AsCounted /\ Xcc \notin writers[file]

Cc1Stopped ==
    /\ job.mode # "pp" /\ cpp_pid = NoOne /\ cc_pid = Cc1(file)
    /\ Reaped(Cpp(file)) /\ failed[Cpp(file)] /\ ~IsOver(Cc1(file))
    /\ state[Cc1(file)] = "run" => Cc1(file) \in doomed
    /\ running = 0 /\ res

CppStopped ==
    /\ job.mode # "pp" /\ cpp_pid = Cpp(file) /\ cc_pid = NoOne
    /\ ~IsOver(Cpp(file)) /\ Reaped(Cc1(file)) /\ failed[Cc1(file)]
    /\ running = 0 /\ res

BothWaitedFor ==
    /\ job.mode # "pp" /\ cpp_pid = NoOne /\ cc_pid = NoOne
    /\ Reaped(Cpp(file)) /\ Reaped(Cc1(file)) /\ ~failed[Cpp(file)]
    /\ ~res => ~failed[Cc1(file)] 
    /\ running = 0 /\ Xcc \notin writers[file]

CppOnly ==
    /\ job.mode = "pp" /\ cc_pid = NoOne /\ Xcc \notin writers[file]
    /\ \/ cpp_pid = Cpp(file) /\ ~IsOver(Cpp(file)) /\ running = 1 /\ ~res
       \/ cpp_pid = NoOne /\ Reaped(Cpp(file)) /\ running = 0 /\ (~res => ~failed[Cpp(file)])

WaitAgrees ==
    /\ pc = "spawn" =>
         /\ job.mode # "pp" /\ cc_pid = Cc1(file) /\ ~IsOver(Cc1(file)) /\ state[Cpp(file)] = "none"
         /\ running = 1 /\ Xcc \in writers[file] /\ Cc1(file) \notin doomed
    /\ pc = "wait" =>
         \/ BothLeft \/ Cc1Left \/ Cc1Stopped \/ CppStopped \/ BothWaitedFor \/ CppOnly
    /\ Reaped(As) /\ exit = -1 => res
    /\ pc = "wait" /\ BothLeft /\ res => Reaped(As)

\* The pipe from a file's preprocessor to its compiler: what was written has
\* been read or is in the pipe, and its end is seen after success only.
PieceList(i, n) == [j \in 1..n |-> <<i, j>>]

PipeAgrees(i) ==
    /\ wrote[Cpp(i)] <= Chunks /\ wrote[Cc1(i)] <= Chunks
    /\ Ended(Cpp(i)) /\ ~failed[Cpp(i)] => wrote[Cpp(i)] = Chunks
    /\ Ended(Cc1(i)) /\ ~failed[Cc1(i)] => wrote[Cc1(i)] = Chunks
    /\ writers[i] \subseteq {Xcc, Cpp(i)}
    /\ Ended(Cc1(i)) /\ ~failed[Cc1(i)] => Xcc \notin writers[i]
    /\ job.mode # "pp" =>
         /\ took[Cc1(i)] \o buf[i] = PieceList(i, wrote[Cpp(i)])
         /\ state[Cpp(i)] = "run" => Cpp(i) \in writers[i]
         /\ state[Cpp(i)] # "none" => state[Cc1(i)] # "none"
         /\ (state[Cc1(i)] = "run" /\ Cc1(i) \notin doomed /\ Xcc \notin writers[i])
              => state[Cpp(i)] # "run" /\ (Ended(Cpp(i)) => ~failed[Cpp(i)])
         /\ Ended(Cc1(i)) /\ ~failed[Cc1(i)] /\ state[Cpp(i)] # "none"
              => took[Cc1(i)] = ChunksOf(i) /\ Ended(Cpp(i)) /\ ~failed[Cpp(i)]
    /\ Xcc \in writers[i] /\ exit = -1 /\ ~(pc = "files" /\ res) => i = file /\ pc \in {"spawn", "wait"}
    /\ (state[Cc1(i)] # "none" /\ state[Cpp(i)] = "none" /\ exit = -1) => pc = "spawn" /\ i = file
    /\ pc = "files" /\ state[Cc1(i)] = "run" /\ Cc1(i) \notin doomed => Xcc \notin writers[i]

\* The first n files, whole.
Upto[n \in 0..MaxFiles] == IF n = 0 THEN << >> ELSE Upto[n - 1] \o ChunksOf(n)

\* What has come out so far: the files before this one, and a part of it.
Sent == IF job.mode = "exe" THEN took[As] \o buf[0] ELSE out
Written ==
    IF pc = "cat" THEN wrote[Xcc]
    ELSE IF pc \in {"spawn", "wait"}
         THEN IF job.mode = "pp" THEN wrote[Cpp(file)] ELSE wrote[Cc1(file)]
         ELSE 0
SentAgrees ==
    /\ pc = "cat" => wrote[Xcc] <= Chunks
    /\ ~res /\ exit # 1 => Sent = Upto[file - 1] \o PieceList(file, Written)

IInv ==
    /\ TypeOK /\ FileAgrees /\ ChildrenAgree /\ AsAgrees /\ FilesAgree /\ WaitAgrees
    /\ \A i \in Files : PipeAgrees(i)
    /\ SentAgrees

-----------------------------------------------------------------------------
\* The processes and the pipes are told apart by their names; after this the
\* names are not looked into.
LEMMA Names ==
    /\ MaxFiles \in Nat /\ Files \subseteq Nat \ {0} /\ Files \subseteq Pipes
    /\ 0 \in Pipes /\ 0 \notin Files /\ File \notin Pipes /\ Pipes \subseteq Nat
    /\ As \in Children /\ Xcc \notin Children /\ NoOne \notin Children /\ Xcc # NoOne
    /\ \A i \in Files :
         /\ i \in Nat /\ i # 0 /\ i # File /\ i \in Pipes
         /\ Cpp(i) \in Children /\ Cc1(i) \in Children
         /\ Cpp(i) # As /\ Cc1(i) # As
         /\ Cpp(i) # NoOne /\ Cc1(i) # NoOne
         /\ Cpp(i) # Xcc /\ Cc1(i) # Xcc
         /\ \A j \in Files :
              /\ Cpp(i) # Cc1(j)
              /\ Cpp(i) = Cpp(j) => i = j
              /\ Cc1(i) = Cc1(j) => i = j
    /\ \A q \in Children : q = As \/ \E i \in Files : q = Cpp(i) \/ q = Cc1(i)
<1>1. MaxFiles \in Nat
  BY MaxFilesAssumption
<1> QED
  BY <1>1 DEF Files, Pipes, File, Children, As, Xcc, NoOne, Cpp, Cc1

\* The values of exit are told apart.
LEMMA ExitValues == -1 # 0 /\ -1 # 1 /\ 0 # 1
OBVIOUS

LEMMA EndsOfPipes ==
    /\ Source(As) = 0
    /\ \A i \in Files :
         /\ Source(Cc1(i)) = i /\ Cpp(i)[2] = i /\ Cc1(i)[2] = i
         /\ Sink(Cpp(i)) = IF job.mode = "pp" THEN File ELSE i
         /\ Sink(Cc1(i)) = Ofd
    /\ Sink(Xcc) = Ofd
    /\ Ofd = IF job.mode = "exe" THEN 0 ELSE File
BY DEF Source, Sink, Ofd, As, Cpp, Cc1, Xcc

-----------------------------------------------------------------------------
(* Sequences of pieces                                                     *)

\* What is read moves from the pipe to the reader.
LEMMA Moved ==
    ASSUME NEW s \in Seq(Pieces), NEW t \in Seq(Pieces), t # << >>
    PROVE  Append(s, Head(t)) \o Tail(t) = s \o t
<1>1. /\ Head(t) \in Pieces /\ Tail(t) \in Seq(Pieces)
      /\ Append(s, Head(t)) = s \o << Head(t) >>
      /\ t = << Head(t) >> \o Tail(t)
  BY HeadTailProperties, HeadTailAppend, AppendIsConcat
<1>2. << Head(t) >> \in Seq(Pieces)
  BY <1>1
<1>3. (s \o << Head(t) >>) \o Tail(t) = s \o (<< Head(t) >> \o Tail(t))
  BY <1>1, <1>2, ConcatAssociative
<1> QED
  BY <1>1, <1>3

\* What is written comes last.
LEMMA Appended ==
    ASSUME NEW s \in Seq(Pieces), NEW t \in Seq(Pieces), NEW e \in Pieces
    PROVE  s \o Append(t, e) = Append(s \o t, e)
<1>1. /\ << e >> \in Seq(Pieces) /\ s \o t \in Seq(Pieces)
      /\ Append(t, e) = t \o << e >>
      /\ Append(s \o t, e) = (s \o t) \o << e >>
  BY AppendIsConcat, ConcatProperties
<1>2. (s \o t) \o << e >> = s \o (t \o << e >>)
  BY <1>1, ConcatAssociative
<1> QED
  BY <1>1, <1>2

LEMMA PieceListProperties ==
    ASSUME NEW i \in Files, NEW n \in Nat
    PROVE  /\ PieceList(i, n) \in Seq(Pieces) /\ Len(PieceList(i, n)) = n
           /\ <<i, n + 1>> \in Pieces
           /\ Append(PieceList(i, n), <<i, n + 1>>) = PieceList(i, n + 1)
           /\ PieceList(i, 0) = << >>
           /\ PieceList(i, Chunks) = ChunksOf(i)
<1>1. /\ PieceList(i, n) \in Seq(Pieces) /\ Len(PieceList(i, n)) = n
      /\ <<i, n + 1>> \in Pieces
  BY DEF PieceList, Pieces
<1>2. Append(PieceList(i, n), <<i, n + 1>>) = PieceList(i, n + 1)
  BY <1>1 DEF PieceList
<1>3. PieceList(i, 0) = << >>
  BY DEF PieceList
<1>4. PieceList(i, Chunks) = ChunksOf(i)
  BY DEF PieceList, ChunksOf
<1> QED
  BY <1>1, <1>2, <1>3, <1>4

-----------------------------------------------------------------------------
(* What the children do                                                    *)

\* A child reads a piece from its pipe.
LEMMA ReadsEffect ==
    ASSUME TypeOK, NEW q \in Children, Reads(q), Source(q) \in Pipes
    PROVE  /\ state[q] = "run" /\ q \notin doomed
           /\ buf[Source(q)] # << >>
           /\ took' \in [Children -> Seq(Pieces)] /\ buf' \in [Pipes -> Seq(Pieces)]
           /\ \A x \in Children : x # q => took'[x] = took[x]
           /\ \A p \in Pipes : p # Source(q) => buf'[p] = buf[p]
           /\ took'[q] \o buf'[Source(q)] = took[q] \o buf[Source(q)]
           /\ UNCHANGED <<xccVars, state, failed, doomed, wrote, readers, writers, out, made>>
<1>1. took[q] \in Seq(Pieces) /\ buf[Source(q)] \in Seq(Pieces) /\ buf[Source(q)] # << >>
  BY DEF TypeOK, DataTypes, Reads
<1>2. /\ Head(buf[Source(q)]) \in Pieces /\ Tail(buf[Source(q)]) \in Seq(Pieces)
      /\ Append(took[q], Head(buf[Source(q)])) \in Seq(Pieces)
  BY <1>1, HeadTailProperties, AppendProperties
<1>3. /\ took' = [took EXCEPT ![q] = Append(took[q], Head(buf[Source(q)]))]
      /\ buf' = [buf EXCEPT ![Source(q)] = Tail(buf[Source(q)])]
  BY DEF Reads
<1>4. /\ took'[q] = Append(took[q], Head(buf[Source(q)]))
      /\ buf'[Source(q)] = Tail(buf[Source(q)])
  BY <1>3 DEF TypeOK, DataTypes
<1>5. took'[q] \o buf'[Source(q)] = took[q] \o buf[Source(q)]
  BY <1>1, <1>4, Moved
<1>6. /\ took' \in [Children -> Seq(Pieces)] /\ buf' \in [Pipes -> Seq(Pieces)]
      /\ \A x \in Children : x # q => took'[x] = took[x]
      /\ \A p \in Pipes : p # Source(q) => buf'[p] = buf[p]
  BY <1>2, <1>3 DEF TypeOK, DataTypes
<1> QED
  BY <1>1, <1>5, <1>6 DEF Reads, Runs

LEMMA ReadsIInv ==
    ASSUME IInv, NEW q \in Children, q = As \/ \E i \in Files : q = Cc1(i), Reads(q)
    PROVE  IInv'
<1> DEFINE p == Source(q)
<1>1. /\ p \in Pipes
      /\ (q = As /\ p = 0) \/ \E i \in Files : q = Cc1(i) /\ p = i
  BY Names, EndsOfPipes
<1>2. /\ state[q] = "run" /\ q \notin doomed
      /\ buf[p] # << >>
      /\ took' \in [Children -> Seq(Pieces)] /\ buf' \in [Pipes -> Seq(Pieces)]
      /\ \A x \in Children : x # q => took'[x] = took[x]
      /\ \A x \in Pipes : x # p => buf'[x] = buf[x]
      /\ took'[q] \o buf'[p] = took[q] \o buf[p]
      /\ UNCHANGED <<xccVars, state, failed, doomed, wrote, readers, writers, out, made>>
  BY <1>1, ReadsEffect DEF IInv
<1> HIDE DEF p
<1> USE DEF xccVars
<1>3. TypeOK'
  BY <1>2 DEF IInv, TypeOK, XccTypes, PidTypes, ChildTypes, DataTypes, EndTypes
<1>4. FileAgrees'
  BY <1>2 DEF IInv, FileAgrees
<1>5. ChildrenAgree'
  BY <1>2 DEF IInv, ChildrenAgree
<1>6. AsAgrees'
  BY <1>1, <1>2, Names DEF IInv, AsAgrees, Ended, AsDiesLate
<1>7. FilesAgree'
  BY <1>2 DEF IInv, FilesAgree, IsOver, Reaped
<1>8. WaitAgrees'
  BY <1>2 DEF IInv, WaitAgrees, AsCounted, BothLeft, Cc1Left, Cc1Stopped, CppStopped,
              BothWaitedFor, CppOnly, IsOver, Reaped
<1>9. ASSUME NEW i \in Files PROVE PipeAgrees(i)'
  <2>1. took'[Cc1(i)] \o buf'[i] = took[Cc1(i)] \o buf[i]
    BY <1>1, <1>2, Names
  <2>2. Ended(Cc1(i)) => took'[Cc1(i)] = took[Cc1(i)]
    BY <1>2, Names DEF Ended
  <2> QED BY <1>2, <1>9, <2>1, <2>2 DEF IInv, PipeAgrees, Ended
<1>10. SentAgrees'
  <2>1. took'[As] \o buf'[0] = took[As] \o buf[0]
    BY <1>1, <1>2, Names
  <2>2. Sent' = Sent /\ Written' = Written
    BY <1>2, <2>1 DEF Sent, Written
  <2> QED BY <1>2, <2>2 DEF IInv, SentAgrees
<1> QED
  BY <1>3, <1>4, <1>5, <1>6, <1>7, <1>8, <1>9, <1>10 DEF IInv

\* A child, or xcc for a .s file, writes a piece.
LEMMA WriteEffect ==
    ASSUME TypeOK, NEW q \in Children \cup {Xcc}, NEW i \in Files, Write(q, i),
           Sink(q) \in Pipes \cup {File}
    PROVE  /\ wrote' \in [Children \cup {Xcc} -> Nat]
           /\ wrote'[q] = wrote[q] + 1 /\ wrote[q] \in Nat
           /\ \A x \in Children \cup {Xcc} : x # q => wrote'[x] = wrote[x]
           /\ buf' \in [Pipes -> Seq(Pieces)] /\ out' \in Seq(Pieces)
           /\ \A p \in Pipes :
                buf'[p] = IF p = Sink(q) THEN Append(buf[p], <<i, wrote[q] + 1>>) ELSE buf[p]
           /\ out' = IF Sink(q) = File THEN Append(out, <<i, wrote[q] + 1>>) ELSE out
<1>0. wrote \in [Children \cup {Xcc} -> Nat]
  BY DEF TypeOK, DataTypes
<1>1. wrote[q] \in Nat /\ <<i, wrote[q] + 1>> \in Pieces
  BY <1>0 DEF Pieces
<1>2. wrote' = [wrote EXCEPT ![q] = wrote[q] + 1]
  BY DEF Write
<1>3. /\ wrote' \in [Children \cup {Xcc} -> Nat]
      /\ wrote'[q] = wrote[q] + 1
      /\ \A x \in Children \cup {Xcc} : x # q => wrote'[x] = wrote[x]
  BY <1>0, <1>1, <1>2
<1>4. CASE Sink(q) = File
  <2>1. out' = Append(out, <<i, wrote[q] + 1>>) /\ buf' = buf
    BY <1>4 DEF Write
  <2>2. out' \in Seq(Pieces)
    BY <1>1, <2>1, AppendProperties DEF TypeOK, DataTypes
  <2> QED BY <1>1, <1>3, <1>4, <2>1, <2>2, Names DEF TypeOK, DataTypes
<1>5. CASE Sink(q) # File
  <2> DEFINE p == Sink(q)
  <2>1. /\ p \in Pipes /\ out' = out
        /\ buf' = [buf EXCEPT ![p] = Append(buf[p], <<i, wrote[q] + 1>>)]
    BY <1>5 DEF Write
  <2> HIDE DEF p
  <2>2. Append(buf[p], <<i, wrote[q] + 1>>) \in Seq(Pieces)
    BY <1>1, <2>1, AppendProperties DEF TypeOK, DataTypes
  <2>3. /\ buf' \in [Pipes -> Seq(Pieces)] /\ out' \in Seq(Pieces)
        /\ \A x \in Pipes :
             buf'[x] = IF x = p THEN Append(buf[x], <<i, wrote[q] + 1>>) ELSE buf[x]
    BY <2>1, <2>2 DEF TypeOK, DataTypes
  <2> QED BY <1>1, <1>3, <1>5, <2>1, <2>3 DEF p
<1> QED
  BY <1>4, <1>5

\* The least of some natural numbers.
LEMMA Least == ASSUME NEW S \in SUBSET Nat, S # {} PROVE \E n \in S : \A m \in S : n <= m
<1>1. IsWellFoundedOn(OpToRel(<, Nat), Nat)
  BY NatLessThanWellFounded
<1>2. PICK n \in S : \A m \in S : ~(<<m, n>> \in OpToRel(<, Nat))
  BY <1>1, WFMin
<1>3. ASSUME NEW m \in S PROVE n <= m
  <2>1. m \in Nat /\ n \in Nat
    OBVIOUS
  <2>2. ~(m < n)
    BY <1>2, <2>1 DEF OpToRel
  <2> QED BY <2>1, <2>2
<1> QED
  BY <1>3

\* The files one after the other, as far as there are any.
UptoFrom(f, limit) ==
    f = [n \in 0..limit |-> IF n = 0 THEN << >> ELSE f[n - 1] \o ChunksOf(n)]

LEMMA UptoExists == ASSUME NEW limit \in Nat PROVE \E f : UptoFrom(f, limit)
<1> DEFINE None == {k \in Nat : ~\E f : UptoFrom(f, k)}
<1>1. SUFFICES ASSUME None # {} PROVE FALSE
  OBVIOUS
<1>2. None \in SUBSET Nat
  OBVIOUS
<1> HIDE DEF None
<1>3. PICK k \in None : \A m \in None : k <= m
  BY <1>1, <1>2, Least
<1>4. k \in Nat /\ ~\E f : UptoFrom(f, k)
  BY DEF None
<1>5. k # 0
  <2>1. UptoFrom([n \in 0..0 |-> << >>], 0)
    BY DEF UptoFrom
  <2> QED BY <1>4, <2>1
<1>6. k - 1 \in Nat /\ k - 1 \notin None
  BY <1>3, <1>4, <1>5
<1>7. PICK f : UptoFrom(f, k - 1)
  BY <1>6 DEF None
<1> DEFINE g == [n \in 0..k |-> IF n = k THEN f[k - 1] \o ChunksOf(k) ELSE f[n]]
<1>8. ASSUME NEW n \in 0..k
      PROVE  g[n] = IF n = 0 THEN << >> ELSE g[n - 1] \o ChunksOf(n)
  <2>1. CASE n = 0
    <3>1. f[0] = << >>
      BY <1>6, <1>7 DEF UptoFrom
    <3> QED BY <1>5, <2>1, <3>1
  <2>2. CASE n = k
    <3>1. g[k - 1] = f[k - 1]
      BY <1>4, <1>6
    <3> QED BY <1>4, <1>5, <2>2, <3>1
  <2>3. CASE n # 0 /\ n # k
    <3>1. n \in 0..(k - 1) /\ n - 1 \in 0..k /\ n - 1 # k
      BY <1>4, <2>3
    <3>2. f[n] = f[n - 1] \o ChunksOf(n)
      BY <1>7, <2>3, <3>1 DEF UptoFrom
    <3>3. g[n] = f[n] /\ g[n - 1] = f[n - 1]
      BY <2>3, <3>1
    <3> QED BY <2>3, <3>2, <3>3
  <2> QED BY <2>1, <2>2, <2>3
<1>9. UptoFrom(g, k)
  BY <1>8 DEF UptoFrom
<1> QED
  BY <1>4, <1>9

LEMMA UptoProperties ==
    /\ Upto[0] = << >>
    /\ \A n \in Files : Upto[n] = Upto[n - 1] \o ChunksOf(n)
    /\ \A n \in 0..MaxFiles : Upto[n] \in Seq(Pieces)
<1>1. MaxFiles \in Nat
  BY MaxFilesAssumption
<1>2. UptoFrom(Upto, MaxFiles)
  <2>1. PICK f : UptoFrom(f, MaxFiles)
    BY <1>1, UptoExists
  <2> QED BY <2>1 DEF Upto, UptoFrom
<1> HIDE DEF Upto
<1>3. \A n \in 0..MaxFiles : Upto[n] = IF n = 0 THEN << >> ELSE Upto[n - 1] \o ChunksOf(n)
  BY <1>2 DEF UptoFrom
<1>4. 0 \in 0..MaxFiles
  BY <1>1
<1>5. Upto[0] = << >>
  BY <1>3, <1>4
<1>6. ASSUME NEW n \in Files PROVE Upto[n] = Upto[n - 1] \o ChunksOf(n)
  <2>1. n \in 0..MaxFiles /\ n # 0
    BY <1>1 DEF Files
  <2> QED BY <1>3, <2>1
<1> DEFINE Bad == {n \in Nat : n <= MaxFiles /\ Upto[n] \notin Seq(Pieces)}
<1>7. Bad = {}
  <2>1. SUFFICES ASSUME Bad # {} PROVE FALSE
    OBVIOUS
  <2>2. Bad \in SUBSET Nat
    OBVIOUS
  <2> HIDE DEF Bad
  <2>3. PICK k \in Bad : \A m \in Bad : k <= m
    BY <2>1, <2>2, Least
  <2>4. k \in Nat /\ k <= MaxFiles /\ Upto[k] \notin Seq(Pieces)
    BY DEF Bad
  <2>5. k # 0
    <3>1. Upto[0] \in Seq(Pieces)
      BY <1>5, EmptySeq
    <3> QED BY <2>4, <3>1
  <2>6. k \in Files /\ k - 1 \in Nat /\ k - 1 <= MaxFiles /\ k - 1 \notin Bad
    BY <1>1, <2>3, <2>4, <2>5 DEF Files
  <2>7. Upto[k - 1] \in Seq(Pieces)
    BY <2>6 DEF Bad
  <2>8. ChunksOf(k) \in Seq(Pieces)
    BY <2>6, PieceListProperties, DriverAssumption
  <2>9. Upto[k] \in Seq(Pieces)
    BY <1>6, <2>6, <2>7, <2>8, ConcatProperties
  <2> QED BY <2>4, <2>9
<1> QED
  BY <1>1, <1>5, <1>6, <1>7

\* Only the children of the file at hand run while nothing has gone wrong.
LEMMA OnlyCurrentRuns ==
    ASSUME IInv, NEW i \in Files, state[Cpp(i)] = "run" \/ state[Cc1(i)] = "run"
    PROVE  /\ exit # 0 /\ pc # "wait as"
           /\ ~res /\ exit # 1 => i = file /\ pc \in {"spawn", "wait"}
<1>1. i \in Int /\ file \in Int
  <2>1. i \in Nat
    BY Names
  <2>2. file \in Nat
    BY DEF IInv, TypeOK, XccTypes
  <2> QED BY <2>1, <2>2
<1>2. /\ (i > file \/ (i = file /\ pc \in {"start", "files", "cat", "wait as"})
            \/ (exit = 0 /\ i >= file)) => FALSE
      /\ pc = "wait as" \/ exit = 0 => ~res
      /\ pc = "exit" <=> exit # -1
      /\ pc \in {"start", "files", "cat", "spawn", "wait", "wait as", "exit"}
      /\ exit \in {-1, 0, 1}
  BY DEF IInv, FilesAgree, FileAgrees, TypeOK, XccTypes
<1>3. i < file => (res \/ ((pc = "files" \/ pc = "exit") /\ res))
  BY DEF IInv, FilesAgree, IsOver
<1>4. i < file \/ i = file \/ i > file
  BY <1>1
<1>5. exit # 0 /\ pc # "wait as"
  <2>1. CASE i < file
    BY <1>2, <1>3, <2>1
  <2>2. CASE i = file \/ i > file
    <3>1. i >= file
      BY <1>1, <2>2
    <3> QED BY <1>2, <2>2, <3>1
  <2> QED BY <1>4, <2>1, <2>2
<1>6. ASSUME ~res, exit # 1 PROVE i = file /\ pc \in {"spawn", "wait"}
  BY <1>2, <1>3, <1>4, <1>5, <1>6
<1> QED
  BY <1>5, <1>6

\* The file at hand is one of the files.
LEMMA CurrentFile ==
    ASSUME IInv
    PROVE  /\ pc \in {"cat", "spawn", "wait"} => file \in Files /\ file \in Pipes
           /\ file \in Nat \ {0} /\ Len(job.files) \in Nat /\ Len(job.files) <= MaxFiles
           /\ file <= Len(job.files) => file \in Files
<1>1. job \in Jobs /\ file \in Nat \ {0}
  BY DEF IInv, TypeOK, XccTypes
<1>2. Len(job.files) <= MaxFiles /\ MaxFiles \in Nat
  BY <1>1, MaxFilesAssumption
<1>3. Len(job.files) \in Nat
  <2>1. job.files \in Seq({"c", "s", "unsupported"})
    BY <1>1, DriverAssumption
  <2> QED BY <2>1
<1>4. pc \in {"cat", "spawn", "wait"} => file <= Len(job.files)
  BY DEF IInv, FileAgrees
<1> QED
  BY <1>1, <1>2, <1>3, <1>4 DEF Files, Pipes

LEMMA WritesIInv ==
    ASSUME IInv, NEW i \in Files, NEW q \in {Cpp(i), Cc1(i)}, Writes(q),
           q = Cc1(i) => EndOfFile(Cc1(i))
    PROVE  IInv'
<1> DEFINE p == Sink(q)
           e == <<i, wrote[q] + 1>>
<1>1. /\ q \in Children /\ q # As /\ q # Xcc
      /\ p = (IF q = Cpp(i) /\ job.mode # "pp" THEN i ELSE Ofd)
      /\ p \in Pipes \cup {File}
      /\ (q = Cpp(i) /\ job.mode # "pp") => p = i
      /\ ~(q = Cpp(i) /\ job.mode # "pp") => p = (IF job.mode = "exe" THEN 0 ELSE File)
  BY Names, EndsOfPipes
<1>2. /\ state[q] = "run" /\ q \notin doomed /\ wrote[q] < Chunks
      /\ Write(q, i)
      /\ UNCHANGED <<xccVars, state, failed, doomed, took, readers, writers, made>>
  BY EndsOfPipes DEF Writes, Runs
<1>3. /\ wrote' \in [Children \cup {Xcc} -> Nat]
      /\ wrote'[q] = wrote[q] + 1 /\ wrote[q] \in Nat
      /\ \A x \in Children \cup {Xcc} : x # q => wrote'[x] = wrote[x]
      /\ buf' \in [Pipes -> Seq(Pieces)] /\ out' \in Seq(Pieces)
      /\ \A x \in Pipes : buf'[x] = IF x = p THEN Append(buf[x], e) ELSE buf[x]
      /\ out' = IF p = File THEN Append(out, e) ELSE out
  BY <1>1, <1>2, WriteEffect DEF IInv
<1>4. /\ exit # 0 /\ pc # "wait as"
      /\ ~res /\ exit # 1 => i = file /\ pc \in {"spawn", "wait"}
  BY <1>2, OnlyCurrentRuns
<1>5. job.mode = "pp" => q = Cpp(i)
  BY <1>2 DEF IInv, FilesAgree
<1> HIDE DEF p, e
<1> USE DEF xccVars
<1>6. TypeOK'
  BY <1>2, <1>3 DEF IInv, TypeOK, XccTypes, PidTypes, ChildTypes, DataTypes, EndTypes
<1>7. FileAgrees'
  BY <1>2 DEF IInv, FileAgrees
<1>8. ChildrenAgree'
  BY <1>2, <1>3 DEF IInv, ChildrenAgree
<1>9. AsAgrees'
  <2>1. Ended(As) /\ ~failed[As] /\ exit # 1 => FALSE
    BY <1>4 DEF IInv, AsAgrees
  <2> QED BY <1>2, <2>1 DEF IInv, AsAgrees, Ended, AsDiesLate
<1>10. FilesAgree'
  BY <1>2 DEF IInv, FilesAgree, IsOver, Reaped
<1>11. WaitAgrees'
  BY <1>2 DEF IInv, WaitAgrees, AsCounted, BothLeft, Cc1Left, Cc1Stopped, CppStopped,
              BothWaitedFor, CppOnly, IsOver, Reaped
<1>12. ASSUME NEW j \in Files PROVE PipeAgrees(j)'
  <2>1. Cpp(j) \in Children /\ Cc1(j) \in Children /\ j \in Pipes /\ j # 0 /\ j # File
    BY Names
  <2>2. wrote'[Cpp(j)] <= Chunks /\ wrote'[Cc1(j)] <= Chunks
    <3>1. wrote[Cpp(j)] <= Chunks /\ wrote[Cc1(j)] <= Chunks
      BY DEF IInv, PipeAgrees
    <3>2. wrote'[q] <= Chunks
      BY <1>2, <1>3, DriverAssumption
    <3> QED BY <1>3, <2>1, <3>1, <3>2
  <2>3. /\ Ended(Cpp(j)) => wrote'[Cpp(j)] = wrote[Cpp(j)]
        /\ Ended(Cc1(j)) => wrote'[Cc1(j)] = wrote[Cc1(j)]
    BY <1>2, <1>3, <2>1 DEF Ended
  <2>4. job.mode # "pp" => took[Cc1(j)] \o buf'[j] = PieceList(j, wrote'[Cpp(j)])
    <3>1. CASE q = Cpp(j) /\ job.mode # "pp"
      <4>1. j = i /\ p = i /\ buf'[i] = Append(buf[i], e)
        BY <1>1, <1>3, <2>1, <3>1, Names
      <4>2. /\ took[Cc1(i)] \in Seq(Pieces) /\ buf[i] \in Seq(Pieces) /\ e \in Pieces
            /\ took[Cc1(i)] \o buf[i] = PieceList(i, wrote[q])
        BY <1>3, <2>1, <3>1, <4>1, PieceListProperties
        DEF IInv, TypeOK, DataTypes, PipeAgrees, e
      <4>3. took[Cc1(i)] \o Append(buf[i], e) = Append(PieceList(i, wrote[q]), e)
        BY <4>2, Appended
      <4>4. Append(PieceList(i, wrote[q]), e) = PieceList(i, wrote[q] + 1)
        BY <1>3, PieceListProperties DEF e
      <4> QED BY <1>3, <3>1, <4>1, <4>3, <4>4
    <3>2. CASE q # Cpp(j) /\ job.mode # "pp"
      <4>1. p # j
        BY <1>1, <2>1, <3>2, Names
      <4>2. buf'[j] = buf[j] /\ wrote'[Cpp(j)] = wrote[Cpp(j)]
        BY <1>3, <2>1, <3>2, <4>1
      <4> QED BY <3>2, <4>2 DEF IInv, PipeAgrees
    <3> QED BY <3>1, <3>2
  <2> QED BY <1>2, <1>12, <2>2, <2>3, <2>4 DEF IInv, PipeAgrees, Ended
<1>13. SentAgrees'
  <2>1. pc = "cat" => wrote'[Xcc] <= Chunks
    BY <1>1, <1>3, Names DEF IInv, SentAgrees
  <2>2. ASSUME ~res, exit # 1 PROVE Sent' = (Upto[file - 1] \o PieceList(file, Written))'
    <3>1. i = file /\ pc \in {"spawn", "wait"}
      BY <1>4, <2>2
    <3>2. Sent = Upto[file - 1] \o PieceList(file, Written)
      BY <2>2 DEF IInv, SentAgrees
    <3>3. CASE q = Cpp(i) /\ job.mode # "pp"
      <4>1. Sent' = Sent
        BY <1>1, <1>2, <1>3, <3>3, Names DEF Sent
      <4>2. Written' = Written
        BY <1>2, <1>3, <3>1, <3>3, Names DEF Written
      <4> QED BY <1>2, <3>2, <4>1, <4>2
    <3>4. CASE ~(q = Cpp(i) /\ job.mode # "pp")
      <4>1. q = IF job.mode = "pp" THEN Cpp(i) ELSE Cc1(i)
        BY <1>5, <3>4
      <4>2. Written = wrote[q] /\ Written' = wrote[q] + 1
        BY <1>2, <1>3, <3>1, <4>1 DEF Written
      <4>3. /\ took[As] \in Seq(Pieces) /\ buf[0] \in Seq(Pieces) /\ out \in Seq(Pieces)
            /\ e \in Pieces
        BY <1>3, Names, PieceListProperties DEF IInv, TypeOK, DataTypes, e
      <4>4. Sent' = Append(Sent, e)
        <5>1. CASE job.mode = "exe"
          <6>1. buf'[0] = Append(buf[0], e)
            BY <1>1, <1>3, <3>4, <5>1, Names
          <6>2. took[As] \o Append(buf[0], e) = Append(took[As] \o buf[0], e)
            BY <4>3, Appended
          <6> QED BY <1>2, <5>1, <6>1, <6>2 DEF Sent
        <5>2. CASE job.mode # "exe"
          BY <1>1, <1>2, <1>3, <3>4, <5>2 DEF Sent
        <5> QED BY <5>1, <5>2
      <4>5. /\ Upto[file - 1] \in Seq(Pieces)
            /\ PieceList(file, wrote[q]) \in Seq(Pieces)
            /\ Append(PieceList(file, wrote[q]), e) = PieceList(file, wrote[q] + 1)
        <5>1. file - 1 \in 0..MaxFiles
          BY <3>1, Names DEF Files
        <5> QED BY <1>3, <3>1, <5>1, UptoProperties, PieceListProperties DEF e
      <4>6. Upto[file - 1] \o Append(PieceList(file, wrote[q]), e)
              = Append(Upto[file - 1] \o PieceList(file, wrote[q]), e)
        BY <4>3, <4>5, Appended
      <4>7. Sent' = Upto[file - 1] \o PieceList(file, wrote[q] + 1)
        BY <3>2, <4>2, <4>4, <4>5, <4>6
      <4> QED BY <1>2, <4>2, <4>7
    <3> QED BY <3>3, <3>4
  <2> QED BY <1>2, <2>1, <2>2 DEF SentAgrees
<1> QED
  BY <1>6, <1>7, <1>8, <1>9, <1>10, <1>11, <1>12, <1>13 DEF IInv

\* A child ends, by itself or killed.
Ending(q, failure) ==
    /\ state[q] = "run" /\ failure \in BOOLEAN
    /\ Ends(q, failure)
    /\ made' = IF q = As /\ ~failure THEN TRUE ELSE made
    /\ ~failure => q \notin doomed
    /\ q = As => ((~failure => EndOfFile(As))
                  /\ (EndOfFile(As) \/ As \in doomed \/ "as" \in job.failures))
    /\ \A i \in Files : ~failure =>
          /\ q = Cpp(i) => wrote[Cpp(i)] = Chunks
          /\ q = Cc1(i) => EndOfFile(Cc1(i)) /\ wrote[Cc1(i)] = Chunks
    /\ UNCHANGED <<xccVars, wrote, took, buf, out>>

LEMMA EndingIInv ==
    ASSUME IInv, NEW q \in Children, NEW f \in BOOLEAN, Ending(q, f)
    PROVE  IInv'
<1>1. /\ state[q] = "run"
      /\ state' = [state EXCEPT ![q] = "zombie"]
      /\ failed' = [failed EXCEPT ![q] = f]
      /\ doomed' = doomed \ {q}
      /\ readers' = [p \in Pipes |-> readers[p] \ {q}]
      /\ writers' = [p \in Pipes |-> writers[p] \ {q}]
      /\ UNCHANGED <<job, pc, file, running, cpp_pid, cc_pid, as_pid, res, exit>>
      /\ UNCHANGED <<wrote, took, buf, out>>
      /\ made' = IF q = As /\ ~f THEN TRUE ELSE made
      /\ ~f => q \notin doomed
  BY DEF Ending, Ends, xccVars, Without
<1>2. /\ \A x \in Children : state'[x] = IF x = q THEN "zombie" ELSE state[x]
      /\ \A x \in Children : failed'[x] = IF x = q THEN f ELSE failed[x]
      /\ \A p \in Pipes : writers'[p] = writers[p] \ {q}
      /\ state' \in [Children -> States] /\ failed' \in [Children -> BOOLEAN]
      /\ readers' \in [Pipes -> SUBSET (Children \cup {Xcc})]
      /\ writers' \in [Pipes -> SUBSET (Children \cup {Xcc})]
  BY <1>1 DEF IInv, TypeOK, ChildTypes, EndTypes, States
<1>3. q # Xcc /\ As \in Children
  BY Names
<1>4. TypeOK'
  BY <1>1, <1>2 DEF IInv, TypeOK, XccTypes, PidTypes, ChildTypes, DataTypes, EndTypes
<1>5. FileAgrees'
  BY <1>1 DEF IInv, FileAgrees
<1>6. ChildrenAgree'
  BY <1>1, <1>2 DEF IInv, ChildrenAgree
<1>7. AsAgrees'
  <2>1. CASE q = As
    <3>1. exit # 0 /\ pc # "start" /\ job.mode = "exe"
      BY <1>1, <2>1 DEF IInv, AsAgrees, FilesAgree, Reaped
    <3>2. EndOfFile(As) => (buf[0] = << >> /\ Xcc \notin writers[0])
      BY EndsOfPipes DEF EndOfFile
    <3>3. EndOfFile(As) /\ exit = -1 => pc = "wait as"
      BY <3>1, <3>2, Names DEF IInv, AsAgrees
    <3>4. /\ ~f => EndOfFile(As)
          /\ EndOfFile(As) \/ As \in doomed \/ "as" \in job.failures
      BY <2>1 DEF Ending
    <3>5. /\ state'[As] = "zombie" /\ failed'[As] = f /\ As \notin doomed'
          /\ \A p \in Pipes : Xcc \in writers[p] => Xcc \in writers'[p]
          /\ made' = IF ~f THEN TRUE ELSE made
      BY <1>1, <1>2, <1>3, <2>1
    <3>6. /\ exit = -1 => As \notin doomed
          /\ exit = -1 \/ exit = 1
          /\ exit = 1 /\ res => As \in doomed /\ ~made
          /\ made => FALSE
      BY <1>1, <2>1, <3>1 DEF IInv, AsAgrees, TypeOK, XccTypes, Ended
    <3>7. Ended(As)' /\ state'[As] # "reaped"
      BY <3>5 DEF Ended
    <3>8. AsDiesLate /\ exit = -1 /\ pc # "wait as" => FALSE
      BY <3>3, <3>4, <3>6 DEF AsDiesLate
    <3> QED BY <1>1, <2>1, <3>1, <3>2, <3>3, <3>4, <3>5, <3>6, <3>7, <3>8, Names
            DEF IInv, AsAgrees, AsDiesLate
  <2>2. CASE q # As
    <3>1. /\ state'[As] = state[As] /\ failed'[As] = failed[As]
          /\ As \in doomed' <=> As \in doomed
          /\ Xcc \in writers[0] => Xcc \in writers'[0]
      BY <1>1, <1>2, <1>3, <2>2, Names
    <3> QED BY <1>1, <2>2, <3>1 DEF IInv, AsAgrees, Ended, AsDiesLate
  <2> QED BY <2>1, <2>2
<1>8. FilesAgree'
  <2>1. \A x \in Children : state[x] = "none" => state'[x] = "none"
    BY <1>1, <1>2
  <2>2. \A x \in Children : IsOver(x) => state'[x] = state[x] /\ failed'[x] = failed[x]
    BY <1>1, <1>2 DEF IsOver
  <2> QED BY <1>1, <1>3, <2>1, <2>2, Names DEF IInv, FilesAgree, IsOver, Reaped
<1>9. WaitAgrees'
  <2>1. \A x \in Children : /\ IsOver(x)' = IsOver(x) /\ Reaped(x)' = Reaped(x)
                            /\ IsOver(x) => failed'[x] = failed[x]
                            /\ state'[x] = "run" => state[x] = "run"
                            /\ state'[x] = "none" <=> state[x] = "none"
                            /\ x \in doomed => (x \in doomed' \/ state'[x] = "zombie")
    BY <1>1, <1>2 DEF IsOver, Reaped
  <2>2. \A p \in Pipes : Xcc \in writers'[p] <=> Xcc \in writers[p]
    BY <1>2, <1>3
  <2>3. AsCounted' = AsCounted
    BY <1>3, <2>1 DEF AsCounted
  <2>4. pc = "spawn" => (pc = "spawn" /\ Cpp(file) \in Children /\ Cc1(file) \in Children)
    BY CurrentFile, Names
  <2>5. ASSUME pc = "wait"
        PROVE  /\ BothLeft \/ Cc1Left \/ Cc1Stopped \/ CppStopped \/ BothWaitedFor \/ CppOnly
               /\ BothLeft /\ res => Reaped(As)
               /\ file \in Files /\ file \in Pipes
               /\ Cpp(file) \in Children /\ Cc1(file) \in Children
               /\ Cpp(file) # NoOne /\ Cc1(file) # NoOne
    BY <2>5, CurrentFile, Names DEF IInv, WaitAgrees
  <2>6. ASSUME pc = "wait"
        PROVE  /\ BothLeft => BothLeft'
               /\ Cc1Left => Cc1Left'
               /\ Cc1Stopped => Cc1Stopped'
               /\ CppStopped => CppStopped'
               /\ BothWaitedFor => BothWaitedFor'
               /\ CppOnly => CppOnly'
               /\ BothLeft' => ~(Cc1Left \/ Cc1Stopped \/ CppStopped \/ BothWaitedFor \/ CppOnly)
    <3>1. BothLeft => BothLeft'
      BY <1>1, <2>1, <2>2, <2>3, <2>5, <2>6 DEF BothLeft
    <3>2. Cc1Left => Cc1Left'
      BY <1>1, <2>1, <2>2, <2>3, <2>5, <2>6 DEF Cc1Left, Reaped, IsOver
    <3>3. Cc1Stopped => Cc1Stopped'
      BY <1>1, <2>1, <2>2, <2>3, <2>5, <2>6 DEF Cc1Stopped, Reaped, IsOver
    <3>4. CppStopped => CppStopped'
      BY <1>1, <2>1, <2>2, <2>3, <2>5, <2>6 DEF CppStopped, Reaped, IsOver
    <3>5. BothWaitedFor => BothWaitedFor'
      BY <1>1, <2>1, <2>2, <2>3, <2>5, <2>6 DEF BothWaitedFor, Reaped, IsOver
    <3>6. CppOnly => CppOnly'
      BY <1>1, <2>1, <2>2, <2>3, <2>5, <2>6 DEF CppOnly, Reaped, IsOver
    <3>7. BothLeft' => ~(Cc1Left \/ Cc1Stopped \/ CppStopped \/ BothWaitedFor \/ CppOnly)
      BY <1>1, <2>5, <2>6 DEF BothLeft, Cc1Left, Cc1Stopped, CppStopped, BothWaitedFor, CppOnly
    <3> QED BY <3>1, <3>2, <3>3, <3>4, <3>5, <3>6, <3>7
  <2>7. (pc = "spawn" =>
         /\ job.mode # "pp" /\ cc_pid = Cc1(file) /\ ~IsOver(Cc1(file)) /\ state[Cpp(file)] = "none"
         /\ running = 1 /\ Xcc \in writers[file] /\ Cc1(file) \notin doomed)'
    <3>1. pc = "spawn" => file \in Pipes
      BY CurrentFile
    <3> QED BY <1>1, <2>1, <2>2, <2>4, <3>1 DEF IInv, WaitAgrees
  <2>8. (Reaped(As) /\ exit = -1 => res)'
    BY <1>1, <1>3, <2>1 DEF IInv, WaitAgrees
  <2>9. ASSUME pc' = "wait"
        PROVE  /\ (BothLeft \/ Cc1Left \/ Cc1Stopped \/ CppStopped \/ BothWaitedFor \/ CppOnly)'
               /\ (BothLeft /\ res => Reaped(As))'
    <3>1. pc = "wait" /\ (Reaped(As)' <=> Reaped(As)) /\ (res' <=> res)
      BY <1>1, <1>3, <2>1, <2>9
    <3> QED BY <2>5, <2>6, <3>1
  <2> QED BY <2>7, <2>8, <2>9 DEF WaitAgrees
<1>10. ASSUME NEW j \in Files PROVE PipeAgrees(j)'
  <2>1. /\ Cpp(j) \in Children /\ Cc1(j) \in Children /\ Cpp(j) # Cc1(j)
        /\ j \in Pipes /\ Cpp(j) # Xcc
    BY Names
  <2>2. PipeAgrees(j)
    BY DEF IInv
  <2>3. /\ \A x \in {Cpp(j), Cc1(j)} :
             /\ state'[x] = IF x = q THEN "zombie" ELSE state[x]
             /\ failed'[x] = IF x = q THEN f ELSE failed[x]
             /\ x \in doomed' => x \in doomed
             /\ x # q /\ x \in doomed => x \in doomed'
        /\ writers'[j] = writers[j] \ {q} /\ (Xcc \in writers'[j] <=> Xcc \in writers[j])
    BY <1>1, <1>2, <1>3, <2>1
  <2>4. \A x \in {Cpp(j), Cc1(j)} :
             /\ Ended(x)' <=> (x = q \/ Ended(x))
             /\ (state'[x] = "none" <=> state[x] = "none")
             /\ state'[x] = "run" => state[x] = "run" /\ x # q
    BY <1>1, <2>3 DEF Ended
  <2>5. ASSUME ~f, q = Cpp(j) PROVE wrote[Cpp(j)] = Chunks /\ q \notin doomed
    BY <2>5 DEF Ending
  <2>6. ASSUME ~f, q = Cc1(j)
        PROVE  /\ wrote[Cc1(j)] = Chunks /\ writers[j] = {}
               /\ job.mode # "pp" => took[Cc1(j)] = PieceList(j, wrote[Cpp(j)])
               /\ job.mode # "pp" => /\ state[Cpp(j)] # "run" /\ (Ended(Cpp(j)) => ~failed[Cpp(j)])
                                    /\ (state[Cpp(j)] = "none" \/ Ended(Cpp(j)))
    <3>1. wrote[Cc1(j)] = Chunks /\ writers[j] = {} /\ buf[j] = << >> /\ q \notin doomed
      BY <2>6, EndsOfPipes DEF Ending, EndOfFile
    <3>2. took[Cc1(j)] \in Seq(Pieces) /\ state[Cpp(j)] \in States
      BY <2>1 DEF IInv, TypeOK, DataTypes, ChildTypes
    <3>3. took[Cc1(j)] \o << >> = took[Cc1(j)]
      BY <3>2, ConcatEmptySeq
    <3>4. job.mode # "pp" => took[Cc1(j)] = PieceList(j, wrote[Cpp(j)])
      BY <2>2, <3>1, <3>3 DEF PipeAgrees
    <3>5. job.mode # "pp" => state[Cpp(j)] # "run" /\ (Ended(Cpp(j)) => ~failed[Cpp(j)])
      BY <1>1, <2>2, <2>6, <3>1 DEF PipeAgrees
    <3> QED BY <3>1, <3>2, <3>4, <3>5 DEF States, Ended
  <2>7. PieceList(j, Chunks) = ChunksOf(j)
    BY DriverAssumption, PieceListProperties
  <2>8. CASE q = Cpp(j)
    <3>1. /\ ~f => wrote'[Cpp(j)] = Chunks
          /\ Ended(Cc1(j)) /\ ~failed[Cc1(j)] /\ job.mode # "pp" => FALSE
          /\ state[Cc1(j)] = "run" /\ Cc1(j) \notin doomed /\ job.mode # "pp" => Xcc \in writers[j]
      BY <1>1, <2>2, <2>5, <2>8 DEF PipeAgrees, Ended
    <3> QED BY <1>1, <2>1, <2>2, <2>3, <2>4, <2>8, <3>1 DEF PipeAgrees
  <2>9. CASE q = Cc1(j)
    BY <1>1, <2>1, <2>2, <2>3, <2>4, <2>6, <2>7, <2>9 DEF PipeAgrees
  <2>10. CASE q # Cpp(j) /\ q # Cc1(j)
    BY <1>1, <2>1, <2>2, <2>3, <2>4, <2>10 DEF PipeAgrees
  <2> QED BY <2>8, <2>9, <2>10
<1>11. SentAgrees'
  <2>1. Sent' = Sent /\ Written' = Written
    BY <1>1 DEF Sent, Written
  <2> QED BY <1>1, <2>1 DEF IInv, SentAgrees
<1> QED
  BY <1>4, <1>5, <1>6, <1>7, <1>8, <1>9, <1>10, <1>11 DEF IInv

\* Whatever a child does keeps the invariant.
ChildStep ==
    \/ \E i \in Files : CppStep(i) \/ CppError(i) \/ Cc1Step(i) \/ Cc1Error(i)
    \/ AsStep \/ AsError
    \/ \E q \in Children : Killed(q)

LEMMA ChildStepIInv == ASSUME IInv, ChildStep PROVE IInv'
<1>1. ASSUME NEW i \in Files, Writes(Cpp(i)) PROVE IInv'
  <2>1. Cpp(i) # Cc1(i)
    BY Names
  <2> QED BY <1>1, <2>1, WritesIInv
<1>2. ASSUME NEW i \in Files, EndOfFile(Cc1(i)), Writes(Cc1(i)) PROVE IInv'
  BY <1>2, WritesIInv
<1>3. ASSUME NEW i \in Files, Reads(Cc1(i)) PROVE IInv'
  <2>1. Cc1(i) \in Children
    BY Names
  <2> QED BY <1>3, <2>1, ReadsIInv
<1>4. ASSUME Reads(As) PROVE IInv'
  <2>1. As \in Children
    BY Names
  <2> QED BY <1>4, <2>1, ReadsIInv
<1>5. ASSUME NEW i \in Files, NEW f \in BOOLEAN, Quits(Cpp(i), f), ~f => wrote[Cpp(i)] = Chunks,
             UNCHANGED made
      PROVE  IInv'
  <2>1. Cpp(i) \in Children /\ Cpp(i) # As
        /\ \A j \in Files : Cpp(i) # Cc1(j) /\ (Cpp(i) = Cpp(j) => i = j)
    BY Names
  <2>2. Ending(Cpp(i), f)
    BY <1>5, <2>1 DEF Ending, Quits, Runs
  <2> QED BY <2>1, <2>2, EndingIInv
<1>6. ASSUME NEW i \in Files, NEW f \in BOOLEAN, Quits(Cc1(i), f),
             ~f => EndOfFile(Cc1(i)) /\ wrote[Cc1(i)] = Chunks,
             UNCHANGED made
      PROVE  IInv'
  <2>1. Cc1(i) \in Children /\ Cc1(i) # As
        /\ \A j \in Files : Cc1(i) # Cpp(j) /\ (Cc1(i) = Cc1(j) => i = j)
    BY Names
  <2>2. Ending(Cc1(i), f)
    BY <1>6, <2>1 DEF Ending, Quits, Runs
  <2> QED BY <2>1, <2>2, EndingIInv
<1>7. ASSUME NEW f \in BOOLEAN, Quits(As, f), made' = (IF f THEN made ELSE TRUE),
             EndOfFile(As) \/ (f /\ "as" \in job.failures)
      PROVE  IInv'
  <2>1. As \in Children /\ \A j \in Files : As # Cpp(j) /\ As # Cc1(j)
    BY Names
  <2>2. Ending(As, f)
    BY <1>7, <2>1 DEF Ending, Quits, Runs
  <2> QED BY <2>1, <2>2, EndingIInv
<1>8. ASSUME NEW q \in Children, Killed(q) PROVE IInv'
  <2>1. state[q] = "run"
    BY <1>8 DEF IInv, ChildrenAgree, Killed
  <2>2. Ending(q, TRUE)
    BY <1>8, <2>1 DEF Ending, Killed
  <2> QED BY <2>2, EndingIInv
<1>9. ASSUME NEW i \in Files, CppStep(i) \/ CppError(i) \/ Cc1Step(i) \/ Cc1Error(i) PROVE IInv'
  BY <1>1, <1>2, <1>3, <1>5, <1>6, <1>9 DEF CppStep, CppError, Cc1Step, Cc1Error
<1>10. ASSUME AsStep \/ AsError PROVE IInv'
  BY <1>4, <1>7, <1>10 DEF AsStep, AsError
<1> QED
  BY <1>8, <1>9, <1>10 DEF ChildStep

-----------------------------------------------------------------------------
(* What xcc does                                                           *)

\* While nothing has gone wrong, xcc holds no end of a pipe to a compiler
\* except for the file it is at.
LEMMA XccEnds ==
    ASSUME IInv, NEW i \in Files, exit = -1, ~(pc = "files" /\ res), Xcc \in writers[i]
    PROVE  i = file /\ pc \in {"spawn", "wait"}
BY DEF IInv, PipeAgrees

LEMMA StartIInv == ASSUME IInv, Start PROVE IInv'
<1>1. /\ pc = "start" /\ pc' = "files" /\ exit = -1 /\ ~res
      /\ UNCHANGED <<job, file, running, cpp_pid, cc_pid, res, exit,
                     failed, doomed, wrote, took, buf, out, made>>
      /\ state[As] = "none" /\ as_pid = NoOne /\ ~made /\ As \notin doomed
  BY Names DEF Start, IInv, FileAgrees, AsAgrees, FilesAgree, ChildrenAgree
<1>2. /\ \A x \in Children \ {As} : state'[x] = state[x]
      /\ \A i \in Files : writers'[i] = writers[i]
      /\ state' \in [Children -> States] /\ as_pid' \in {NoOne, As}
      /\ readers' \in [Pipes -> SUBSET (Children \cup {Xcc})]
      /\ writers' \in [Pipes -> SUBSET (Children \cup {Xcc})]
      /\ job.mode = "exe" => state'[As] = "run" /\ as_pid' = As /\ writers'[0] = {Xcc}
      /\ job.mode # "exe" => state' = state /\ as_pid' = as_pid /\ writers' = writers
  <2>1. /\ state \in [Children -> States]
        /\ readers \in [Pipes -> SUBSET (Children \cup {Xcc})]
        /\ writers \in [Pipes -> SUBSET (Children \cup {Xcc})]
    BY DEF IInv, TypeOK, ChildTypes, EndTypes
  <2>2. CASE job.mode = "exe"
    <3>1. /\ state' = [state EXCEPT ![As] = "run"] /\ as_pid' = As
          /\ readers' = [Forked(readers, As) EXCEPT ![0] = {Xcc, As}]
          /\ writers' = [Forked(writers, As) EXCEPT ![0] = {Xcc}]
      BY <2>2 DEF Start, PipeExec
    <3>2. \A i \in Files : Xcc \notin writers[i]
      BY <1>1, XccEnds
    <3>3. /\ Forked(readers, As) \in [Pipes -> SUBSET (Children \cup {Xcc})]
          /\ Forked(writers, As) \in [Pipes -> SUBSET (Children \cup {Xcc})]
          /\ \A i \in Files : Forked(writers, As)[i] = writers[i]
      BY <2>1, <3>2, Names DEF Forked
    <3> QED BY <1>1, <2>1, <2>2, <3>1, <3>3, Names DEF States
  <2>3. CASE job.mode # "exe"
    <3>1. UNCHANGED <<state, readers, writers, as_pid>>
      BY <2>3 DEF Start
    <3> QED BY <1>1, <2>1, <2>3, <3>1
  <2> QED BY <2>2, <2>3
<1>3. \A x \in Children : state[x] = "run" => state'[x] = "run"
  BY <1>1, <1>2
<1>4. TypeOK'
  BY <1>1, <1>2 DEF IInv, TypeOK, XccTypes, PidTypes, ChildTypes, DataTypes, EndTypes
<1>5. FileAgrees'
  BY <1>1 DEF IInv, FileAgrees
<1>6. ChildrenAgree'
  <2>1. \A p \in Pipes : p \in Files \/ p = 0
    BY Names DEF Files, Pipes
  <2>2. \A p \in Pipes : \A x \in writers'[p] : x = Xcc \/ state'[x] = "run"
    <3>1. \A p \in Pipes : \A x \in writers[p] : x = Xcc \/ (x \in Children /\ state[x] = "run")
      BY DEF IInv, ChildrenAgree, TypeOK, EndTypes
    <3>2. \A p \in Pipes : writers'[p] = writers[p] \/ writers'[p] = {Xcc}
      BY <1>2, <2>1
    <3> QED BY <1>3, <3>1, <3>2
  <2>3. \A x \in Children : /\ state'[x] = "none" => state[x] = "none"
                            /\ x \in doomed' => x \in doomed
    BY <1>1, <1>2
  <2> QED BY <1>1, <1>3, <2>2, <2>3 DEF IInv, ChildrenAgree
<1>7. AsAgrees'
  BY <1>1, <1>2, Names DEF IInv, AsAgrees, Ended, AsDiesLate
<1>8. FilesAgree'
  BY <1>1, <1>2, Names DEF IInv, FilesAgree, IsOver, Reaped
<1>9. WaitAgrees'
  BY <1>1, <1>2 DEF IInv, WaitAgrees, Reaped
<1>10. ASSUME NEW i \in Files PROVE PipeAgrees(i)'
  <2>1. /\ state'[Cpp(i)] = state[Cpp(i)] /\ state'[Cc1(i)] = state[Cc1(i)]
        /\ writers'[i] = writers[i]
    BY <1>2, Names
  <2> QED BY <1>1, <2>1 DEF IInv, PipeAgrees, Ended
<1>11. SentAgrees'
  <2>1. Sent' = Sent /\ Written' = Written
    BY <1>1 DEF Sent, Written
  <2> QED BY <1>1, <2>1 DEF IInv, SentAgrees
<1> QED
  BY <1>4, <1>5, <1>6, <1>7, <1>8, <1>9, <1>10, <1>11 DEF IInv

\* A file of a kind xcc does not know, or one that it cannot open.
LEMMA RefusedIInv ==
    ASSUME IInv, NEW kind, FileDue(kind), res',
           UNCHANGED <<job, pc, file, running, cpp_pid, cc_pid, as_pid, exit, childVars>>
    PROVE  IInv'
<1>1. /\ pc = "files" /\ ~res /\ res' /\ exit = -1
      /\ UNCHANGED <<job, pc, file, running, cpp_pid, cc_pid, as_pid, exit,
                     state, failed, doomed, wrote, took, buf, readers, writers, out, made>>
  BY DEF FileDue, childVars, IInv, FileAgrees
<1>2. TypeOK'
  BY <1>1 DEF IInv, TypeOK, XccTypes, PidTypes, ChildTypes, DataTypes, EndTypes
<1>3. FileAgrees' /\ ChildrenAgree'
  BY <1>1 DEF IInv, FileAgrees, ChildrenAgree
<1>4. AsAgrees'
  BY <1>1 DEF IInv, AsAgrees, Ended, AsDiesLate
<1>5. FilesAgree'
  BY <1>1 DEF IInv, FilesAgree, IsOver, Reaped
<1>6. WaitAgrees'
  BY <1>1 DEF IInv, WaitAgrees, Reaped
<1>7. ASSUME NEW i \in Files PROVE PipeAgrees(i)'
  BY <1>1 DEF IInv, PipeAgrees, Ended
<1>8. SentAgrees'
  BY <1>1 DEF IInv, SentAgrees
<1> QED
  BY <1>2, <1>3, <1>4, <1>5, <1>6, <1>7, <1>8 DEF IInv

\* A whole file after those before it is all the files up to it.
LEMMA FileDone ==
    ASSUME NEW i \in Files
    PROVE  Upto[i - 1] \o PieceList(i, Chunks) = Upto[(i + 1) - 1] \o PieceList(i + 1, 0)
<1>1. i \in Nat /\ i \in 0..MaxFiles /\ (i + 1) - 1 = i
  <2>1. i \in Nat /\ MaxFiles \in Nat
    BY Names
  <2> QED BY <2>1 DEF Files
<1>2. PieceList(i + 1, 0) = << >>
  BY DEF PieceList
<1>3. Upto[i] \in Seq(Pieces) /\ Upto[i] = Upto[i - 1] \o ChunksOf(i)
  BY <1>1, UptoProperties
<1>4. Upto[i] \o << >> = Upto[i]
  BY <1>3, ConcatEmptySeq
<1>5. PieceList(i, Chunks) = ChunksOf(i)
  BY PieceListProperties, DriverAssumption
<1> QED
  BY <1>1, <1>2, <1>3, <1>4, <1>5

LEMMA CatStartIInv == ASSUME IInv, CatStart PROVE IInv'
<1>1. CASE res' = TRUE /\ UNCHANGED <<pc, wrote>>
  <2>1. UNCHANGED <<job, pc, file, running, cpp_pid, cc_pid, as_pid, exit, childVars>>
    BY <1>1 DEF CatStart, childVars
  <2> QED BY <1>1, <2>1, RefusedIInv DEF CatStart
<1>2. CASE pc' = "cat" /\ wrote' = [wrote EXCEPT ![Xcc] = 0] /\ UNCHANGED res
  <2>1. /\ pc = "files" /\ ~res /\ exit = -1 /\ file <= Len(job.files)
        /\ pc' = "cat" /\ wrote' = [wrote EXCEPT ![Xcc] = 0]
        /\ UNCHANGED <<job, file, running, cpp_pid, cc_pid, as_pid, exit, res,
                       state, failed, doomed, took, buf, readers, writers, out, made>>
    BY <1>2 DEF CatStart, FileDue, IInv, FileAgrees
  <2>2. /\ \A x \in Children : wrote'[x] = wrote[x]
        /\ wrote'[Xcc] = 0 /\ wrote' \in [Children \cup {Xcc} -> Nat]
    BY <2>1, Names DEF IInv, TypeOK, DataTypes
  <2>3. TypeOK'
    BY <2>1, <2>2 DEF IInv, TypeOK, XccTypes, PidTypes, ChildTypes, DataTypes, EndTypes
  <2>4. FileAgrees'
    BY <2>1 DEF IInv, FileAgrees
  <2>5. ChildrenAgree'
    BY <2>1, <2>2 DEF IInv, ChildrenAgree
  <2>6. AsAgrees'
    BY <2>1 DEF IInv, AsAgrees, Ended, AsDiesLate
  <2>7. FilesAgree'
    BY <2>1 DEF IInv, FilesAgree, IsOver, Reaped
  <2>8. WaitAgrees'
    BY <2>1 DEF IInv, WaitAgrees, Reaped
  <2>9. ASSUME NEW i \in Files PROVE PipeAgrees(i)'
    <3>1. Cpp(i) \in Children /\ Cc1(i) \in Children
      BY Names
    <3> QED BY <2>1, <2>2, <3>1 DEF IInv, PipeAgrees, Ended
  <2>10. SentAgrees'
    <3>1. Sent' = Sent /\ Written' = Written
      BY <2>1, <2>2 DEF Sent, Written
    <3> QED BY <2>1, <2>2, <3>1, DriverAssumption DEF IInv, SentAgrees
  <2> QED
    BY <2>3, <2>4, <2>5, <2>6, <2>7, <2>8, <2>9, <2>10 DEF IInv
<1> QED
  BY <1>1, <1>2 DEF CatStart

LEMMA CatWriteIInv == ASSUME IInv, CatWrite PROVE IInv'
<1> DEFINE e == <<file, wrote[Xcc] + 1>>
<1>1. /\ pc = "cat" /\ wrote[Xcc] < Chunks /\ Write(Xcc, file) /\ exit = -1 /\ file \in Files
      /\ UNCHANGED <<xccVars, state, failed, doomed, took, readers, writers, made>>
  BY CurrentFile DEF CatWrite, IInv, FileAgrees
<1>2. /\ Sink(Xcc) = IF job.mode = "exe" THEN 0 ELSE File
      /\ 0 \in Pipes /\ File \notin Pipes /\ 0 \notin Files /\ 0 # File
  BY EndsOfPipes, Names DEF File
<1>3. /\ wrote' \in [Children \cup {Xcc} -> Nat]
      /\ wrote'[Xcc] = wrote[Xcc] + 1 /\ wrote[Xcc] \in Nat
      /\ \A x \in Children \cup {Xcc} : x # Xcc => wrote'[x] = wrote[x]
      /\ buf' \in [Pipes -> Seq(Pieces)] /\ out' \in Seq(Pieces)
      /\ \A x \in Pipes : buf'[x] = IF x = Sink(Xcc) THEN Append(buf[x], e) ELSE buf[x]
      /\ out' = IF Sink(Xcc) = File THEN Append(out, e) ELSE out
  BY <1>1, <1>2, WriteEffect DEF IInv
<1> HIDE DEF e
<1> USE DEF xccVars
<1>4. TypeOK'
  BY <1>1, <1>3 DEF IInv, TypeOK, XccTypes, PidTypes, ChildTypes, DataTypes, EndTypes
<1>5. FileAgrees'
  BY <1>1 DEF IInv, FileAgrees
<1>6. ChildrenAgree'
  BY <1>1, <1>3, Names DEF IInv, ChildrenAgree
<1>7. AsAgrees'
  BY <1>1 DEF IInv, AsAgrees, Ended, AsDiesLate
<1>8. FilesAgree'
  BY <1>1 DEF IInv, FilesAgree, IsOver, Reaped
<1>9. WaitAgrees'
  BY <1>1 DEF IInv, WaitAgrees, Reaped
<1>10. ASSUME NEW i \in Files PROVE PipeAgrees(i)'
  <2>1. /\ Cpp(i) \in Children /\ Cc1(i) \in Children /\ i \in Pipes
        /\ i # 0 /\ i # File /\ Cpp(i) # Xcc /\ Cc1(i) # Xcc
    BY Names
  <2>2. /\ wrote'[Cpp(i)] = wrote[Cpp(i)] /\ wrote'[Cc1(i)] = wrote[Cc1(i)]
        /\ buf'[i] = buf[i]
    BY <1>2, <1>3, <2>1
  <2> QED BY <1>1, <2>2 DEF IInv, PipeAgrees, Ended
<1>11. SentAgrees'
  <2>1. wrote'[Xcc] <= Chunks
    BY <1>1, <1>3, DriverAssumption
  <2>2. ASSUME ~res PROVE Sent' = (Upto[file - 1] \o PieceList(file, Written))'
    <3>1. Written = wrote[Xcc] /\ Written' = wrote[Xcc] + 1
      BY <1>1, <1>3 DEF Written
    <3>2. Sent = Upto[file - 1] \o PieceList(file, wrote[Xcc])
      <4>1. exit # 1
        BY <1>1
      <4>2. Sent = Upto[file - 1] \o PieceList(file, Written)
        BY <2>2, <4>1 DEF IInv, SentAgrees
      <4> QED BY <3>1, <4>2
    <3>3. /\ took[As] \in Seq(Pieces) /\ buf[0] \in Seq(Pieces) /\ out \in Seq(Pieces)
          /\ e \in Pieces
      BY <1>1, <1>3, Names, PieceListProperties DEF IInv, TypeOK, DataTypes, e
    <3>4. Sent' = Append(Sent, e)
      <4>1. CASE job.mode = "exe"
        <5>1. buf'[0] = Append(buf[0], e)
          BY <1>2, <1>3, <4>1
        <5>2. took[As] \o Append(buf[0], e) = Append(took[As] \o buf[0], e)
          BY <3>3, Appended
        <5> QED BY <1>1, <4>1, <5>1, <5>2 DEF Sent
      <4>2. CASE job.mode # "exe"
        BY <1>1, <1>2, <1>3, <4>2 DEF Sent
      <4> QED BY <4>1, <4>2
    <3>5. /\ Upto[file - 1] \in Seq(Pieces)
          /\ PieceList(file, wrote[Xcc]) \in Seq(Pieces)
          /\ Append(PieceList(file, wrote[Xcc]), e) = PieceList(file, wrote[Xcc] + 1)
      <4>1. file - 1 \in 0..MaxFiles
        BY <1>1, Names DEF Files
      <4> QED BY <1>1, <1>3, <4>1, UptoProperties, PieceListProperties DEF e
    <3>6. Upto[file - 1] \o Append(PieceList(file, wrote[Xcc]), e)
            = Append(Upto[file - 1] \o PieceList(file, wrote[Xcc]), e)
      BY <3>3, <3>5, Appended
    <3>7. Sent' = Upto[file - 1] \o PieceList(file, wrote[Xcc] + 1)
      BY <3>2, <3>4, <3>5, <3>6
    <3> QED BY <1>1, <3>1, <3>7
  <2> QED BY <1>1, <2>1, <2>2 DEF SentAgrees
<1> QED
  BY <1>4, <1>5, <1>6, <1>7, <1>8, <1>9, <1>10, <1>11 DEF IInv

LEMMA CatReadFailsIInv == ASSUME IInv, CatReadFails PROVE IInv'
<1>1. /\ pc = "cat" /\ pc' = "files" /\ res' = TRUE /\ exit = -1 /\ ~res
      /\ UNCHANGED <<job, file, running, cpp_pid, cc_pid, as_pid, exit,
                     state, failed, doomed, wrote, took, buf, readers, writers, out, made>>
  BY DEF CatReadFails, childVars, IInv, FileAgrees, FilesAgree
<1>2. TypeOK'
  BY <1>1 DEF IInv, TypeOK, XccTypes, PidTypes, ChildTypes, DataTypes, EndTypes
<1>3. FileAgrees'
  <2>1. file \in Nat /\ Len(job.files) \in Nat
    BY CurrentFile
  <2> QED BY <1>1, <2>1 DEF IInv, FileAgrees
<1>4. ChildrenAgree'
  BY <1>1 DEF IInv, ChildrenAgree
<1>5. AsAgrees'
  BY <1>1 DEF IInv, AsAgrees, Ended, AsDiesLate
<1>6. FilesAgree'
  BY <1>1 DEF IInv, FilesAgree, IsOver, Reaped
<1>7. WaitAgrees'
  BY <1>1 DEF IInv, WaitAgrees, Reaped
<1>8. ASSUME NEW i \in Files PROVE PipeAgrees(i)'
  <2>1. Xcc \notin writers[i]
    BY <1>1, XccEnds
  <2> QED BY <1>1, <2>1 DEF IInv, PipeAgrees, Ended
<1>9. SentAgrees'
  BY <1>1 DEF SentAgrees
<1> QED
  BY <1>2, <1>3, <1>4, <1>5, <1>6, <1>7, <1>8, <1>9 DEF IInv

LEMMA CatEndIInv == ASSUME IInv, CatEnd PROVE IInv'
<1>1. /\ pc = "cat" /\ pc' = "files" /\ wrote[Xcc] = Chunks /\ exit = -1 /\ ~res
      /\ file \in Files /\ file \in Nat \ {0} /\ file <= Len(job.files) /\ file' = file + 1
      /\ Len(job.files) \in Nat
      /\ UNCHANGED <<job, running, cpp_pid, cc_pid, as_pid, res, exit,
                     state, failed, doomed, wrote, took, buf, readers, writers, out, made>>
  BY CurrentFile DEF CatEnd, IInv, FileAgrees, FilesAgree, childVars
<1>2. TypeOK'
  BY <1>1 DEF IInv, TypeOK, XccTypes, PidTypes, ChildTypes, DataTypes, EndTypes
<1>3. FileAgrees'
  BY <1>1 DEF IInv, FileAgrees
<1>4. ChildrenAgree'
  BY <1>1 DEF IInv, ChildrenAgree
<1>5. AsAgrees'
  BY <1>1 DEF IInv, AsAgrees, Ended, AsDiesLate
<1>6. FilesAgree'
  <2>1. ASSUME NEW i \in Files
        PROVE  /\ i > file' \/ i = file' => state[Cpp(i)] = "none" /\ state[Cc1(i)] = "none"
               /\ i < file' => /\ IsOver(Cpp(i)) /\ IsOver(Cc1(i))
                               /\ ~failed[Cpp(i)] /\ ~failed[Cc1(i)]
    <3>1. i \in Nat /\ Cpp(i) \in Children /\ Cc1(i) \in Children
      BY Names
    <3>2. /\ (i > file \/ i = file) => state[Cpp(i)] = "none" /\ state[Cc1(i)] = "none"
          /\ i < file => /\ IsOver(Cpp(i)) /\ IsOver(Cc1(i))
                         /\ ~failed[Cpp(i)] /\ ~failed[Cc1(i)]
      BY <1>1 DEF IInv, FilesAgree
    <3>3. \A x \in {Cpp(i), Cc1(i)} : state[x] = "none" => ~failed[x]
      BY <3>1 DEF IInv, ChildrenAgree
    <3> QED BY <1>1, <3>1, <3>2, <3>3 DEF IsOver
  <2> QED BY <1>1, <2>1 DEF IInv, FilesAgree, IsOver, Reaped
<1>7. WaitAgrees'
  BY <1>1 DEF IInv, WaitAgrees, Reaped
<1>8. ASSUME NEW i \in Files PROVE PipeAgrees(i)'
  BY <1>1 DEF IInv, PipeAgrees, Ended
<1>9. SentAgrees'
  <2>1. Sent' = Sent /\ Written = Chunks /\ Written' = 0
    BY <1>1 DEF Sent, Written
  <2> QED BY <1>1, <2>1, FileDone DEF IInv, SentAgrees
<1> QED
  BY <1>2, <1>3, <1>4, <1>5, <1>6, <1>7, <1>8, <1>9 DEF IInv

\* What fork and close do to the ends of the pipes.
LEMMA ForkedEnds ==
    ASSUME EndTypes, NEW q \in Children
    PROVE  /\ Forked(readers, q) \in [Pipes -> SUBSET (Children \cup {Xcc})]
           /\ Forked(writers, q) \in [Pipes -> SUBSET (Children \cup {Xcc})]
           /\ \A p \in Pipes : Forked(writers, q)[p]
                = IF Xcc \in writers[p] THEN writers[p] \cup {q} ELSE writers[p]
BY DEF EndTypes, Forked

LEMMA ClosedEnds ==
    ASSUME EndTypes, NEW ps, Close(ps)
    PROVE  /\ readers' \in [Pipes -> SUBSET (Children \cup {Xcc})]
           /\ writers' \in [Pipes -> SUBSET (Children \cup {Xcc})]
           /\ \A p \in Pipes : writers'[p]
                = IF p \in ps THEN writers[p] \ {Xcc} ELSE writers[p]
BY DEF EndTypes, Close, Without

LEMMA SpawnCc1IInv == ASSUME IInv, SpawnCc1 PROVE IInv'
<1> DEFINE q == Cc1(file)
<1>1. /\ pc = "files" /\ ~res /\ exit = -1 /\ file <= Len(job.files) /\ file \in Files
      /\ job.mode # "pp" /\ pc' = "spawn" /\ cc_pid' = q /\ running' = 1
      /\ state' = [state EXCEPT ![q] = "run"]
      /\ readers' = [Forked(readers, q) EXCEPT ![file] = {Xcc, q}]
      /\ writers' = [Forked(writers, q) EXCEPT ![file] = {Xcc}]
      /\ UNCHANGED <<job, file, cpp_pid, as_pid, res, exit,
                     failed, doomed, wrote, took, buf, out, made>>
  BY CurrentFile DEF SpawnCc1, FileDue, PipeExec, IInv, FileAgrees
<1>2. /\ q \in Children /\ Cpp(file) \in Children /\ q # Cpp(file) /\ file \in Pipes /\ q # As
      /\ 0 # file /\ 0 \in Pipes /\ As \in Children /\ q \in {Cc1(i) : i \in Files}
      /\ \A i \in Files : Cpp(i) # q /\ (Cc1(i) = q => i = file)
  BY <1>1, Names
<1>3. state[q] = "none" /\ state[Cpp(file)] = "none" /\ q \notin doomed
      /\ wrote[q] = 0 /\ Cpp(file) \notin doomed
  BY <1>1, <1>2 DEF IInv, FilesAgree, ChildrenAgree
<1>4. \A i \in Files : Xcc \notin writers[i]
  BY <1>1, XccEnds
<1>5. /\ state' \in [Children -> States]
      /\ \A x \in Children : state'[x] = IF x = q THEN "run" ELSE state[x]
      /\ readers' \in [Pipes -> SUBSET (Children \cup {Xcc})]
      /\ writers' \in [Pipes -> SUBSET (Children \cup {Xcc})]
      /\ \A p \in Pipes : writers'[p] =
           IF p = file THEN {Xcc}
           ELSE IF Xcc \in writers[p] THEN writers[p] \cup {q} ELSE writers[p]
  <2>1. /\ state \in [Children -> States] /\ EndTypes
    BY DEF IInv, TypeOK, ChildTypes
  <2>2. /\ state' \in [Children -> States]
        /\ \A x \in Children : state'[x] = IF x = q THEN "run" ELSE state[x]
    BY <1>1, <1>2, <2>1 DEF States
  <2>3. {Xcc, q} \subseteq Children \cup {Xcc} /\ {Xcc} \subseteq Children \cup {Xcc}
    BY <1>2
  <2> HIDE DEF q
  <2> QED BY <1>1, <1>2, <2>1, <2>2, <2>3, ForkedEnds
<1> HIDE DEF q
<1>6. TypeOK'
  BY <1>1, <1>2, <1>5 DEF IInv, TypeOK, XccTypes, PidTypes, ChildTypes, DataTypes, EndTypes
<1>7. FileAgrees'
  BY <1>1 DEF IInv, FileAgrees
<1>8. ChildrenAgree'
  <2>1. ASSUME NEW x \in Children
        PROVE  /\ (state[x] = "none" => ~failed[x] /\ wrote[x] = 0 /\ took[x] = << >>)'
               /\ x \in doomed' => state'[x] = "run"
    BY <1>1, <1>3, <1>5, <2>1 DEF IInv, ChildrenAgree
  <2>2. ASSUME NEW p \in Pipes, NEW x \in writers'[p] PROVE x = Xcc \/ state'[x] = "run"
    <3>1. CASE x \in writers[p] /\ x # Xcc
      <4>1. x \in Children /\ state[x] = "run"
        BY <3>1 DEF IInv, ChildrenAgree, TypeOK, EndTypes
      <4> QED BY <1>5, <4>1
    <3>2. CASE x = Xcc \/ x = q
      BY <1>2, <1>5, <3>2
    <3> QED BY <1>5, <2>2, <3>1, <3>2
  <2> QED BY <2>1, <2>2 DEF ChildrenAgree
<1>9. AsAgrees'
  <2>1. state'[As] = state[As] /\ (Xcc \in writers[0] => Xcc \in writers'[0])
    BY <1>2, <1>5
  <2> QED BY <1>1, <2>1 DEF IInv, AsAgrees, Ended, AsDiesLate
<1>10. FilesAgree'
  <2>1. ASSUME NEW i \in Files
        PROVE  /\ state'[Cpp(i)] = state[Cpp(i)]
               /\ i # file => state'[Cc1(i)] = state[Cc1(i)]
               /\ i > file \/ i < file => i # file
    <3>1. Cpp(i) \in Children /\ Cc1(i) \in Children
      BY Names
    <3>2. i \in Nat /\ file \in Nat
      BY <1>1, Names
    <3> QED BY <1>2, <1>5, <3>1, <3>2
  <2> QED BY <1>1, <2>1 DEF IInv, FilesAgree, IsOver, Reaped
<1>11. WaitAgrees'
  <2>1. /\ state'[q] = "run" /\ state'[Cpp(file)] = "none" /\ Xcc \in writers'[file]
        /\ state'[As] = state[As]
    BY <1>2, <1>3, <1>5
  <2> QED BY <1>1, <1>3, <2>1 DEF IInv, WaitAgrees, Reaped, IsOver, q
<1>12. ASSUME NEW i \in Files PROVE PipeAgrees(i)'
  <2>1. /\ Cpp(i) \in Children /\ Cc1(i) \in Children /\ i \in Pipes /\ i # 0
    BY Names
  <2>2. /\ state'[Cpp(i)] = state[Cpp(i)]
        /\ i # file => state'[Cc1(i)] = state[Cc1(i)] /\ writers'[i] = writers[i]
        /\ i = file => state'[Cc1(i)] = "run" /\ writers'[i] = {Xcc} /\ state[Cpp(i)] = "none"
    BY <1>2, <1>3, <1>4, <1>5, <2>1 DEF q
  <2>3. CASE i # file
    BY <1>1, <2>2, <2>3 DEF IInv, PipeAgrees, Ended
  <2>4. CASE i = file
    BY <1>1, <2>2, <2>4 DEF IInv, PipeAgrees, Ended
  <2> QED BY <2>3, <2>4
<1>13. SentAgrees'
  <2>1. Sent' = Sent /\ Written' = 0 /\ Written = 0
    BY <1>1, <1>3 DEF Sent, Written, q
  <2> QED BY <1>1, <2>1 DEF IInv, SentAgrees
<1> QED
  BY <1>6, <1>7, <1>8, <1>9, <1>10, <1>11, <1>12, <1>13 DEF IInv

LEMMA SpawnCppIInv == ASSUME IInv, SpawnCpp PROVE IInv'
<1> DEFINE q == Cpp(file)
<1>1. /\ job.mode = "pp" => pc = "files" /\ cc_pid' = NoOne /\ running' = 1
      /\ job.mode # "pp" => pc = "spawn" /\ running' = running + 1 /\ cc_pid' = cc_pid
      /\ ~res /\ exit = -1 /\ file <= Len(job.files) /\ file \in Files
      /\ pc' = "wait" /\ cpp_pid' = q
      /\ state' = [state EXCEPT ![q] = "run"]
      /\ readers' = Forked(readers, q) /\ writers' = Forked(writers, q)
      /\ UNCHANGED <<job, file, as_pid, res, exit,
                     failed, doomed, wrote, took, buf, out, made>>
  <2>1. pc = "spawn" \/ FileDue("c")
    BY DEF SpawnCpp
  <2>2. ~res /\ exit = -1 /\ file <= Len(job.files) /\ file \in Files
    BY <2>1, CurrentFile DEF FileDue, IInv, FileAgrees, FilesAgree
  <2> QED BY <2>2 DEF SpawnCpp, FileDue, ExecWithOfd
<1>2. /\ q \in Children /\ Cc1(file) \in Children /\ q # Cc1(file) /\ file \in Pipes /\ q # As
      /\ 0 # file /\ 0 \in Pipes /\ As \in Children /\ q \in {Cpp(i) : i \in Files} /\ q # Xcc
      /\ \A i \in Files : Cc1(i) # q /\ (Cpp(i) = q => i = file)
  BY <1>1, Names
<1>3. state[q] = "none" /\ q \notin doomed /\ wrote[q] = 0
  <2>1. state[q] = "none"
    BY <1>1 DEF IInv, FilesAgree, WaitAgrees
  <2> QED BY <1>2, <2>1 DEF IInv, ChildrenAgree
<1>4. /\ \A i \in Files : i # file => Xcc \notin writers[i]
      /\ job.mode = "pp" => Xcc \notin writers[file]
      /\ job.mode # "pp" => Xcc \in writers[file] /\ ~IsOver(Cc1(file)) /\ cc_pid = Cc1(file)
                            /\ running = 1 /\ Cc1(file) \notin doomed
  <2>1. /\ \A i \in Files : i # file => Xcc \notin writers[i]
        /\ job.mode = "pp" => Xcc \notin writers[file]
    BY <1>1, XccEnds
  <2> QED BY <1>1, <2>1 DEF IInv, WaitAgrees
<1>5. /\ state' \in [Children -> States]
      /\ \A x \in Children : state'[x] = IF x = q THEN "run" ELSE state[x]
      /\ readers' \in [Pipes -> SUBSET (Children \cup {Xcc})]
      /\ writers' \in [Pipes -> SUBSET (Children \cup {Xcc})]
      /\ \A p \in Pipes : writers'[p] =
           IF Xcc \in writers[p] THEN writers[p] \cup {q} ELSE writers[p]
  <2>1. /\ state \in [Children -> States] /\ EndTypes
    BY DEF IInv, TypeOK, ChildTypes
  <2>2. /\ state' \in [Children -> States]
        /\ \A x \in Children : state'[x] = IF x = q THEN "run" ELSE state[x]
    BY <1>1, <1>2, <2>1 DEF States
  <2> HIDE DEF q
  <2> QED BY <1>1, <1>2, <2>1, <2>2, ForkedEnds
<1> HIDE DEF q
<1>6. TypeOK'
  <2>1. PidTypes'
    BY <1>1, <1>2 DEF IInv, TypeOK, PidTypes
  <2>2. XccTypes'
    <3>1. running' \in Int
      <4>1. running \in Int
        BY DEF IInv, TypeOK, XccTypes
      <4>2. CASE job.mode = "pp"
        BY <1>1, <4>2
      <4>3. CASE job.mode # "pp"
        <5>1. running' = running + 1
          BY <1>1, <4>3
        <5> QED BY <4>1, <5>1
      <4> QED BY <4>2, <4>3
    <3> QED BY <1>1, <3>1 DEF IInv, TypeOK, XccTypes
  <2>3. ChildTypes' /\ DataTypes' /\ EndTypes'
    BY <1>1, <1>5 DEF IInv, TypeOK, ChildTypes, DataTypes, EndTypes
  <2> QED BY <2>1, <2>2, <2>3 DEF TypeOK
<1>7. FileAgrees'
  BY <1>1 DEF IInv, FileAgrees
<1>8. ChildrenAgree'
  <2>1. ASSUME NEW x \in Children
        PROVE  /\ (state[x] = "none" => ~failed[x] /\ wrote[x] = 0 /\ took[x] = << >>)'
               /\ x \in doomed' => state'[x] = "run"
    BY <1>1, <1>3, <1>5, <2>1 DEF IInv, ChildrenAgree
  <2>2. ASSUME NEW p \in Pipes, NEW x \in writers'[p] PROVE x = Xcc \/ state'[x] = "run"
    <3>1. CASE x \in writers[p] /\ x # Xcc
      <4>1. x \in Children /\ state[x] = "run"
        BY <3>1 DEF IInv, ChildrenAgree, TypeOK, EndTypes
      <4> QED BY <1>5, <4>1
    <3>2. CASE x = Xcc \/ x = q
      BY <1>2, <1>5, <3>2
    <3> QED BY <1>5, <2>2, <3>1, <3>2
  <2> QED BY <2>1, <2>2 DEF ChildrenAgree
<1>9. AsAgrees'
  <2>1. state'[As] = state[As] /\ (Xcc \in writers[0] => Xcc \in writers'[0])
    BY <1>2, <1>5
  <2> QED BY <1>1, <2>1 DEF IInv, AsAgrees, Ended, AsDiesLate
<1>10. FilesAgree'
  <2>1. ASSUME NEW i \in Files
        PROVE  /\ state'[Cc1(i)] = state[Cc1(i)]
               /\ i # file => state'[Cpp(i)] = state[Cpp(i)]
               /\ i > file \/ i < file => i # file
    <3>1. Cpp(i) \in Children /\ Cc1(i) \in Children
      BY Names
    <3>2. i \in Nat /\ file \in Nat
      BY <1>1, Names
    <3> QED BY <1>2, <1>5, <3>1, <3>2
  <2>2. ASSUME NEW i \in Files
        PROVE  /\ i > file => state'[Cpp(i)] = "none" /\ state'[Cc1(i)] = "none"
               /\ i < file => /\ IsOver(Cpp(i))' /\ IsOver(Cc1(i))'
                              /\ ~failed'[Cpp(i)] /\ ~failed'[Cc1(i)]
               /\ job.mode = "pp" => state'[Cc1(i)] = "none"
    <3>1. /\ i > file => state[Cpp(i)] = "none" /\ state[Cc1(i)] = "none"
          /\ i < file => /\ IsOver(Cpp(i)) /\ IsOver(Cc1(i))
                         /\ ~failed[Cpp(i)] /\ ~failed[Cc1(i)]
          /\ job.mode = "pp" => state[Cc1(i)] = "none"
      BY <1>1 DEF IInv, FilesAgree
    <3> QED BY <1>1, <2>1, <3>1 DEF IsOver
  <2> QED BY <1>1, <2>2 DEF FilesAgree
<1>11. WaitAgrees'
  <2>1. /\ state'[q] = "run" /\ state'[Cc1(file)] = state[Cc1(file)] /\ state'[As] = state[As]
        /\ Xcc \in writers[file] => Xcc \in writers'[file]
    BY <1>2, <1>5
  <2>2. ~Reaped(As)
    BY <1>1 DEF IInv, WaitAgrees
  <2>3. job.mode # "pp" => BothLeft'
    BY <1>1, <1>3, <1>4, <2>1, <2>2 DEF BothLeft, AsCounted, Reaped, IsOver, q
  <2>4. job.mode = "pp" => CppOnly'
    <3>1. job.mode = "pp" => Xcc \notin writers'[file]
      BY <1>2, <1>4, <1>5
    <3> QED BY <1>1, <2>1, <3>1 DEF CppOnly, IsOver, q
  <2> QED BY <1>1, <2>1, <2>2, <2>3, <2>4 DEF WaitAgrees, Reaped
<1>12. ASSUME NEW i \in Files PROVE PipeAgrees(i)'
  <2>1. /\ Cpp(i) \in Children /\ Cc1(i) \in Children /\ i \in Pipes /\ i # 0
    BY Names
  <2>2. /\ state'[Cc1(i)] = state[Cc1(i)]
        /\ i # file => state'[Cpp(i)] = state[Cpp(i)] /\ writers'[i] = writers[i]
        /\ i = file => /\ state'[Cpp(i)] = "run" /\ q = Cpp(i)
                       /\ job.mode # "pp" => writers'[i] = writers[i] \cup {q} /\ Xcc \in writers'[i]
                       /\ job.mode = "pp" => writers'[i] = writers[i]
    BY <1>2, <1>3, <1>4, <1>5, <2>1 DEF q
  <2>3. PipeAgrees(i)
    BY DEF IInv
  <2>4. CASE i # file
    BY <1>1, <2>2, <2>3, <2>4 DEF PipeAgrees, Ended
  <2>5. CASE i = file /\ job.mode = "pp"
    <3>1. Xcc \notin writers'[i]
      BY <1>4, <2>2, <2>5
    <3>2. ~Ended(Cpp(i))' /\ state'[Cpp(i)] # "none"
      BY <2>2, <2>5 DEF Ended
    <3> QED BY <1>1, <2>2, <2>3, <2>5, <3>1, <3>2 DEF PipeAgrees, Ended
  <2>6. CASE i = file /\ job.mode # "pp"
    <3>1. /\ ~Ended(Cpp(i))' /\ state'[Cpp(i)] # "none" /\ state'[Cc1(i)] # "none"
          /\ Ended(Cc1(i))' <=> Ended(Cc1(i))
          /\ ~(Ended(Cc1(i)) /\ ~failed[Cc1(i)])
          /\ Xcc \in writers'[i] /\ writers'[i] = writers[i] \cup {Cpp(i)}
      BY <1>4, <2>2, <2>3, <2>6 DEF Ended, PipeAgrees, IsOver
    <3> QED BY <1>1, <2>2, <2>3, <2>6, <3>1 DEF PipeAgrees
  <2> QED BY <2>4, <2>5, <2>6
<1>13. SentAgrees'
  <2>1. Sent' = Sent /\ Written' = Written
    BY <1>1, <1>3 DEF Sent, Written, q
  <2> QED BY <1>1, <2>1 DEF IInv, SentAgrees
<1> QED
  BY <1>6, <1>7, <1>8, <1>9, <1>10, <1>11, <1>12, <1>13 DEF IInv

\* error("fork failed") in the middle of things.
LEMMA ExitAtOnceIInv ==
    ASSUME IInv, pc \in {"start", "files", "cat", "spawn"}, ~res, ExitAtOnce
    PROVE  IInv'
<1>1. /\ pc \in {"start", "files", "cat", "spawn"} /\ ~res /\ exit = -1
      /\ pc' = "exit" /\ exit' = 1
      /\ UNCHANGED <<job, file, running, cpp_pid, cc_pid, as_pid, res,
                     state, failed, doomed, wrote, took, buf, out, made>>
  BY DEF ExitAtOnce, IInv, FileAgrees
<1>2. exit' # -1 /\ exit' # 0 /\ pc' # "wait as" /\ pc' # "start"
  BY <1>1
<1>3. /\ readers' \in [Pipes -> SUBSET (Children \cup {Xcc})]
      /\ writers' \in [Pipes -> SUBSET (Children \cup {Xcc})]
      /\ \A p \in Pipes : writers'[p] = writers[p] \ {Xcc}
  BY ClosedEnds DEF ExitAtOnce, IInv, TypeOK
<1>4. TypeOK'
  BY <1>1, <1>3 DEF IInv, TypeOK, XccTypes, PidTypes, ChildTypes, DataTypes, EndTypes
<1>5. FileAgrees'
  BY <1>2, <1>1 DEF IInv, FileAgrees
<1>6. ChildrenAgree'
  BY <1>1, <1>3 DEF IInv, ChildrenAgree
<1>7. AsAgrees'
  BY <1>2, <1>1 DEF IInv, AsAgrees, Ended, AsDiesLate
<1>8. FilesAgree'
  BY <1>2, <1>1 DEF IInv, FilesAgree, IsOver, Reaped
<1>9. WaitAgrees'
  BY <1>2, <1>1 DEF IInv, WaitAgrees, Reaped
<1>10. ASSUME NEW i \in Files PROVE PipeAgrees(i)'
  <2>1. writers'[i] = writers[i] \ {Xcc} /\ Cpp(i) # Xcc
    BY <1>3, Names
  <2>2. Xcc \in writers[i] => pc = "spawn" /\ i = file
    BY <1>1, XccEnds
  <2>3. pc = "spawn" /\ i = file => state[Cpp(i)] = "none"
    BY DEF IInv, WaitAgrees
  <2>4. Xcc \in writers[i] => state[Cpp(i)] = "none"
    BY <2>2, <2>3
  <2>5. PipeAgrees(i)
    BY DEF IInv
  <2> QED BY <1>2, <1>1, <2>1, <2>4, <2>5 DEF PipeAgrees, Ended
<1>11. SentAgrees'
  BY <1>1 DEF SentAgrees
<1> QED
  BY <1>4, <1>5, <1>6, <1>7, <1>8, <1>9, <1>10, <1>11 DEF IInv

\* What all steps of the loop that waits have in common: a child that has
\* ended is waited for, others may be killed, and the pipe to the compiler
\* is closed after a preprocessor that succeeded.
WaitedFor(q) ==
    /\ pc = "wait" /\ Reap(q)
    /\ doomed \subseteq doomed'
    /\ \A x \in doomed' : x \in doomed \/ (x \in {Cpp(file), Cc1(file)} /\ Runs(x))
    /\ \A p \in Pipes : writers'[p] = writers[p]
                        \/ (p = file /\ writers'[p] = writers[p] \ {Xcc}
                            /\ Ended(Cpp(file)) /\ ~failed[Cpp(file)])
    /\ PidTypes' /\ running' \in Int /\ EndTypes'
    /\ UNCHANGED <<job, pc, file, as_pid, exit, failed, wrote, took, buf, out, made>>

LEMMA ReapEffect ==
    ASSUME TypeOK, NEW q \in Children, Reap(q)
    PROVE  /\ state[q] = "zombie" /\ state' \in [Children -> States]
           /\ \A x \in Children :
                /\ state'[x] = IF x = q THEN "reaped" ELSE state[x]
                /\ Ended(x)' <=> Ended(x)
                /\ IsOver(x) => IsOver(x)'
                /\ Reaped(x)' <=> (Reaped(x) \/ x = q)
                /\ state'[x] = "run" <=> state[x] = "run"
                /\ state'[x] = "none" <=> state[x] = "none"
           /\ res' = (res \/ failed[q]) /\ res' \in BOOLEAN
<1>1. /\ state[q] = "zombie" /\ state' = [state EXCEPT ![q] = "reaped"]
      /\ res' = (res \/ failed[q])
  BY DEF Reap, Status
<1>2. /\ state' \in [Children -> States]
      /\ \A x \in Children : state'[x] = IF x = q THEN "reaped" ELSE state[x]
  BY <1>1 DEF TypeOK, ChildTypes, States
<1>3. ASSUME NEW x \in Children
      PROVE  /\ Ended(x)' <=> Ended(x)
             /\ IsOver(x) => IsOver(x)'
             /\ Reaped(x)' <=> (Reaped(x) \/ x = q)
             /\ state'[x] = "run" <=> state[x] = "run"
             /\ state'[x] = "none" <=> state[x] = "none"
  BY <1>1, <1>2 DEF Ended, IsOver, Reaped
<1>4. res' \in BOOLEAN
  BY <1>1 DEF TypeOK, XccTypes, ChildTypes
<1> QED
  BY <1>1, <1>2, <1>3, <1>4

LEMMA WaitedForIInv ==
    ASSUME IInv, NEW q \in Children, q \in {As, Cpp(file), Cc1(file)}, WaitedFor(q)
    PROVE  /\ TypeOK' /\ FileAgrees' /\ ChildrenAgree' /\ AsAgrees' /\ FilesAgree'
           /\ (\A i \in Files : PipeAgrees(i)') /\ SentAgrees'
<1>1. /\ pc = "wait" /\ exit = -1 /\ file \in Files /\ file \in Pipes /\ file \in Nat
      /\ UNCHANGED <<job, pc, file, as_pid, exit, failed, wrote, took, buf, out, made>>
  BY CurrentFile DEF WaitedFor, IInv, FileAgrees
<1>2. /\ state[q] = "zombie" /\ state' \in [Children -> States]
      /\ \A x \in Children :
           /\ state'[x] = IF x = q THEN "reaped" ELSE state[x]
           /\ Ended(x)' <=> Ended(x)
           /\ IsOver(x) => IsOver(x)'
           /\ Reaped(x)' <=> (Reaped(x) \/ x = q)
           /\ state'[x] = "run" <=> state[x] = "run"
           /\ state'[x] = "none" <=> state[x] = "none"
      /\ res' = (res \/ failed[q]) /\ res' \in BOOLEAN
  BY ReapEffect DEF WaitedFor, IInv
<1>3. /\ doomed \subseteq doomed' /\ doomed' \subseteq Children
      /\ \A x \in doomed' : x \in doomed \/ (x \in {Cpp(file), Cc1(file)} /\ state[x] = "run")
      /\ As \in Children /\ As # Cpp(file) /\ As # Cc1(file)
  BY <1>1, Names DEF WaitedFor, Runs, IInv, TypeOK, ChildTypes
<1>4. \A p \in Pipes : /\ writers'[p] \subseteq writers[p]
                       /\ p # file => writers'[p] = writers[p]
  BY DEF WaitedFor
<1>5. TypeOK'
  BY <1>1, <1>2, <1>3 DEF WaitedFor, IInv, TypeOK, XccTypes, ChildTypes, DataTypes
<1>6. FileAgrees'
  BY <1>1 DEF IInv, FileAgrees
<1>7. ChildrenAgree'
  <2>1. ASSUME NEW x \in Children
        PROVE  /\ (state[x] = "none" => ~failed[x] /\ wrote[x] = 0 /\ took[x] = << >>)'
               /\ x \in doomed' => state'[x] = "run"
    BY <1>1, <1>2, <1>3, <2>1 DEF IInv, ChildrenAgree
  <2>2. ASSUME NEW p \in Pipes, NEW x \in writers'[p] PROVE x = Xcc \/ state'[x] = "run"
    <3>1. x \in writers[p] /\ x \in Children \cup {Xcc}
      BY <1>4, <2>2 DEF IInv, TypeOK, EndTypes
    <3>2. x = Xcc \/ state[x] = "run"
      BY <3>1 DEF IInv, ChildrenAgree
    <3> QED BY <1>2, <3>1, <3>2
  <2> QED BY <2>1, <2>2 DEF ChildrenAgree
<1>8. AsAgrees'
  <2>1. /\ (Ended(As)' <=> Ended(As)) /\ (state'[As] = "none" <=> state[As] = "none")
        /\ As \notin doomed'
        /\ Xcc \in writers'[0] <=> Xcc \in writers[0]
        /\ exit # 1 /\ exit # 0
    <3>1. 0 \in Pipes /\ 0 # file /\ As \notin doomed /\ exit # 1 /\ exit # 0
      BY <1>1, Names DEF IInv, AsAgrees
    <3> QED BY <1>2, <1>3, <1>4, <3>1
  <2> QED BY <1>1, <2>1 DEF IInv, AsAgrees, AsDiesLate
<1>9. FilesAgree'
  <2>1. ASSUME NEW i \in Files
        PROVE  /\ i > file => state'[Cpp(i)] = "none" /\ state'[Cc1(i)] = "none"
               /\ i < file => /\ IsOver(Cpp(i))' /\ IsOver(Cc1(i))'
                              /\ ~res => ~failed'[Cpp(i)] /\ ~failed'[Cc1(i)]
               /\ job.mode = "pp" => state'[Cc1(i)] = "none"
    <3>1. Cpp(i) \in Children /\ Cc1(i) \in Children
      BY Names
    <3>2. /\ i > file => state[Cpp(i)] = "none" /\ state[Cc1(i)] = "none"
          /\ i < file => /\ IsOver(Cpp(i)) /\ IsOver(Cc1(i))
                         /\ ~res => ~failed[Cpp(i)] /\ ~failed[Cc1(i)]
          /\ job.mode = "pp" => state[Cc1(i)] = "none"
      BY <1>1 DEF IInv, FilesAgree
    <3> QED BY <1>1, <1>2, <3>1, <3>2
  <2>2. exit' # 0
    BY <1>1
  <2> QED BY <1>1, <1>2, <2>1, <2>2 DEF FilesAgree
<1>10. ASSUME NEW i \in Files PROVE PipeAgrees(i)'
  <2>1. /\ Cpp(i) \in Children /\ Cc1(i) \in Children /\ i \in Pipes /\ Cpp(i) # Xcc
    BY Names
  <2>2. PipeAgrees(i)
    BY DEF IInv
  <2>3. \A x \in {Cpp(i), Cc1(i)} :
          /\ Ended(x)' <=> Ended(x)
          /\ state'[x] = "run" <=> state[x] = "run"
          /\ state'[x] = "none" <=> state[x] = "none"
          /\ x \in doomed => x \in doomed'
    BY <1>2, <1>3, <2>1
  <2>4. CASE writers'[i] = writers[i]
    BY <1>1, <2>2, <2>3, <2>4 DEF PipeAgrees
  <2>5. CASE writers'[i] = writers[i] \ {Xcc} /\ Ended(Cpp(i)) /\ ~failed[Cpp(i)]
    <3>1. state[Cpp(i)] # "run" /\ state[Cpp(i)] # "none"
      BY <2>5 DEF Ended
    <3> QED BY <1>1, <2>1, <2>2, <2>3, <2>5, <3>1 DEF PipeAgrees
  <2> QED BY <2>1, <2>4, <2>5 DEF WaitedFor
<1>11. SentAgrees'
  <2>1. Sent' = Sent /\ Written' = Written
    BY <1>1 DEF Sent, Written
  <2> QED BY <1>1, <1>2, <2>1 DEF IInv, SentAgrees
<1> QED
  BY <1>5, <1>6, <1>7, <1>8, <1>9, <1>10, <1>11

\* Which children xcc waits for, by their process ids.
LEMMA Phases ==
    ASSUME IInv, pc = "wait"
    PROVE  /\ file \in Files /\ file \in Pipes /\ exit = -1
           /\ Cpp(file) \in Children /\ Cc1(file) \in Children /\ As \in Children
           /\ Cpp(file) # NoOne /\ Cc1(file) # NoOne /\ Cpp(file) # Cc1(file)
           /\ As # Cpp(file) /\ As # Cc1(file) /\ Cpp(file) # Xcc
           /\ BothLeft \/ Cc1Left \/ Cc1Stopped \/ CppStopped \/ BothWaitedFor \/ CppOnly
           /\ cpp_pid # NoOne => cpp_pid = Cpp(file)
           /\ cc_pid # NoOne => cc_pid = Cc1(file)
           /\ (running > 0 => BothLeft \/ Cc1Left \/ (CppOnly /\ cpp_pid = Cpp(file)))
           /\ (Reaped(As) => res) /\ (BothLeft /\ res => Reaped(As))
           /\ AsCounted = (IF Reaped(As) THEN 1 ELSE 0) /\ AsCounted \in {0, 1}
<1>1. /\ file \in Files /\ file \in Pipes /\ exit = -1
  BY CurrentFile DEF IInv, FileAgrees
<1>2. /\ BothLeft \/ Cc1Left \/ Cc1Stopped \/ CppStopped \/ BothWaitedFor \/ CppOnly
      /\ (Reaped(As) => res) /\ (BothLeft /\ res => Reaped(As))
  BY <1>1 DEF IInv, WaitAgrees
<1>3. /\ cpp_pid # NoOne => cpp_pid = Cpp(file)
      /\ cc_pid # NoOne => cc_pid = Cc1(file)
      /\ (running > 0 => BothLeft \/ Cc1Left \/ (CppOnly /\ cpp_pid = Cpp(file)))
  BY <1>2 DEF BothLeft, Cc1Left, Cc1Stopped, CppStopped, BothWaitedFor, CppOnly
<1> QED
  BY <1>1, <1>2, <1>3, Names DEF AsCounted

LEMMA WaitedForCppIInv == ASSUME IInv, WaitedForCpp PROVE IInv'
<1> DEFINE q == Cpp(file)
           r == Cc1(file)
<1>1. /\ pc = "wait" /\ running > 0 /\ cpp_pid = q /\ q # NoOne /\ Reap(q) /\ cpp_pid' = NoOne
      /\ UNCHANGED <<job, pc, file, cc_pid, as_pid, exit, failed, wrote, took, buf, out, made>>
      /\ file \in Files /\ file \in Pipes /\ exit = -1
      /\ q \in Children /\ r \in Children /\ As \in Children /\ q # r /\ q # As
      /\ cc_pid # NoOne => cc_pid = r
      /\ BothLeft \/ (CppOnly /\ cpp_pid = q)
      /\ (Reaped(As) => res) /\ (BothLeft /\ res => Reaped(As))
  <2>1. pc = "wait" /\ running > 0 /\ cpp_pid # NoOne
    BY DEF WaitedForCpp, Waiting
  <2>2. ~Cc1Left
    BY <2>1 DEF Cc1Left
  <2> QED BY <2>1, <2>2, Phases DEF WaitedForCpp, Forgotten
<1>2. /\ state[q] = "zombie" /\ state' \in [Children -> States]
      /\ \A x \in Children :
           /\ state'[x] = IF x = q THEN "reaped" ELSE state[x]
           /\ Reaped(x)' <=> (Reaped(x) \/ x = q)
      /\ res' = (res \/ failed[q]) /\ res' \in BOOLEAN
  BY <1>1, ReapEffect DEF IInv
<1>3. BothLeft => cc_pid = r /\ r # NoOne /\ cc_pid # NoOne
  BY <1>1, Names DEF BothLeft
<1>4. CppOnly => cc_pid = NoOne
  BY DEF CppOnly
<1>5. AsCounted' = AsCounted /\ AsCounted \in {0, 1} /\ (AsCounted = 1 <=> Reaped(As))
  BY <1>1, <1>2 DEF AsCounted
<1>6. EndTypes /\ PidTypes /\ running \in Int
  BY DEF IInv, TypeOK, XccTypes
<1>7. (Reaped(As) /\ exit = -1 => res)'
  BY <1>1, <1>2
<1>8. CASE cc_pid # NoOne /\ Stops
  <2>1. /\ BothLeft /\ failed[q] /\ doomed' = doomed \cup (IF Runs(r) THEN {r} ELSE {})
        /\ running' = 0 /\ UNCHANGED <<readers, writers>> /\ res'
    BY <1>1, <1>2, <1>4, <1>8 DEF WaitedForCpp, Stops, Kill
  <2>2. WaitedFor(q)
    <3>1. PidTypes' /\ running' \in Int /\ EndTypes'
      BY <1>1, <1>6, <2>1 DEF PidTypes, EndTypes
    <3> QED BY <1>1, <2>1, <3>1 DEF WaitedFor
  <2>3. Cc1Stopped'
    <3>1. /\ job.mode # "pp" /\ state'[q] = "reaped" /\ state'[r] = state[r] /\ ~IsOver(r)
          /\ state[r] = "run" => r \in doomed'
      BY <1>1, <1>2, <2>1 DEF BothLeft, Runs
    <3> QED BY <1>1, <1>3, <2>1, <3>1 DEF Cc1Stopped, Reaped, IsOver
  <2>4. ~BothLeft'
    BY <1>1 DEF BothLeft
  <2>5. WaitAgrees'
    BY <1>1, <1>7, <2>3, <2>4 DEF WaitAgrees
  <2> QED BY <1>1, <2>2, <2>5, WaitedForIInv DEF IInv
<1>9. CASE cc_pid # NoOne /\ ~Stops
  <2>1. /\ BothLeft /\ ~failed[q] /\ doomed' = doomed
        /\ running' = running - 1 /\ Close({file}) /\ res' = res
    <3>1. /\ BothLeft /\ ~failed[q] /\ doomed' = doomed
          /\ running' = running - 1 /\ Close({file})
      BY <1>1, <1>4, <1>9 DEF WaitedForCpp, Stops, ClosedAfterCpp, OneLess
    <3>2. res \in BOOLEAN
      BY DEF IInv, TypeOK, XccTypes
    <3> QED BY <1>2, <3>1, <3>2
  <2>2. /\ EndTypes'
        /\ \A p \in Pipes : writers'[p] = IF p = file THEN writers[p] \ {Xcc} ELSE writers[p]
    <3>1. /\ readers' \in [Pipes -> SUBSET (Children \cup {Xcc})]
          /\ writers' \in [Pipes -> SUBSET (Children \cup {Xcc})]
          /\ \A p \in Pipes : writers'[p]
               = IF p \in {file} THEN writers[p] \ {Xcc} ELSE writers[p]
      BY <1>6, <2>1, ClosedEnds
    <3> QED BY <3>1 DEF EndTypes
  <2>3. WaitedFor(q)
    <3>1. PidTypes' /\ running' \in Int
      BY <1>1, <1>6, <2>1 DEF PidTypes
    <3>2. Ended(q) /\ ~failed[q]
      BY <1>2, <2>1 DEF Ended
    <3> QED BY <1>1, <2>1, <2>2, <3>1, <3>2 DEF WaitedFor
  <2>4. Cc1Left'
    <3>1. /\ job.mode # "pp" /\ state'[q] = "reaped" /\ state'[r] = state[r] /\ ~IsOver(r)
          /\ Xcc \notin writers'[file] /\ running = 2 - AsCounted
      BY <1>1, <1>2, <2>1, <2>2 DEF BothLeft
    <3>2. running' = 1 - AsCounted
      BY <1>5, <2>1, <3>1
    <3> QED BY <1>1, <1>3, <1>5, <2>1, <3>1, <3>2 DEF Cc1Left, Reaped, IsOver
  <2>5. ~BothLeft'
    BY <1>1 DEF BothLeft
  <2>6. WaitAgrees'
    BY <1>1, <1>7, <2>4, <2>5 DEF WaitAgrees
  <2> QED BY <1>1, <2>3, <2>6, WaitedForIInv DEF IInv
<1>10. CASE cc_pid = NoOne
  <2>1. /\ CppOnly /\ doomed' = doomed /\ running' = running - 1
        /\ UNCHANGED <<readers, writers>>
    BY <1>1, <1>3, <1>10 DEF WaitedForCpp, OneLess
  <2>2. WaitedFor(q)
    <3>1. PidTypes' /\ running' \in Int /\ EndTypes'
      BY <1>1, <1>6, <2>1 DEF PidTypes, EndTypes
    <3> QED BY <1>1, <2>1, <3>1 DEF WaitedFor
  <2>3. CppOnly'
    <3>1. running = 1 /\ job.mode = "pp" /\ Xcc \notin writers[file]
      BY <1>1, <2>1 DEF CppOnly
    <3>2. running' = 0
      BY <2>1, <3>1
    <3>3. state'[q] = "reaped" /\ (~res' => ~failed[q])
      BY <1>1, <1>2
    <3> QED BY <1>1, <1>10, <2>1, <3>1, <3>2, <3>3 DEF CppOnly, Reaped
  <2>4. ~BothLeft'
    BY <1>1 DEF BothLeft
  <2>5. WaitAgrees'
    BY <1>1, <1>7, <2>3, <2>4 DEF WaitAgrees
  <2> QED BY <1>1, <2>2, <2>5, WaitedForIInv DEF IInv
<1> QED
  BY <1>8, <1>9, <1>10

LEMMA WaitedForCc1IInv == ASSUME IInv, WaitedForCc1 PROVE IInv'
<1> DEFINE q == Cc1(file)
           r == Cpp(file)
<1>1. /\ pc = "wait" /\ running > 0 /\ cc_pid = q /\ q # NoOne /\ Reap(q) /\ cc_pid' = NoOne
      /\ UNCHANGED <<job, pc, file, cpp_pid, as_pid, exit,
                     failed, wrote, took, buf, readers, writers, out, made>>
      /\ file \in Files /\ file \in Pipes /\ exit = -1
      /\ q \in Children /\ r \in Children /\ As \in Children /\ q # r /\ q # As
      /\ BothLeft \/ Cc1Left
      /\ (Reaped(As) => res) /\ (BothLeft /\ res => Reaped(As))
  <2>1. pc = "wait" /\ running > 0 /\ cc_pid # NoOne
    BY DEF WaitedForCc1, Waiting
  <2>2. ~CppOnly
    BY <2>1 DEF CppOnly
  <2> QED BY <2>1, <2>2, Phases DEF WaitedForCc1, Forgotten
<1>2. /\ state[q] = "zombie" /\ state' \in [Children -> States]
      /\ \A x \in Children :
           /\ state'[x] = IF x = q THEN "reaped" ELSE state[x]
           /\ Reaped(x)' <=> (Reaped(x) \/ x = q)
      /\ res' = (res \/ failed[q]) /\ res' \in BOOLEAN
  BY <1>1, ReapEffect DEF IInv
<1>3. EndTypes /\ PidTypes /\ running \in Int /\ EndTypes'
  BY <1>1 DEF IInv, TypeOK, XccTypes, EndTypes
<1>4. (Reaped(As) /\ exit = -1 => res)'
  BY <1>1, <1>2
<1>5. ~BothLeft'
  BY <1>1 DEF BothLeft
<1>6. CASE BothLeft
  <2>1. /\ cpp_pid = r /\ r # NoOne /\ job.mode # "pp" /\ ~IsOver(r) /\ Xcc \in writers[file]
    BY <1>1, <1>6, Names DEF BothLeft
  <2>2. /\ doomed' = doomed \cup (IF Runs(r) THEN {r} ELSE {}) /\ running' = 0
    BY <2>1 DEF WaitedForCc1, Kill
  <2>3. failed[q]
    <3>1. PipeAgrees(file) /\ Ended(q)
      BY <1>1, <1>2 DEF IInv, Ended
    <3> QED BY <2>1, <3>1 DEF PipeAgrees
  <2>4. WaitedFor(q)
    <3>1. PidTypes' /\ running' \in Int
      BY <1>1, <1>3, <2>2 DEF PidTypes
    <3> QED BY <1>1, <1>3, <2>2, <3>1 DEF WaitedFor
  <2>5. CppStopped'
    <3>1. state'[q] = "reaped" /\ state'[r] = state[r] /\ res'
      BY <1>1, <1>2, <2>3
    <3> QED BY <1>1, <2>1, <2>2, <2>3, <3>1 DEF CppStopped, Reaped, IsOver
  <2>6. WaitAgrees'
    BY <1>1, <1>4, <1>5, <2>5 DEF WaitAgrees
  <2> QED BY <1>1, <2>4, <2>6, WaitedForIInv DEF IInv
<1>7. CASE Cc1Left
  <2>1. /\ cpp_pid = NoOne /\ job.mode # "pp" /\ Xcc \notin writers[file]
        /\ state[r] = "reaped" /\ ~failed[r] /\ running = 1 - AsCounted
    BY <1>7 DEF Cc1Left, Reaped
  <2>2. doomed' = doomed /\ running' = running - 1
    BY <2>1 DEF WaitedForCc1, OneLess
  <2>3. running' = 0
    <3>1. AsCounted \in {0, 1}
      BY DEF AsCounted
    <3> QED BY <1>1, <2>1, <2>2, <3>1
  <2>4. WaitedFor(q)
    <3>1. PidTypes' /\ running' \in Int
      BY <1>1, <1>3, <2>3 DEF PidTypes
    <3> QED BY <1>1, <1>3, <2>2, <3>1 DEF WaitedFor
  <2>5. BothWaitedFor'
    <3>1. state'[q] = "reaped" /\ state'[r] = state[r] /\ (~res' => ~failed[q])
      BY <1>1, <1>2
    <3> QED BY <1>1, <2>1, <2>3, <3>1 DEF BothWaitedFor, Reaped
  <2>6. WaitAgrees'
    BY <1>1, <1>4, <1>5, <2>5 DEF WaitAgrees
  <2> QED BY <1>1, <2>4, <2>6, WaitedForIInv DEF IInv
<1> QED
  BY <1>1, <1>6, <1>7

\* The only other child to wait for is an assembler that has died.
LEMMA WaitedForOtherIInv == ASSUME IInv, WaitedForOther PROVE IInv'
<1>1. /\ pc = "wait" /\ running > 0 /\ exit = -1 /\ file \in Files
      /\ UNCHANGED <<job, pc, file, cpp_pid, cc_pid, as_pid, exit,
                     failed, doomed, wrote, took, buf, readers, writers, out, made>>
      /\ running' = running - 1
      /\ BothLeft \/ Cc1Left \/ (CppOnly /\ cpp_pid = Cpp(file))
      /\ Cpp(file) \in Children /\ Cc1(file) \in Children /\ As \in Children
      /\ As # Cpp(file) /\ As # Cc1(file)
      /\ (Reaped(As) => res) /\ (BothLeft /\ res => Reaped(As))
  BY Phases DEF WaitedForOther, Waiting, OneLess
<1>2. PICK q \in Children \ {cpp_pid, cc_pid} : Reap(q)
  BY DEF WaitedForOther
<1>3. /\ state[q] = "zombie" /\ state' \in [Children -> States]
      /\ \A x \in Children :
           /\ state'[x] = IF x = q THEN "reaped" ELSE state[x]
           /\ Reaped(x)' <=> (Reaped(x) \/ x = q)
      /\ res' = (res \/ failed[q]) /\ res' \in BOOLEAN
  BY <1>2, ReapEffect DEF IInv
<1>4. q = As
  <2>1. ASSUME NEW i \in Files, q = Cpp(i) \/ q = Cc1(i) PROVE FALSE
    <3>1. i \in Nat /\ file \in Nat /\ (i < file \/ i = file \/ i > file)
      <4>1. i \in Nat /\ file \in Nat
        BY <1>1, Names
      <4> QED BY <4>1
    <3>2. i < file => FALSE
      BY <1>1, <1>3, <2>1 DEF IInv, FilesAgree, IsOver
    <3>3. i > file => FALSE
      BY <1>3, <2>1 DEF IInv, FilesAgree
    <3>4. i = file => FALSE
      <4>1. job.mode = "pp" => state[Cc1(file)] = "none"
        BY <1>1 DEF IInv, FilesAgree
      <4> QED BY <1>1, <1>2, <1>3, <2>1, <4>1 DEF BothLeft, Cc1Left, CppOnly, Reaped
    <3> QED BY <3>1, <3>2, <3>3, <3>4
  <2> QED BY <2>1, Names
<1>5. failed[As] /\ job.mode = "exe" /\ ~Reaped(As)
  <2>1. Ended(As) /\ state[As] # "none" /\ exit # 0 /\ exit # 1
    BY <1>1, <1>3, <1>4 DEF Ended
  <2> QED BY <1>1, <1>3, <1>4, <2>1 DEF IInv, AsAgrees, Reaped
<1>6. res' /\ Reaped(As)' /\ AsCounted = 0 /\ AsCounted' = 1
  BY <1>1, <1>3, <1>4, <1>5 DEF AsCounted
<1>7. WaitedFor(As)
  <2>1. PidTypes /\ running \in Int /\ EndTypes
    BY DEF IInv, TypeOK, XccTypes
  <2>2. PidTypes' /\ running' \in Int /\ EndTypes'
    BY <1>1, <2>1 DEF PidTypes, EndTypes
  <2> QED BY <1>1, <1>2, <1>4, <2>2 DEF WaitedFor
<1>8. WaitAgrees'
  <2>1. /\ state'[Cpp(file)] = state[Cpp(file)] /\ state'[Cc1(file)] = state[Cc1(file)]
    BY <1>1, <1>3, <1>4
  <2>2. BothLeft => BothLeft'
    <3>1. BothLeft => running' = 2 - AsCounted'
      BY <1>1, <1>6 DEF BothLeft
    <3> QED BY <1>1, <2>1, <3>1 DEF BothLeft, IsOver
  <2>3. Cc1Left => Cc1Left'
    <3>1. Cc1Left => running' = 1 - AsCounted'
      BY <1>1, <1>6 DEF Cc1Left
    <3> QED BY <1>1, <2>1, <3>1 DEF Cc1Left, IsOver, Reaped
  <2>4. ~CppOnly
    BY <1>5 DEF CppOnly
  <2> QED BY <1>1, <1>6, <2>2, <2>3, <2>4 DEF WaitAgrees
<1> QED
  BY <1>1, <1>7, <1>8, WaitedForIInv DEF IInv

LEMMA WaitEndsIInv == ASSUME IInv, WaitEnds PROVE IInv'
<1>1. /\ pc = "wait" /\ running = 0 /\ pc' = "files" /\ file' = file + 1
      /\ exit = -1 /\ exit # 0 /\ exit # 1
      /\ file \in Files /\ file \in Nat \ {0} /\ file <= Len(job.files) /\ Len(job.files) \in Nat
      /\ UNCHANGED <<job, running, cpp_pid, cc_pid, as_pid, res, exit,
                     state, failed, doomed, wrote, took, buf, readers, writers, out, made>>
  BY CurrentFile DEF WaitEnds, childVars, IInv, FileAgrees
<1>2. /\ Cpp(file) \in Children /\ Cc1(file) \in Children /\ file \in Pipes
      /\ (Reaped(As) => res) /\ AsCounted \in {0, 1} /\ (AsCounted = 1 <=> Reaped(As))
      /\ Cc1Left \/ Cc1Stopped \/ CppStopped \/ BothWaitedFor \/ (CppOnly /\ cpp_pid = NoOne)
  <2>1. /\ Cpp(file) \in Children /\ Cc1(file) \in Children /\ file \in Pipes
        /\ (Reaped(As) => res) /\ AsCounted \in {0, 1} /\ AsCounted = (IF Reaped(As) THEN 1 ELSE 0)
        /\ BothLeft \/ Cc1Left \/ Cc1Stopped \/ CppStopped \/ BothWaitedFor \/ CppOnly
    BY <1>1, Phases
  <2>2. ~BothLeft
    BY <1>1, <2>1 DEF BothLeft
  <2>3. CppOnly => cpp_pid = NoOne
    BY <1>1 DEF CppOnly
  <2> QED BY <2>1, <2>2, <2>3
<1>3. Cc1Left => res
  BY <1>1, <1>2 DEF Cc1Left
<1>4. ASSUME ~res
      PROVE  /\ state[Cpp(file)] = "reaped" /\ ~failed[Cpp(file)] /\ Xcc \notin writers[file]
             /\ job.mode # "pp" => state[Cc1(file)] = "reaped" /\ ~failed[Cc1(file)]
  <2>1. BothWaitedFor \/ (CppOnly /\ cpp_pid = NoOne)
    BY <1>2, <1>3, <1>4 DEF Cc1Stopped, CppStopped
  <2>2. CASE BothWaitedFor
    BY <1>4, <2>2 DEF BothWaitedFor, Reaped
  <2>3. CASE CppOnly /\ cpp_pid = NoOne
    <3>1. Cpp(file) # NoOne
      BY <1>1, Names
    <3> QED BY <1>4, <2>3, <3>1 DEF CppOnly, Reaped
  <2> QED BY <2>1, <2>2, <2>3
<1>5. state[Cc1(file)] = "run" /\ Cc1(file) \notin doomed => Xcc \notin writers[file]
  BY <1>2 DEF Cc1Left, Cc1Stopped, CppStopped, BothWaitedFor, CppOnly, Reaped
<1>6. TypeOK'
  BY <1>1 DEF IInv, TypeOK, XccTypes, PidTypes, ChildTypes, DataTypes, EndTypes
<1>7. FileAgrees'
  BY <1>1 DEF IInv, FileAgrees
<1>8. ChildrenAgree'
  BY <1>1 DEF IInv, ChildrenAgree
<1>9. AsAgrees'
  BY <1>1 DEF IInv, AsAgrees, Ended, AsDiesLate
<1>10. FilesAgree'
  <2>1. ASSUME NEW i \in Files
        PROVE  /\ i > file' \/ i = file' => state[Cpp(i)] = "none" /\ state[Cc1(i)] = "none"
               /\ i < file' /\ ~res => /\ IsOver(Cpp(i)) /\ IsOver(Cc1(i))
                                       /\ ~failed[Cpp(i)] /\ ~failed[Cc1(i)]
    <3>1. i \in Nat /\ Cpp(i) \in Children /\ Cc1(i) \in Children
      BY Names
    <3>2. /\ i > file => state[Cpp(i)] = "none" /\ state[Cc1(i)] = "none"
          /\ i < file /\ ~res => /\ IsOver(Cpp(i)) /\ IsOver(Cc1(i))
                                 /\ ~failed[Cpp(i)] /\ ~failed[Cc1(i)]
          /\ job.mode = "pp" => state[Cc1(i)] = "none"
      BY <1>1 DEF IInv, FilesAgree
    <3>3. \A x \in {Cpp(i), Cc1(i)} : state[x] = "none" => ~failed[x]
      BY <3>1 DEF IInv, ChildrenAgree
    <3>4. i = file /\ ~res => /\ IsOver(Cpp(i)) /\ IsOver(Cc1(i))
                              /\ ~failed[Cpp(i)] /\ ~failed[Cc1(i)]
      BY <1>4, <3>2, <3>3 DEF IsOver
    <3>5. /\ i > file' \/ i = file' => i > file
          /\ i < file' => i < file \/ i = file
      BY <1>1, <3>1
    <3> QED BY <3>2, <3>4, <3>5
  <2> QED BY <1>1, <2>1 DEF IInv, FilesAgree, IsOver
<1>11. WaitAgrees'
  BY <1>1, <1>2 DEF WaitAgrees, Reaped
<1>12. ASSUME NEW i \in Files PROVE PipeAgrees(i)'
  <2>1. PipeAgrees(i) /\ (Xcc \in writers[i] => i = file)
    BY <1>1, XccEnds DEF IInv
  <2>2. Xcc \in writers[i] => res
    BY <1>4, <2>1
  <2>3. state[Cc1(i)] = "run" /\ Cc1(i) \notin doomed => Xcc \notin writers[i]
    BY <1>5, <2>1
  <2> QED BY <1>1, <2>1, <2>2, <2>3 DEF PipeAgrees, Ended
<1>13. SentAgrees'
  <2>1. ASSUME ~res PROVE Written = Chunks
    <3>1. PipeAgrees(file)
      BY <1>1 DEF IInv
    <3> QED BY <1>1, <1>4, <2>1, <3>1 DEF Written, PipeAgrees, Ended
  <2>2. Sent' = Sent /\ Written' = 0
    BY <1>1 DEF Sent, Written
  <2> QED BY <1>1, <2>1, <2>2, FileDone DEF IInv, SentAgrees
<1> QED
  BY <1>6, <1>7, <1>8, <1>9, <1>10, <1>11, <1>12, <1>13 DEF IInv

\* At the end of the list of files.
LEMMA OverFacts ==
    ASSUME IInv, Over
    PROVE  /\ pc = "files" /\ exit = -1 /\ As \in Children
           /\ as_pid = NoOne \/ as_pid = As
           /\ as_pid = As <=> job.mode = "exe"
           /\ job.mode # "exe" => state[As] = "none" /\ ~made
           /\ ~res => file = Len(job.files) + 1 /\ ~Reaped(As)
           /\ ~res => \A i \in Files : Xcc \notin writers[i]
<1>1. pc = "files" /\ exit = -1 /\ As \in Children /\ As # NoOne /\ exit # 0 /\ exit # 1
  BY Names DEF Over, IInv, FileAgrees
<1>2. as_pid = NoOne \/ as_pid = As
  BY DEF IInv, TypeOK, PidTypes
<1>3. /\ job.mode = "exe" => as_pid = As
      /\ job.mode # "exe" => as_pid = NoOne /\ state[As] = "none" /\ ~made
  BY <1>1 DEF IInv, AsAgrees
<1>4. ASSUME ~res PROVE file = Len(job.files) + 1
  <2>1. file \in Nat /\ Len(job.files) \in Nat
    BY CurrentFile
  <2>2. file > Len(job.files) /\ file <= Len(job.files) + 1
    BY <1>1, <1>4 DEF Over, IInv, FileAgrees
  <2> QED BY <2>1, <2>2
<1>5. ~res => ~Reaped(As)
  BY <1>1 DEF IInv, WaitAgrees
<1>6. ~res => \A i \in Files : Xcc \notin writers[i]
  BY <1>1, XccEnds
<1> QED
  BY <1>1, <1>2, <1>3, <1>4, <1>5, <1>6

LEMMA AbandonIInv == ASSUME IInv, Abandon PROVE IInv'
<1>1. /\ pc = "files" /\ exit = -1 /\ As \in Children /\ res
      /\ as_pid = NoOne \/ as_pid = As
      /\ as_pid = As <=> job.mode = "exe"
      /\ job.mode # "exe" => state[As] = "none" /\ ~made
      /\ as_pid' = NoOne /\ pc' = "exit" /\ exit' = 1
      /\ UNCHANGED <<job, file, running, cpp_pid, cc_pid, res,
                     state, failed, wrote, took, buf, out>>
  BY OverFacts DEF Abandon
<1>2. exit' # -1 /\ exit' # 0 /\ pc' # "files" /\ pc' # "start" /\ pc' # "wait as"
  BY <1>1
<1>3. /\ job.mode = "exe" => doomed' = doomed \cup (IF Runs(As) THEN {As} ELSE {}) /\ made' = FALSE
      /\ job.mode # "exe" => doomed' = doomed /\ made' = made
  BY <1>1, Names DEF Abandon, Kill
<1>4. /\ \A x \in Children : x # As => (x \in doomed' <=> x \in doomed)
      /\ doomed' \subseteq Children /\ made' = FALSE
      /\ \A x \in doomed' : state[x] = "run"
      /\ state[As] = "run" => As \in doomed'
  <2>1. /\ made \in BOOLEAN /\ doomed \subseteq Children
        /\ \A x \in doomed : state[x] = "run"
    BY DEF IInv, TypeOK, XccTypes, ChildTypes, ChildrenAgree
  <2>2. CASE job.mode = "exe"
    BY <1>1, <1>3, <2>1, <2>2 DEF Runs
  <2>3. CASE job.mode # "exe"
    BY <1>1, <1>3, <2>1, <2>3
  <2> QED BY <2>2, <2>3
<1>5. /\ readers' \in [Pipes -> SUBSET (Children \cup {Xcc})]
      /\ writers' \in [Pipes -> SUBSET (Children \cup {Xcc})]
      /\ \A p \in Pipes : writers'[p] = writers[p] \ {Xcc}
  BY ClosedEnds DEF Abandon, IInv, TypeOK
<1>6. TypeOK'
  BY <1>1, <1>4, <1>5 DEF IInv, TypeOK, XccTypes, PidTypes, ChildTypes, DataTypes, EndTypes
<1>7. FileAgrees'
  BY <1>1, <1>2 DEF IInv, FileAgrees
<1>8. ChildrenAgree'
  BY <1>1, <1>4, <1>5 DEF IInv, ChildrenAgree
<1>9. AsAgrees'
  BY <1>1, <1>2, <1>4 DEF IInv, AsAgrees, Ended
<1>10. FilesAgree'
  BY <1>1, <1>2 DEF IInv, FilesAgree
<1>11. WaitAgrees'
  BY <1>1, <1>2 DEF WaitAgrees
<1>12. ASSUME NEW i \in Files PROVE PipeAgrees(i)'
  <2>1. /\ writers'[i] = writers[i] \ {Xcc} /\ Cpp(i) # Xcc
        /\ Cc1(i) \in doomed' <=> Cc1(i) \in doomed
    BY <1>4, <1>5, Names
  <2>2. PipeAgrees(i)
    BY DEF IInv
  <2> QED BY <1>1, <1>2, <2>1, <2>2 DEF PipeAgrees, Ended
<1>13. SentAgrees'
  BY <1>1 DEF SentAgrees
<1> QED
  BY <1>6, <1>7, <1>8, <1>9, <1>10, <1>11, <1>12, <1>13 DEF IInv

LEMMA ConcludeIInv == ASSUME IInv, Conclude PROVE IInv'
<1>1. /\ pc = "files" /\ exit = -1 /\ As \in Children /\ ~res
      /\ as_pid = NoOne \/ as_pid = As
      /\ as_pid = As <=> job.mode = "exe"
      /\ job.mode # "exe" => state[As] = "none" /\ ~made
      /\ file = Len(job.files) + 1 /\ state[As] # "reaped"
      /\ \A i \in Files : Xcc \notin writers[i]
      /\ exit # 0 /\ exit # 1
      /\ UNCHANGED <<job, file, running, cpp_pid, cc_pid, as_pid, res,
                     state, failed, doomed, wrote, took, buf, out, made>>
  <2>1. Over /\ ~res
    BY DEF Conclude
  <2>2. exit = -1 => exit # 0 /\ exit # 1
    OBVIOUS
  <2> QED BY <2>1, <2>2, OverFacts DEF Conclude, Reaped
<1>2. \/ job.mode = "exe" /\ pc' = "wait as" /\ exit' = exit
      \/ job.mode # "exe" /\ pc' = "exit" /\ exit' = 0
  BY <1>1, Names DEF Conclude
<1>3. /\ readers' \in [Pipes -> SUBSET (Children \cup {Xcc})]
      /\ writers' \in [Pipes -> SUBSET (Children \cup {Xcc})]
      /\ \A p \in Pipes : writers'[p] = writers[p] \ {Xcc} \/ writers'[p] = writers[p]
      /\ \A i \in Files : writers'[i] = writers[i]
  <2>1. PICK ps \in {{0}, Pipes} : Close(ps)
    BY DEF Conclude
  <2>2. /\ readers' \in [Pipes -> SUBSET (Children \cup {Xcc})]
        /\ writers' \in [Pipes -> SUBSET (Children \cup {Xcc})]
        /\ \A p \in Pipes : writers'[p] = IF p \in ps THEN writers[p] \ {Xcc} ELSE writers[p]
    BY <2>1, ClosedEnds DEF IInv, TypeOK
  <2>3. \A i \in Files : i \in Pipes /\ writers[i] \ {Xcc} = writers[i]
    BY <1>1, Names
  <2> QED BY <2>2, <2>3
<1>4. /\ exit' # 1 /\ (exit' = -1 <=> pc' = "wait as") /\ exit' \in {-1, 0, 1}
      /\ pc' = "wait as" \/ (pc' = "exit" /\ exit' = 0 /\ exit' # -1)
      /\ pc' = "wait as" => exit' # 0
  <2>1. CASE job.mode = "exe"
    <3>1. pc' = "wait as" /\ exit' = -1
      BY <1>1, <1>2, <2>1
    <3> QED BY <3>1, ExitValues, Zenon
  <2>2. CASE job.mode # "exe"
    <3>1. pc' = "exit" /\ exit' = 0
      BY <1>1, <1>2, <2>2
    <3> QED BY <3>1, ExitValues
  <2> QED BY <2>1, <2>2
<1>5. TypeOK'
  BY <1>1, <1>3, <1>4 DEF IInv, TypeOK, XccTypes, PidTypes, ChildTypes, DataTypes, EndTypes
<1>6. FileAgrees'
  BY <1>1, <1>4 DEF IInv, FileAgrees
<1>7. ChildrenAgree'
  BY <1>1, <1>3 DEF IInv, ChildrenAgree
<1>8. AsAgrees'
  <2>1. CASE job.mode = "exe"
    BY <1>1, <1>2, <1>4, <2>1 DEF IInv, AsAgrees, Ended
  <2>2. CASE job.mode # "exe"
    BY <1>1, <1>2, <1>4, <2>2 DEF IInv, AsAgrees, Ended
  <2> QED BY <2>1, <2>2
<1>9. FilesAgree'
  <2>1. ASSUME NEW i \in Files
        PROVE  /\ i >= file => state[Cpp(i)] = "none" /\ state[Cc1(i)] = "none"
               /\ i < file => /\ IsOver(Cpp(i)) /\ IsOver(Cc1(i))
                              /\ ~failed[Cpp(i)] /\ ~failed[Cc1(i)]
    <3>1. i >= file => (i > file \/ i = file)
      <4>1. i \in Nat /\ file \in Nat
        BY CurrentFile, Names
      <4> QED BY <4>1
    <3> QED BY <1>1, <3>1 DEF IInv, FilesAgree
  <2>2. \A i \in Files : i = file \/ i > file => i >= file
    <3>1. file \in Nat /\ \A i \in Files : i \in Nat
      BY CurrentFile, Names
    <3> QED BY <3>1
  <2>3. job.mode = "pp" => \A i \in Files : state[Cc1(i)] = "none"
    BY DEF IInv, FilesAgree
  <2> QED BY <1>1, <1>2, <1>4, <2>1, <2>2, <2>3 DEF FilesAgree, IsOver
<1>10. WaitAgrees'
  BY <1>1, <1>4 DEF WaitAgrees, Reaped
<1>11. ASSUME NEW i \in Files PROVE PipeAgrees(i)'
  BY <1>1, <1>3, <1>4 DEF IInv, PipeAgrees, Ended
<1>12. SentAgrees'
  <2>1. Sent' = Sent /\ Written' = 0 /\ Written = 0
    BY <1>1, <1>4 DEF Sent, Written
  <2> QED BY <1>1, <1>4, <2>1 DEF IInv, SentAgrees
<1> QED
  BY <1>5, <1>6, <1>7, <1>8, <1>9, <1>10, <1>11, <1>12 DEF IInv

LEMMA WaitedForAsIInv == ASSUME IInv, WaitedForAs PROVE IInv'
<1>1. /\ pc = "wait as" /\ exit = -1 /\ as_pid = As /\ As \in Children /\ Reap(As) /\ ~res
      /\ job.mode = "exe" /\ file = Len(job.files) + 1
      /\ pc' = "exit" /\ exit' = IF failed[As] THEN 1 ELSE 0
      /\ UNCHANGED <<job, file, running, cpp_pid, cc_pid, as_pid,
                     failed, doomed, wrote, took, buf, out, made>>
      /\ \A i \in Files : Xcc \notin writers[i]
  <2>1. pc = "wait as" /\ exit = -1 /\ as_pid = As /\ As \in Children /\ As # NoOne
    BY Names DEF WaitedForAs, IInv, AsAgrees, FileAgrees
  <2>2. ~res /\ job.mode = "exe" /\ file = Len(job.files) + 1
    BY <2>1 DEF IInv, FilesAgree, AsAgrees, FileAgrees
  <2>3. \A i \in Files : Xcc \notin writers[i]
    BY <2>1, XccEnds
  <2> QED BY <2>1, <2>2, <2>3 DEF WaitedForAs, Status
<1>2. /\ state[As] = "zombie" /\ state' \in [Children -> States]
      /\ \A x \in Children : state'[x] = IF x = As THEN "reaped" ELSE state[x]
      /\ res' = (res \/ failed[As]) /\ res' \in BOOLEAN
  BY <1>1, ReapEffect DEF IInv
<1>3. /\ readers' \in [Pipes -> SUBSET (Children \cup {Xcc})]
      /\ writers' \in [Pipes -> SUBSET (Children \cup {Xcc})]
      /\ \A p \in Pipes : writers'[p] = writers[p] \ {Xcc}
      /\ \A i \in Files : writers'[i] = writers[i]
  <2>1. /\ readers' \in [Pipes -> SUBSET (Children \cup {Xcc})]
        /\ writers' \in [Pipes -> SUBSET (Children \cup {Xcc})]
        /\ \A p \in Pipes : writers'[p] = writers[p] \ {Xcc}
    BY ClosedEnds DEF WaitedForAs, IInv, TypeOK
  <2>2. ASSUME NEW i \in Files PROVE i \in Pipes /\ writers[i] \ {Xcc} = writers[i]
    <3>1. Xcc \notin writers[i]
      BY <1>1
    <3>2. i \in Pipes
      BY Names
    <3> QED BY <3>1, <3>2
  <2> QED BY <2>1, <2>2
<1>4. /\ exit' \in {-1, 0, 1} /\ exit' # -1
      /\ failed[As] => exit' = 1 /\ exit' # 0
      /\ ~failed[As] => exit' = 0 /\ exit' # 1
      /\ res' <=> failed[As]
  <2>1. failed[As] => exit' = 1
    BY <1>1
  <2>2. ~failed[As] => exit' = 0
    BY <1>1
  <2>3. res' <=> failed[As]
    BY <1>1, <1>2
  <2> QED BY <2>1, <2>2, <2>3
<1>5. TypeOK'
  BY <1>1, <1>2, <1>3, <1>4 DEF IInv, TypeOK, XccTypes, PidTypes, ChildTypes, DataTypes, EndTypes
<1>6. FileAgrees'
  BY <1>1, <1>4 DEF IInv, FileAgrees
<1>7. ChildrenAgree'
  <2>1. \A x \in Children : /\ state'[x] = "run" <=> state[x] = "run"
                            /\ state'[x] = "none" <=> state[x] = "none"
    BY <1>2
  <2>2. ASSUME NEW p \in Pipes, NEW x \in writers'[p] PROVE x = Xcc \/ state'[x] = "run"
    <3>1. x \in writers[p] /\ x \in Children \cup {Xcc}
      BY <1>3, <2>2 DEF IInv, TypeOK, EndTypes
    <3>2. x = Xcc \/ state[x] = "run"
      BY <3>1 DEF IInv, ChildrenAgree
    <3> QED BY <2>1, <3>1, <3>2
  <2> QED BY <1>1, <2>1, <2>2 DEF IInv, ChildrenAgree
<1>8. AsAgrees'
  <2>1. state'[As] = "reaped" /\ Ended(As) /\ Ended(As)' /\ exit # 1
    <3>1. exit # 1
      BY <1>1, ExitValues, Zenon
    <3> QED BY <1>1, <1>2, <3>1 DEF Ended
  <2>2. made <=> ~failed[As]
    BY <1>1, <2>1 DEF IInv, AsAgrees
  <2>3. ~failed[As] => buf[0] = << >>
    BY <1>1, <2>1 DEF IInv, AsAgrees
  <2> QED BY <1>1, <1>4, <2>1, <2>2, <2>3 DEF AsAgrees
<1>9. ASSUME NEW i \in Files
      PROVE  /\ state'[Cpp(i)] = state[Cpp(i)] /\ state'[Cc1(i)] = state[Cc1(i)]
             /\ i >= file \/ i > file => state[Cpp(i)] = "none" /\ state[Cc1(i)] = "none"
             /\ i < file => /\ IsOver(Cpp(i)) /\ IsOver(Cc1(i))
                            /\ ~failed[Cpp(i)] /\ ~failed[Cc1(i)]
             /\ job.mode = "pp" => state[Cc1(i)] = "none"
  <2>1. /\ Cpp(i) \in Children /\ Cc1(i) \in Children /\ Cpp(i) # As /\ Cc1(i) # As
    BY Names
  <2>2. i >= file \/ i > file => (i = file \/ i > file)
    <3>1. i \in Nat /\ file \in Nat
      BY CurrentFile, Names
    <3> QED BY <3>1
  <2> QED BY <1>1, <1>2, <2>1, <2>2 DEF IInv, FilesAgree
<1>10. FilesAgree'
  <2>1. exit' = 0 => ~failed[As]
    BY <1>4
  <2> QED BY <1>1, <1>2, <1>4, <1>9, <2>1 DEF FilesAgree, IsOver, Reaped
<1>11. WaitAgrees'
  BY <1>1, <1>4 DEF WaitAgrees
<1>12. ASSUME NEW i \in Files PROVE PipeAgrees(i)'
  <2>1. state'[Cpp(i)] = state[Cpp(i)] /\ state'[Cc1(i)] = state[Cc1(i)]
    BY <1>9
  <2> QED BY <1>1, <1>3, <1>4, <2>1 DEF IInv, PipeAgrees, Ended
<1>13. SentAgrees'
  <2>1. Sent' = Sent /\ Written' = 0 /\ Written = 0
    BY <1>1 DEF Sent, Written
  <2>2. exit # 1
    BY <1>1, ExitValues, Zenon
  <2> QED BY <1>1, <2>1, <2>2 DEF IInv, SentAgrees
<1> QED
  BY <1>5, <1>6, <1>7, <1>8, <1>10, <1>11, <1>12, <1>13 DEF IInv

-----------------------------------------------------------------------------
(* The invariant                                                           *)

LEMMA InitIInv == Init => IInv
<1>1. SUFFICES ASSUME Init PROVE IInv
  OBVIOUS
<1>2. /\ job \in Jobs /\ pc = "start" /\ file = 1 /\ running = 0 /\ ~res /\ exit = -1
      /\ exit # 0 /\ exit # 1 /\ ~made
      /\ cpp_pid = NoOne /\ cc_pid = NoOne /\ as_pid = NoOne /\ doomed = {}
      /\ out = << >> /\ << >> \in Seq(Pieces)
      /\ job.files \in Seq({"c", "s", "unsupported"})
  BY <1>1, EmptySeq, DriverAssumption DEF Init
<1>3. /\ \A q \in Children : state[q] = "none" /\ failed[q] = FALSE /\ wrote[q] = 0 /\ took[q] = << >>
      /\ \A p \in Pipes : buf[p] = << >> /\ writers[p] = {}
  BY <1>1 DEF Init
<1>4. TypeOK
  <2>1. XccTypes /\ PidTypes
    <3>1. res \in BOOLEAN /\ made \in BOOLEAN
      BY <1>1 DEF Init
    <3>2. file \in Nat \ {0} /\ running \in Int /\ exit \in {-1, 0, 1}
      BY <1>2
    <3> QED BY <1>2, <3>1, <3>2 DEF XccTypes, PidTypes
  <2>2. ChildTypes
    BY <1>1 DEF Init, ChildTypes, States
  <2>3. DataTypes
    BY <1>1, <1>2 DEF Init, DataTypes
  <2>4. EndTypes
    BY <1>1 DEF Init, EndTypes
  <2> QED BY <2>1, <2>2, <2>3, <2>4 DEF TypeOK
<1>5. FileAgrees
  <2>1. Len(job.files) \in Nat
    BY <1>2
  <2> QED BY <1>2, <2>1 DEF FileAgrees
<1>6. ChildrenAgree
  BY <1>2, <1>3 DEF ChildrenAgree
<1>7. AsAgrees
  BY <1>2, <1>3, Names DEF AsAgrees, Ended
<1>8. FilesAgree
  BY <1>2, <1>3, Names DEF FilesAgree, IsOver
<1>9. WaitAgrees
  BY <1>2, <1>3, Names DEF WaitAgrees, Reaped
<1>10. ASSUME NEW i \in Files PROVE PipeAgrees(i)
  <2>1. /\ Cpp(i) \in Children /\ Cc1(i) \in Children /\ i \in Pipes
    BY Names
  <2>2. << >> \o << >> = << >> /\ PieceList(i, 0) = << >>
    <3>1. << >> \in Seq(Pieces)
      BY <1>2
    <3>2. PieceList(i, 0) = << >>
      BY DEF PieceList
    <3> QED BY <3>1, <3>2, ConcatEmptySeq
  <2>3. /\ wrote[Cpp(i)] = 0 /\ wrote[Cc1(i)] = 0 /\ 0 <= Chunks
        /\ state[Cpp(i)] = "none" /\ state[Cc1(i)] = "none"
        /\ took[Cc1(i)] \o buf[i] = PieceList(i, wrote[Cpp(i)]) /\ writers[i] = {}
    <3>1. /\ wrote[Cpp(i)] = 0 /\ wrote[Cc1(i)] = 0 /\ took[Cc1(i)] = << >>
          /\ state[Cpp(i)] = "none" /\ state[Cc1(i)] = "none"
          /\ buf[i] = << >> /\ writers[i] = {}
      BY <1>3, <2>1
    <3>2. 0 <= Chunks
      BY DriverAssumption
    <3>3. took[Cc1(i)] \o buf[i] = PieceList(i, wrote[Cpp(i)])
      BY <2>2, <3>1
    <3> QED BY <3>1, <3>2, <3>3
  <2> QED BY <1>2, <2>3 DEF PipeAgrees, Ended
<1>11. SentAgrees
  <2>1. Sent = << >> /\ Written = 0
    BY <1>2, <1>3, Names DEF Sent, Written
  <2>2. Upto[file - 1] = << >> /\ PieceList(file, 0) = << >>
    BY <1>2, UptoProperties DEF PieceList
  <2> QED BY <1>2, <2>1, <2>2 DEF SentAgrees
<1> QED
  BY <1>4, <1>5, <1>6, <1>7, <1>8, <1>9, <1>10, <1>11 DEF IInv

LEMMA NextIInv == IInv /\ [Next]_vars => IInv'
<1>1. SUFFICES ASSUME IInv, [Next]_vars PROVE IInv'
  OBVIOUS
<1>2. CASE UNCHANGED vars
  <2>1. /\ UNCHANGED <<job, pc, file, running, cpp_pid, cc_pid, as_pid, res, exit>>
        /\ UNCHANGED <<state, failed, doomed, wrote, took, buf, readers, writers, out, made>>
    BY <1>2 DEF vars, xccVars
  <2>2. TypeOK' /\ FileAgrees' /\ ChildrenAgree'
    BY <1>1, <2>1 DEF IInv, TypeOK, XccTypes, PidTypes, ChildTypes, DataTypes, EndTypes,
                      FileAgrees, ChildrenAgree
  <2>3. AsAgrees' /\ FilesAgree'
    BY <1>1, <2>1 DEF IInv, AsAgrees, FilesAgree, Ended, IsOver, Reaped, AsDiesLate
  <2>4. WaitAgrees'
    BY <1>1, <2>1 DEF IInv, WaitAgrees, AsCounted, BothLeft, Cc1Left, Cc1Stopped, CppStopped,
                      BothWaitedFor, CppOnly, IsOver, Reaped
  <2>5. ASSUME NEW i \in Files PROVE PipeAgrees(i)'
    BY <1>1, <2>1 DEF IInv, PipeAgrees, Ended
  <2>6. SentAgrees'
    BY <1>1, <2>1 DEF IInv, SentAgrees, Sent, Written
  <2> QED BY <2>2, <2>3, <2>4, <2>5, <2>6 DEF IInv
<1>3. CASE XccStep
  <2>1. CASE Unsupported
    <3>1. /\ FileDue("unsupported") /\ res'
          /\ UNCHANGED <<job, pc, file, running, cpp_pid, cc_pid, as_pid, exit, childVars>>
      BY <2>1 DEF Unsupported
    <3> QED BY <1>1, <3>1, RefusedIInv
  <2> QED BY <1>1, <1>3, <2>1, StartIInv, CatStartIInv, CatWriteIInv, CatEndIInv,
             SpawnCc1IInv, SpawnCppIInv, WaitedForCppIInv, WaitedForCc1IInv,
             WaitedForOtherIInv, WaitEndsIInv, AbandonIInv, ConcludeIInv, WaitedForAsIInv
          DEF XccStep
<1>4. CASE ForkFails \/ OpenFails \/ CatWriteFails
  <2>1. pc \in {"start", "files", "cat", "spawn"} /\ ~res /\ ExitAtOnce
    BY <1>1, <1>4 DEF ForkFails, OpenFails, CatWriteFails, FileDue, IInv, FilesAgree
  <2> QED BY <1>1, <2>1, ExitAtOnceIInv
<1>7. CASE CatReadFails
  BY <1>1, <1>7, CatReadFailsIInv
<1>5. CASE ChildStep
  BY <1>1, <1>5, ChildStepIInv
<1>6. Next => XccStep \/ ForkFails \/ OpenFails \/ CatWriteFails \/ CatReadFails
                \/ ChildStep \/ UNCHANGED vars
  BY DEF Next, ChildStep
<1> QED
  BY <1>1, <1>2, <1>3, <1>4, <1>5, <1>6, <1>7

LEMMA SpecIInv == Spec => []IInv
BY InitIInv, NextIInv, PTL DEF Spec

-----------------------------------------------------------------------------
(* The theorems                                                            *)

\* The variables of xcc, of its children and of the pipes stay in their types.
THEOREM DriverTypeOK == Spec => []TypeOK
<1>1. IInv => TypeOK
  BY DEF IInv
<1> QED
  BY <1>1, SpecIInv, PTL

\* Each process id xcc holds is one of a child not waited for yet: it cannot
\* kill or wait for anybody else's process.
THEOREM DriverPidsAreChildren == Spec => []PidsAreChildren
<1>1. IInv => PidsAreChildren
  <2>1. SUFFICES ASSUME IInv, AsDiesLate
                 PROVE  /\ pc = "wait" => \A q \in {cpp_pid, cc_pid} \ {NoOne} :
                                             state[q] \in {"run", "zombie"}
                        /\ exit = -1 /\ as_pid # NoOne => state[as_pid] \in {"run", "zombie"}
    BY DEF PidsAreChildren
  <2>2. \A q \in Children : state[q] \in States
    BY <2>1 DEF IInv, TypeOK, ChildTypes
  <2>3. ASSUME pc = "wait", NEW q \in {cpp_pid, cc_pid} \ {NoOne}
        PROVE  state[q] \in {"run", "zombie"}
    <3>1. /\ q = cpp_pid \/ q = cc_pid
          /\ BothLeft \/ Cc1Left \/ Cc1Stopped \/ CppStopped \/ BothWaitedFor \/ CppOnly
          /\ cpp_pid # NoOne => cpp_pid = Cpp(file)
          /\ cc_pid # NoOne => cc_pid = Cc1(file)
          /\ Cpp(file) \in Children /\ Cc1(file) \in Children
      BY <2>1, <2>3, Phases
    <3>2. q \in Children /\ ~IsOver(q)
      BY <2>3, <3>1 DEF BothLeft, Cc1Left, Cc1Stopped, CppStopped, BothWaitedFor, CppOnly
    <3> QED BY <2>2, <3>2 DEF IsOver, States
  <2>4. ASSUME exit = -1, as_pid # NoOne PROVE state[as_pid] \in {"run", "zombie"}
    <3>1. as_pid = As /\ As \in Children
      BY <2>1, <2>4, Names DEF IInv, TypeOK, PidTypes
    <3>2. state[As] # "none" /\ state[As] # "reaped"
      <4>1. exit # 1
        BY <2>4, ExitValues, Zenon
      <4> QED BY <2>1, <2>4, <3>1, <4>1 DEF IInv, AsAgrees, Ended
    <3> QED BY <2>2, <3>1, <3>2 DEF States
  <2> QED BY <2>3, <2>4
<1> QED
  BY <1>1, SpecIInv, PTL

\* When xcc has given up, its assembler has left no output and will leave none.
THEOREM DriverFailureLeavesNoOutput == Spec => []FailureLeavesNoOutput
<1>1. IInv => FailureLeavesNoOutput
  BY DEF IInv, AsAgrees, FailureLeavesNoOutput
<1> QED
  BY <1>1, SpecIInv, PTL

\* A compiler that succeeds has compiled all that its preprocessor wrote, and
\* the preprocessor has succeeded.
THEOREM DriverCc1SeesWhole == Spec => []Cc1SeesWhole
<1>1. IInv => Cc1SeesWhole
  <2>1. SUFFICES ASSUME IInv, NEW i \in Files, Ended(Cc1(i)), ~failed[Cc1(i)],
                        state[Cpp(i)] # "none"
                 PROVE  took[Cc1(i)] = ChunksOf(i) /\ ~failed[Cpp(i)]
    BY DEF Cc1SeesWhole, Ended
  <2>2. job.mode # "pp"
    BY <2>1 DEF IInv, FilesAgree, Ended
  <2> QED BY <2>1, <2>2 DEF IInv, PipeAgrees
<1> QED
  BY <1>1, SpecIInv, PTL

\* The files of the command line one after the other, as FlattenSeq has them.
Flattens(f, seqs) ==
    f = [i \in 1..Len(seqs) |-> IF i = 1 THEN seqs[i] ELSE f[i - 1] \o seqs[i]]

LEMMA FlattenSeqIs ==
    ASSUME NEW seqs, Len(seqs) # 0, \E f : Flattens(f, seqs)
    PROVE  \E f : Flattens(f, seqs) /\ FlattenSeq(seqs) = f[Len(seqs)]
BY DEF FlattenSeq, Flattens

LEMMA WholeIsUpto == ASSUME job \in Jobs PROVE Whole = Upto[Len(job.files)]
<1> DEFINE n == Len(job.files)
           seqs == [i \in 1..n |-> ChunksOf(i)]
<1>1. n \in Nat /\ n <= MaxFiles /\ MaxFiles \in Nat
  <2>1. job.files \in Seq({"c", "s", "unsupported"}) /\ Len(job.files) <= MaxFiles
    BY DriverAssumption, MaxFilesAssumption
  <2> QED BY <2>1, MaxFilesAssumption
<1>2. Whole = FlattenSeq(seqs)
  BY DEF Whole
<1> HIDE DEF n
<1>3. Len(seqs) = n /\ \A i \in 1..n : seqs[i] = ChunksOf(i)
  BY <1>1
<1> HIDE DEF seqs
<1>4. \A i \in 1..n : i \in Files /\ i \in Nat
  BY <1>1 DEF Files
<1>5. ASSUME NEW i \in 1..n PROVE seqs[i] \in Seq(Pieces)
  <2>1. PieceList(i, Chunks) \in Seq(Pieces) /\ PieceList(i, Chunks) = ChunksOf(i)
    BY <1>4, PieceListProperties, DriverAssumption
  <2> QED BY <1>3, <2>1
<1>6. CASE n = 0
  <2>1. FlattenSeq(seqs) = seqs
    BY <1>3, <1>6 DEF FlattenSeq
  <2>2. seqs = << >>
    BY <1>1, <1>6 DEF seqs
  <2> QED BY <1>2, <1>6, <2>1, <2>2, UptoProperties DEF n
<1>7. CASE n # 0
  <2>1. Flattens([i \in 1..n |-> Upto[i]], seqs)
    <3>1. ASSUME NEW i \in 1..n
          PROVE  Upto[i] = IF i = 1 THEN seqs[i]
                           ELSE [j \in 1..n |-> Upto[j]][i - 1] \o seqs[i]
      <4>1. Upto[i] = Upto[i - 1] \o seqs[i]
        BY <1>3, <1>4, UptoProperties
      <4>2. CASE i = 1
        <5>1. seqs[i] \in Seq(Pieces)
          BY <1>5
        <5>2. << >> \o seqs[i] = seqs[i]
          BY <5>1, ConcatEmptySeq
        <5>3. Upto[i - 1] = << >>
          BY <4>2, UptoProperties
        <5> QED BY <4>1, <4>2, <5>2, <5>3
      <4>3. CASE i # 1
        <5>1. i - 1 \in 1..n
          BY <1>1, <4>3
        <5> QED BY <4>1, <4>3, <5>1
      <4> QED BY <4>2, <4>3
    <3> QED BY <1>3, <3>1 DEF Flattens
  <2>2. PICK f : Flattens(f, seqs) /\ FlattenSeq(seqs) = f[n]
    BY <1>3, <1>7, <2>1, FlattenSeqIs
  <2>3. \A i \in 1..n : f[i] = IF i = 1 THEN seqs[i] ELSE f[i - 1] \o seqs[i]
    BY <1>3, <2>2 DEF Flattens
  <2> DEFINE Bad == {i \in 1..n : f[i] # Upto[i]}
  <2>4. Bad = {}
    <3>1. SUFFICES ASSUME Bad # {} PROVE FALSE
      OBVIOUS
    <3>2. Bad \in SUBSET Nat
      BY <1>4
    <3> HIDE DEF Bad
    <3>3. PICK k \in Bad : \A m \in Bad : k <= m
      BY <3>1, <3>2, Least
    <3>4. k \in 1..n /\ f[k] # Upto[k]
      BY DEF Bad
    <3>5. Upto[k] = Upto[k - 1] \o seqs[k]
      BY <1>3, <1>4, <3>4, UptoProperties
    <3>6. k # 1
      <4>1. ASSUME k = 1 PROVE FALSE
        <5>1. seqs[k] \in Seq(Pieces)
          BY <1>5, <3>4
        <5>2. << >> \o seqs[k] = seqs[k]
          BY <5>1, ConcatEmptySeq
        <5>3. Upto[k - 1] = << >>
          BY <4>1, UptoProperties
        <5> QED BY <2>3, <3>4, <3>5, <4>1, <5>2, <5>3
      <4> QED BY <4>1
    <3>7. k - 1 \in 1..n /\ k - 1 \notin Bad
      BY <1>1, <3>3, <3>4, <3>6
    <3>8. f[k - 1] = Upto[k - 1]
      BY <3>7 DEF Bad
    <3> QED BY <2>3, <3>4, <3>5, <3>6, <3>8
  <2>5. n \in 1..n
    BY <1>1, <1>7
  <2>6. f[n] = Upto[n]
    BY <2>4, <2>5
  <2> QED BY <1>2, <2>2, <2>6 DEF n
<1> QED
  BY <1>6, <1>7

\* Exit status 0 says that all children have succeeded and that all the files
\* came out at the end of the pipes, whole and in order.
THEOREM DriverZeroMeansComplete == Spec => []ZeroMeansComplete
<1>1. IInv => ZeroMeansComplete
  <2>1. SUFFICES ASSUME IInv, exit = 0
                 PROVE  /\ \A q \in Children : state[q] \in {"none", "reaped"} /\ ~failed[q]
                        /\ IF job.mode = "exe" THEN made /\ took[As] = Whole ELSE out = Whole
    BY DEF ZeroMeansComplete
  <2>2. /\ exit # -1 /\ exit # 1 /\ pc = "exit" /\ ~res /\ file = Len(job.files) + 1
        /\ job \in Jobs /\ As \in Children
    <3>1. exit # -1 /\ exit # 1
      BY <2>1, ExitValues, Zenon
    <3> QED BY <2>1, <3>1, Names DEF IInv, TypeOK, XccTypes, FileAgrees, FilesAgree
  <2>3. state[As] \in {"none", "reaped"} /\ ~failed[As]
    <3>1. CASE job.mode = "exe"
      BY <2>1, <3>1 DEF IInv, FilesAgree, Reaped
    <3>2. CASE job.mode # "exe"
      BY <2>1, <2>2, <3>2 DEF IInv, AsAgrees, ChildrenAgree
    <3> QED BY <3>1, <3>2
  <2>4. ASSUME NEW i \in Files, NEW q \in {Cpp(i), Cc1(i)}
        PROVE  state[q] \in {"none", "reaped"} /\ ~failed[q]
    <3>1. q \in Children /\ (i < file \/ i >= file)
      <4>1. i \in Nat /\ file \in Nat
        BY <2>1, CurrentFile, Names
      <4> QED BY <4>1, Names
    <3>2. CASE i < file
      BY <2>1, <2>2, <3>2 DEF IInv, FilesAgree, IsOver
    <3>3. CASE i >= file
      BY <2>1, <3>1, <3>3 DEF IInv, FilesAgree, ChildrenAgree
    <3> QED BY <3>1, <3>2, <3>3
  <2>5. \A q \in Children : state[q] \in {"none", "reaped"} /\ ~failed[q]
    BY <2>3, <2>4, Names
  <2>6. Sent = Whole
    <3>1. Sent = Upto[file - 1] \o PieceList(file, Written) /\ Written = 0
      BY <2>1, <2>2 DEF IInv, SentAgrees, Written
    <3>2. PieceList(file, 0) = << >>
      BY DEF PieceList
    <3>3. file - 1 = Len(job.files) /\ file - 1 \in 0..MaxFiles
      <4>1. Len(job.files) \in Nat /\ Len(job.files) <= MaxFiles
        BY <2>1, CurrentFile
      <4> QED BY <2>2, <4>1, MaxFilesAssumption
    <3>4. Upto[file - 1] \o << >> = Upto[file - 1]
      <4>1. Upto[file - 1] \in Seq(Pieces)
        BY <3>3, UptoProperties
      <4> QED BY <4>1, ConcatEmptySeq
    <3> QED BY <2>2, <3>1, <3>2, <3>3, <3>4, WholeIsUpto
  <2>7. CASE job.mode = "exe"
    <3>1. made /\ buf[0] = << >>
      BY <2>1, <2>2, <2>7 DEF IInv, AsAgrees, FilesAgree, Reaped, Ended
    <3>2. took[As] \in Seq(Pieces)
      BY <2>1, <2>2 DEF IInv, TypeOK, DataTypes
    <3>3. took[As] \o << >> = took[As]
      BY <3>2, ConcatEmptySeq
    <3> QED BY <2>5, <2>6, <2>7, <3>1, <3>3 DEF Sent
  <2>8. CASE job.mode # "exe"
    BY <2>5, <2>6, <2>8 DEF Sent
  <2> QED BY <2>7, <2>8
<1> QED
  BY <1>1, SpecIInv, PTL
=============================================================================
