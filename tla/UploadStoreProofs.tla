-------------------------- MODULE UploadStoreProofs --------------------------
(***************************************************************************)
(* Proofs about UploadStore, for any number of uploads of any content:     *)
(* results are true as long as no two ASCII uploads have one temporary     *)
(* file, and staged uploads are always removed.                            *)
(***************************************************************************)
EXTENDS UploadStore, TLAPS

-------------------------------------------------------------------------------
(* The inductive invariant.  A job's staged upload is its own until it     *)
(* becomes the destination, and so is the file that it converts into, if   *)
(* temporary files are not shared: nobody else has either of them open,    *)
(* nor is either found under another name.                                 *)

Received(j) == <<"received", j>>
Staged == {"install", "copy", "write", "rename", "unlink"}

CopyOK ==
    \A j \in Jobs :
        /\ pc[j] \in {"receive", "install"} => copied[j] = 0
        /\ pc[j] = "copy" =>
              /\ plan[j].append
              /\ copied[j] <= Len(text[j])
              /\ plan[j].ascii => copied[j] \in {0, Len(text[j])}
        /\ pc[j] \in {"write", "rename"} => UsesTemp(j)
        /\ pc[j] = "unlink" => plan[j].append \/ UsesTemp(j)

UploadsOK ==
    \A j \in Jobs, t \in Targets :
        names[<<"upload", t, j>>] # NoFile =>
            t = plan[j].target /\ pc[j] \in Staged \cup {"except", "raised"}

ReceivedOK ==
    \A j \in Jobs :
        /\ pc[j] \in Staged =>
              /\ names[Upload(j)] = Received(j)
              /\ data[Received(j)] = plan[j].content
        /\ pc[j] # "success" =>
              /\ \A k \in Jobs : handle[k] # Received(j)
              /\ \A n \in Targets \cup Temps : names[n] # Received(j)

TempsApart ==
    \A i, j \in Jobs : i # j /\ UsesTemp(i) /\ UsesTemp(j) => Temp(i) # Temp(j)

CreatedOK ==
    \A j \in Jobs :
        /\ pc[j] \in {"receive", "install"} =>
              /\ \A k \in Jobs : handle[k] # Created(j)
              /\ \A n \in Targets \cup Temps : names[n] # Created(j)
        /\ pc[j] \in {"write", "rename"} =>
              /\ \A k \in Jobs : k # j => handle[k] # Created(j)
              /\ \A n \in Targets \cup Temps : n # Temp(j) => names[n] # Created(j)

ConvertedOK ==
    \A j \in Jobs : UsesTemp(j) =>
        /\ pc[j] \in {"receive", "install"} => names[Temp(j)] = NoFile
        /\ pc[j] \in {"write", "rename"} => names[Temp(j)] = Created(j)
        /\ pc[j] = "write" =>
              /\ handle[j] = Created(j) /\ data[Created(j)] = <<>>
              /\ text[j] = Wanted(j)
        /\ pc[j] = "rename" => data[Created(j)] = Wanted(j)

StoredOK ==
    \A j \in Jobs : ~plan[j].append =>
        /\ pc[j] \in {"receive", "install", "write", "rename"} => stored[j] = NoFile
        /\ pc[j] \in {"except", "failed", "raised"} =>
              stored[j] = NoFile \/ (plan[j].ascii /\ IoErrors /\ stored[j] = Wanted(j))
        /\ pc[j] \in {"unlink", "success"} => stored[j] = Wanted(j)

TempInv == TempsApart /\ CreatedOK /\ ConvertedOK /\ StoredOK

-------------------------------------------------------------------------------
(* Facts about names, files and contents.                                  *)

LEMMA PlanFields ==
    ASSUME TypeOK, NEW j \in Jobs
    PROVE  /\ plan[j] \in Plans
           /\ plan[j].target \in Targets /\ plan[j].content \in Seq(Pieces)
           /\ plan[j].append \in BOOLEAN /\ plan[j].ascii \in BOOLEAN
BY StoreAssumption DEF TypeOK

(* The three kinds of names do not overlap, nor do the staged uploads of   *)
(* different jobs.                                                         *)
LEMMA NameFacts ==
    ASSUME TypeOK, NEW j \in Jobs
    PROVE  /\ Upload(j) \in Names /\ Temp(j) \in Names /\ plan[j].target \in Names
           /\ plan[j].target \in Targets /\ Temp(j) \in Temps
           /\ Upload(j) \notin Targets \cup Temps
           /\ Temp(j) \notin Targets /\ plan[j].target \notin Temps
           /\ \A k \in Jobs : Upload(k) = Upload(j) => k = j
BY PlanFields, NameAssumption DEF Upload, Temp, Names, Temps

LEMMA FileFacts ==
    ASSUME NEW j \in Jobs
    PROVE  /\ Received(j) \in FileIds /\ Created(j) \in FileIds
           /\ Received(j) # NoFile /\ Created(j) # NoFile
           /\ \A k \in Jobs : /\ Received(j) # Created(k)
                              /\ Received(k) = Received(j) => k = j
                              /\ Created(k) = Created(j) => k = j
           /\ \A t \in Targets : <<"old", t>> # Received(j) /\ <<"old", t>> # Created(j)
BY StoreAssumption DEF Received, Created, FileIds

LEMMA StoredType ==
    ASSUME TypeOK, NEW j \in Jobs, NEW c \in Seq(Pieces)
    PROVE  Stored(j, c) \in Seq(Pieces)
<1>1. ToLf(c) \in Seq(Pieces)
  <2>1. \A i \in 1..Len(c) : c[i] \in Pieces
    OBVIOUS
  <2>2. \A i \in 1..Len(c) : (IF c[i] = "crlf" THEN "lf" ELSE c[i]) \in Pieces
    BY <2>1, StoreAssumption
  <2>3. /\ Len(c) \in Nat /\ DOMAIN c = 1..Len(c)
    OBVIOUS
  <2>4. ToLf(c) \in [1..Len(c) -> Pieces]
    BY <2>2, <2>3 DEF ToLf
  <2>. QED
    BY <2>3, <2>4
<1>. QED
    BY <1>1 DEF Stored

(* What is read under a name is a content, or nothing.                     *)
LEMMA ReadType ==
    ASSUME TypeOK, NEW n \in Names
    PROVE  /\ names[n] # NoFile => Read(n) \in Seq(Pieces)
           /\ Read(n) \in Seq(Pieces) \cup {NoFile}
           /\ names[n] = NoFile <=> Read(n) = NoFile
BY StoreAssumption DEF TypeOK, Read

(* Writing into an empty file leaves what was written.                     *)
LEMMA OverwritesEmpty ==
    ASSUME NEW w \in Seq(Pieces)
    PROVE  Overwrites(<<>>, w) = w
BY DEF Overwrites

LEMMA OverwritesType ==
    ASSUME NEW s \in Seq(Pieces), NEW w \in Seq(Pieces)
    PROVE  Overwrites(s, w) \in Seq(Pieces)
<1>1. SubSeq(s, Len(w) + 1, Len(s)) \in Seq(Pieces)
  OBVIOUS
<1>. QED
  BY <1>1 DEF Overwrites

-------------------------------------------------------------------------------
(* Type correctness, with the places in the code that an upload's kind     *)
(* leads to.                                                               *)

LEMMA TypeInit == Init => TypeOK /\ CopyOK
<1> SUFFICES ASSUME Init PROVE TypeOK /\ CopyOK
  OBVIOUS
<1> USE DEF Init
<1>1. names \in [Names -> FileIds \cup {NoFile}]
  BY DEF FileIds
<1>2. data \in [FileIds -> Seq(Pieces)]
  <2>1. \A f \in FileIds : f[1] = "old" => f[2] \in Targets
    BY DEF FileIds
  <2>. QED
    BY <2>1, StoreAssumption
<1>3. TypeOK
  BY <1>1, <1>2 DEF TypeOK, PCs
<1>4. CopyOK
  BY DEF CopyOK
<1> QED
  BY <1>3, <1>4

\* The open of the append or of the temporary file.
LEMMA OpensType ==
    ASSUME TypeOK, NEW j \in Jobs, NEW n \in Names,
           OpensToWrite(j, n) \/ OpensToAppend(j, n)
    PROVE  /\ names' \in [Names -> FileIds \cup {NoFile}]
           /\ data' \in [FileIds -> Seq(Pieces)]
           /\ handle' \in [Jobs -> FileIds \cup {NoFile}]
           /\ handle'[j] # NoFile
<1> DEFINE file == IF names[n] = NoFile THEN Created(j) ELSE names[n]
<1>1. file \in FileIds /\ file # NoFile
  BY FileFacts, StoreAssumption DEF TypeOK
<1>2. <<>> \in Seq(Pieces)
  OBVIOUS
<1> HIDE DEF file
<1>3. /\ names' = [names EXCEPT ![n] = file]
      /\ handle' = [handle EXCEPT ![j] = file]
      /\ data' = [data EXCEPT ![file] = <<>>] \/ data' = data
  BY DEF OpensToWrite, OpensToAppend, file
<1>4. data' \in [FileIds -> Seq(Pieces)]
  <2>1. CASE data' = data
    BY <2>1 DEF TypeOK
  <2>2. CASE data' = [data EXCEPT ![file] = <<>>]
    BY <1>1, <1>2, <2>2 DEF TypeOK
  <2> QED
    BY <1>3, <2>1, <2>2
<1>5. /\ names' \in [Names -> FileIds \cup {NoFile}]
      /\ handle' \in [Jobs -> FileIds \cup {NoFile}]
  BY <1>1, <1>3 DEF TypeOK
<1>6. handle'[j] # NoFile
  BY <1>1, <1>3 DEF TypeOK
<1> QED
  BY <1>4, <1>5, <1>6

LEMMA ReadsType ==
    ASSUME TypeOK, NEW j \in Jobs, names[Upload(j)] # NoFile, ReadsUpload(j)
    PROVE  text' \in [Jobs -> Seq(Pieces)]
<1>1. Read(Upload(j)) \in Seq(Pieces)
  BY NameFacts, ReadType
<1>2. Stored(j, Read(Upload(j))) \in Seq(Pieces)
  BY <1>1, StoredType
<1> QED
  BY <1>2 DEF ReadsUpload, TypeOK

\* What U_Copy appends next.
LEMMA WriteType ==
    ASSUME TypeOK, CopyOK, NEW j \in Jobs, pc[j] = "copy", ~CopyEnds(j)
    PROVE  /\ Write(j) \in Seq(Pieces)
           /\ copied[j] + Len(Write(j)) \in Nat
           /\ copied[j] + Len(Write(j)) <= Len(text[j])
           /\ plan[j].ascii => copied[j] + Len(Write(j)) = Len(text[j])
<1>1. /\ text[j] \in Seq(Pieces) /\ copied[j] \in Nat
      /\ Len(text[j]) \in Nat /\ copied[j] < Len(text[j])
      /\ plan[j].ascii => copied[j] = 0
  BY DEF TypeOK, CopyOK, CopyEnds
<1>2. CASE plan[j].ascii
  BY <1>1, <1>2 DEF Write
<1>3. CASE ~plan[j].ascii
  <2>1. text[j][copied[j] + 1] \in Pieces
    BY <1>1
  <2>2. /\ <<text[j][copied[j] + 1]>> \in Seq(Pieces)
        /\ Len(<<text[j][copied[j] + 1]>>) = 1
    BY <2>1
  <2> QED
    BY <1>1, <1>3, <2>2 DEF Write
<1> QED
  BY <1>2, <1>3

LEMMA TypeStep ==
    ASSUME TypeOK, CopyOK, NEW j \in Jobs, Step(j)
    PROVE  TypeOK'
<1>0. /\ Upload(j) \in Names /\ Temp(j) \in Names /\ plan[j].target \in Names
      /\ Received(j) \in FileIds
      /\ NoFile \notin FileIds
      /\ plan[j].content \in Seq(Pieces)
  BY NameFacts, FileFacts, PlanFields, StoreAssumption
<1>1. CASE U_Receive(j)
  <2>1. /\ names' \in [Names -> FileIds \cup {NoFile}]
        /\ data' \in [FileIds -> Seq(Pieces)]
    BY <1>0, <1>1 DEF TypeOK, U_Receive, Received
  <2> QED
    BY <1>1, <2>1 DEF TypeOK, U_Receive, Goto, PCs
<1>2. CASE U_ReceiveFails(j)
  BY <1>2 DEF TypeOK, U_ReceiveFails, Goto, PCs
<1>3. CASE U_Replace(j)
  <2>1. /\ names' \in [Names -> FileIds \cup {NoFile}]
        /\ stored' \in [Jobs -> Seq(Pieces) \cup {NoFile}]
    BY <1>0, <1>3, ReadType DEF TypeOK, U_Replace
  <2> QED
    BY <1>3, <2>1 DEF TypeOK, U_Replace, Goto, PCs
<1>4. CASE U_OpenAppend(j)
  <2>1. CASE IsDirectory(j) \/ ~Readable(j)
    BY <1>4, <2>1 DEF TypeOK, U_OpenAppend, Goto, PCs
  <2>2. CASE ~(IsDirectory(j) \/ ~Readable(j))
    <3>1. /\ names' \in [Names -> FileIds \cup {NoFile}]
          /\ data' \in [FileIds -> Seq(Pieces)]
          /\ handle' \in [Jobs -> FileIds \cup {NoFile}]
          /\ handle'[j] # NoFile
      BY <1>0, <1>4, <2>2, OpensType DEF U_OpenAppend
    <3>2. text' \in [Jobs -> Seq(Pieces)]
      BY <1>4, <2>2, ReadsType DEF U_OpenAppend, Readable
    <3>3. \A k \in Jobs : k # j => handle'[k] = handle[k]
      BY <1>4, <2>2 DEF U_OpenAppend, OpensToAppend, TypeOK
    <3> QED
      BY <1>4, <2>2, <3>1, <3>2, <3>3 DEF TypeOK, U_OpenAppend, Goto, PCs
  <2> QED
    BY <2>1, <2>2
<1>5. CASE U_Copy(j)
  <2>1. handle[j] \in FileIds /\ data[handle[j]] \in Seq(Pieces)
    BY <1>5 DEF TypeOK, U_Copy
  <2>2. Write(j) \in Seq(Pieces) /\ copied[j] + Len(Write(j)) \in Nat
    BY <1>5, WriteType DEF U_Copy
  <2>3. data[handle[j]] \o Write(j) \in Seq(Pieces)
    BY <2>1, <2>2
  <2>4. /\ data' \in [FileIds -> Seq(Pieces)]
        /\ copied' \in [Jobs -> Nat]
    BY <1>5, <2>1, <2>2, <2>3 DEF TypeOK, U_Copy
  <2> QED
    BY <1>5, <2>4 DEF TypeOK, U_Copy
<1>6. CASE U_CopyEnds(j)
  BY <1>6 DEF TypeOK, U_CopyEnds, Goto, PCs
<1>7. CASE U_OpenTemp(j)
  <2>1. CASE ~Readable(j)
    BY <1>7, <2>1 DEF TypeOK, U_OpenTemp, Goto, PCs
  <2>2. CASE Readable(j)
    <3>1. /\ names' \in [Names -> FileIds \cup {NoFile}]
          /\ data' \in [FileIds -> Seq(Pieces)]
          /\ handle' \in [Jobs -> FileIds \cup {NoFile}]
          /\ handle'[j] # NoFile
      BY <1>0, <1>7, <2>2, OpensType DEF U_OpenTemp
    <3>2. text' \in [Jobs -> Seq(Pieces)]
      BY <1>7, <2>2, ReadsType DEF U_OpenTemp, Readable
    <3>3. \A k \in Jobs : k # j => handle'[k] = handle[k]
      BY <1>7, <2>2 DEF U_OpenTemp, OpensToWrite, TypeOK
    <3> QED
      BY <1>7, <2>2, <3>1, <3>2, <3>3 DEF TypeOK, U_OpenTemp, Goto, PCs
  <2> QED
    BY <2>1, <2>2
<1>8. CASE U_WriteTemp(j)
  <2>1. handle[j] \in FileIds /\ data[handle[j]] \in Seq(Pieces)
    BY <1>8 DEF TypeOK, U_WriteTemp
  <2>2. Overwrites(data[handle[j]], text[j]) \in Seq(Pieces)
    BY <2>1, OverwritesType DEF TypeOK
  <2>3. data' \in [FileIds -> Seq(Pieces)]
    BY <1>8, <2>1, <2>2 DEF TypeOK, U_WriteTemp
  <2> QED
    BY <1>8, <2>3 DEF TypeOK, U_WriteTemp, Goto, PCs
<1>9. CASE U_RenameTemp(j)
  <2>1. /\ names' \in [Names -> FileIds \cup {NoFile}]
        /\ stored' \in [Jobs -> Seq(Pieces) \cup {NoFile}]
    BY <1>0, <1>9, ReadType DEF TypeOK, U_RenameTemp, RenamesTemp
  <2> QED
    BY <1>9, <2>1 DEF TypeOK, U_RenameTemp, Goto, PCs
<1>10. CASE U_Unlink(j)
  BY <1>10 DEF TypeOK, U_Unlink, Goto, PCs
<1>11. CASE U_IoError(j)
  BY <1>11 DEF TypeOK, U_IoError, Goto, PCs
<1>12. CASE U_Except(j)
  BY <1>12 DEF TypeOK, U_Except, Goto, PCs
<1> QED
  BY <1>1, <1>2, <1>3, <1>4, <1>5, <1>6, <1>7, <1>8, <1>9, <1>10, <1>11,
     <1>12 DEF Step

LEMMA CopyStep ==
    ASSUME TypeOK, CopyOK, NEW j \in Jobs, Step(j)
    PROVE  CopyOK'
<1> USE DEF CopyOK, TypeOK, Goto, UsesTemp
<1>1. CASE U_OpenAppend(j)
  <2>1. CASE IsDirectory(j) \/ ~Readable(j)
    BY <1>1, <2>1 DEF U_OpenAppend
  <2>2. CASE ~(IsDirectory(j) \/ ~Readable(j))
    <3>1. Len(text'[j]) \in Nat
      <4>1. text'[j] \in Seq(Pieces)
        BY <1>1, <2>2, ReadsType DEF U_OpenAppend, Readable
      <4> QED
        BY <4>1
    <3>2. copied'[j] = 0 /\ \A k \in Jobs : k # j => text'[k] = text[k]
      BY <1>1, <2>2 DEF U_OpenAppend, ReadsUpload
    <3> QED
      BY <1>1, <2>2, <3>1, <3>2 DEF U_OpenAppend
  <2> QED
    BY <2>1, <2>2
<1>2. CASE U_Copy(j)
  <2>1. /\ copied[j] + Len(Write(j)) <= Len(text[j])
        /\ plan[j].ascii => copied[j] + Len(Write(j)) = Len(text[j])
    BY <1>2, WriteType DEF U_Copy
  <2> QED
    BY <1>2, <2>1 DEF U_Copy
<1>3. CASE U_OpenTemp(j)
  <2>1. \A k \in Jobs : k # j => text'[k] = text[k]
    BY <1>3 DEF U_OpenTemp, ReadsUpload
  <2> QED
    BY <1>3, <2>1 DEF U_OpenTemp
<1>4. CASE U_Receive(j) \/ U_ReceiveFails(j) \/ U_Replace(j)
  BY <1>4 DEF U_Receive, U_ReceiveFails, U_Replace
<1>5. CASE U_CopyEnds(j)
  BY <1>5 DEF U_CopyEnds
<1>6. CASE U_WriteTemp(j) \/ U_RenameTemp(j)
  BY <1>6 DEF U_WriteTemp, U_RenameTemp
<1>7. CASE U_Unlink(j) \/ U_IoError(j) \/ U_Except(j)
  BY <1>7 DEF U_Unlink, U_IoError, U_Except
<1> QED
  BY <1>1, <1>2, <1>3, <1>4, <1>5, <1>6, <1>7 DEF Step

(* The variables always hold values of their types, and a job has a file   *)
(* open for writing exactly while it copies or writes.                     *)
THEOREM Typing == Spec => [](TypeOK /\ CopyOK)
<1>1. TypeOK /\ CopyOK /\ [Next]_vars => (TypeOK /\ CopyOK)'
  <2> SUFFICES ASSUME TypeOK, CopyOK, [Next]_vars PROVE (TypeOK /\ CopyOK)'
    OBVIOUS
  <2>1. CASE UNCHANGED vars
    BY <2>1 DEF vars, TypeOK, CopyOK, UsesTemp
  <2>2. CASE \E j \in Jobs : Step(j)
    BY <2>2, TypeStep, CopyStep
  <2> QED
    BY <2>1, <2>2 DEF Next, Done
<1> QED
  BY <1>1, TypeInit, PTL DEF Spec

-------------------------------------------------------------------------------
(* Staged uploads.                                                         *)

\* Of the names, a job touches its upload, its target and its temporary file.
LEMMA NamesFrame ==
    ASSUME TypeOK, NEW j \in Jobs, Step(j),
           NEW n \in Names, n # Upload(j), n # plan[j].target, n # Temp(j)
    PROVE  names'[n] = names[n]
BY DEF Step, U_Receive, U_ReceiveFails, U_Replace, U_OpenAppend, U_Copy,
   U_CopyEnds, U_OpenTemp, U_WriteTemp, U_RenameTemp, U_Unlink, U_IoError,
   U_Except, RenamesTemp, OpensToWrite, OpensToAppend, TypeOK

LEMMA PlacesFrame ==
    ASSUME TypeOK, NEW j \in Jobs, Step(j)
    PROVE  /\ plan' = plan /\ original' = original
           /\ \A k \in Jobs : k # j => pc'[k] = pc[k] /\ stored'[k] = stored[k]
BY DEF Step, U_Receive, U_ReceiveFails, U_Replace, U_OpenAppend, U_Copy,
   U_CopyEnds, U_OpenTemp, U_WriteTemp, U_RenameTemp, U_Unlink, U_IoError,
   U_Except, Goto, TypeOK

\* What becomes of a job's own staged upload.
LEMMA OwnUpload ==
    ASSUME TypeOK, CopyOK, UploadsOK, NEW j \in Jobs, Step(j)
    PROVE  \/ pc'[j] \in Staged \cup {"except", "raised"}
           \/ names'[Upload(j)] = NoFile
<1>1. CASE U_Replace(j)
  BY <1>1, NameFacts DEF U_Replace, TypeOK, Goto, Staged
<1>2. CASE U_Unlink(j) \/ U_Except(j)
  BY <1>2, NameFacts DEF U_Unlink, U_Except, Goto, TypeOK
<1>3. CASE ~U_Replace(j) /\ ~U_Unlink(j) /\ ~U_Except(j)
  BY <1>3 DEF Step, U_Receive, U_ReceiveFails, U_OpenAppend, U_Copy, U_CopyEnds,
     U_OpenTemp, U_WriteTemp, U_RenameTemp, U_IoError, Goto, TypeOK, Staged
<1> QED
  BY <1>1, <1>2, <1>3

LEMMA UploadsStep ==
    ASSUME TypeOK, CopyOK, UploadsOK, NEW j \in Jobs, Step(j)
    PROVE  UploadsOK'
<1> SUFFICES ASSUME NEW k \in Jobs, NEW t \in Targets,
                    names'[<<"upload", t, k>>] # NoFile
             PROVE  t = plan'[k].target /\ pc'[k] \in Staged \cup {"except", "raised"}
  BY DEF UploadsOK
<1>1. plan' = plan /\ (k # j => pc'[k] = pc[k])
  BY PlacesFrame
<1>2. /\ <<"upload", t, k>> \in Names
      /\ <<"upload", t, k>> # plan[j].target /\ <<"upload", t, k>> # Temp(j)
  <2>1. <<"upload", t, k>> \in {"upload"} \X Targets \X Jobs
    OBVIOUS
  <2>2. plan[j].target \in Targets /\ Temp(j) \in Temps
    BY NameFacts
  <2> QED
    BY <2>1, <2>2, NameAssumption DEF Names
<1>3. CASE <<"upload", t, k>> = Upload(j)
  <2>1. k = j /\ t = plan[j].target
    BY <1>3 DEF Upload
  <2> QED
    BY <1>1, <1>3, <2>1, OwnUpload
<1>4. CASE <<"upload", t, k>> # Upload(j)
  <2>1. names[<<"upload", t, k>>] # NoFile
    BY <1>2, <1>4, NamesFrame
  <2>2. t = plan[k].target /\ pc[k] \in Staged \cup {"except", "raised"}
    BY <2>1 DEF UploadsOK
  <2>3. k # j
    BY <1>4, <2>2 DEF Upload
  <2> QED
    BY <1>1, <2>2, <2>3
<1> QED
  BY <1>3, <1>4

(* docs/integration-guide.md:226, temporary files are removed after        *)
(* failure: no job that has ended leaves its staged upload, whatever files *)
(* the others use and whichever operation fails.                           *)
THEOREM StagedUploadsRemoved == Spec => []UploadRemoved
<1>1. Init => UploadsOK
  BY NameAssumption DEF Init, UploadsOK, Names
<1>2. TypeOK /\ CopyOK /\ UploadsOK /\ [Next]_vars => UploadsOK'
  <2> SUFFICES ASSUME TypeOK, CopyOK, UploadsOK, [Next]_vars PROVE UploadsOK'
    OBVIOUS
  <2>1. CASE UNCHANGED vars
    BY <2>1 DEF vars, UploadsOK
  <2>2. CASE \E j \in Jobs : Step(j)
    BY <2>2, UploadsStep
  <2> QED
    BY <2>1, <2>2 DEF Next, Done
<1>3. UploadsOK => UploadRemoved
  BY DEF UploadsOK, UploadRemoved, Ended, Staged
<1> QED
  BY <1>1, <1>2, <1>3, Typing, PTL DEF Spec

-------------------------------------------------------------------------------
(* Which files a step reaches.                                             *)

\* The files that a job may find: at its target and, if it converts into a
\* temporary file, at the name of that.
Found(j) ==
    {names[plan[j].target]} \cup (IF UsesTemp(j) THEN {names[Temp(j)]} ELSE {})

\* A file is written to only through an open handle, by its receiver, or by
\* being opened.
LEMMA DataFrame ==
    ASSUME TypeOK, NEW j \in Jobs, Step(j), NEW f \in FileIds,
           f # handle[j], f # Created(j), f \notin Found(j),
           U_Receive(j) => f # Received(j)
    PROVE  data'[f] = data[f]
BY DEF Step, U_Receive, U_ReceiveFails, U_Replace, U_OpenAppend, U_Copy,
   U_CopyEnds, U_OpenTemp, U_WriteTemp, U_RenameTemp, U_Unlink, U_IoError,
   U_Except, OpensToWrite, OpensToAppend, Found, Received, TypeOK

LEMMA HandleFrame ==
    ASSUME TypeOK, NEW j \in Jobs, Step(j)
    PROVE  /\ \A k \in Jobs : k # j => handle'[k] = handle[k]
           /\ handle'[j] \in {handle[j], NoFile, Created(j)} \cup Found(j)
<1> USE DEF TypeOK
<1>1. CASE U_OpenAppend(j) \/ U_OpenTemp(j)
  BY <1>1 DEF U_OpenAppend, U_OpenTemp, OpensToWrite, OpensToAppend, Found
<1>2. CASE ~U_OpenAppend(j) /\ ~U_OpenTemp(j)
  BY <1>2 DEF Step, U_Receive, U_ReceiveFails, U_Replace, U_Copy,
     U_CopyEnds, U_WriteTemp, U_RenameTemp, U_Unlink, U_IoError, U_Except
<1> QED
  BY <1>1, <1>2

\* What a step puts under the name of a target or of a temporary file.
LEMMA NamesTo ==
    ASSUME TypeOK, NEW j \in Jobs, Step(j), NEW n \in Targets \cup Temps
    PROVE  \/ names'[n] \in {names[n], NoFile, Created(j)}
           \/ U_Replace(j) /\ names'[n] = names[Upload(j)] /\ pc'[j] = "success"
           \/ U_RenameTemp(j) /\ names'[n] = names[Temp(j)]
<1>0. n \in Names /\ n # Upload(j)
  BY NameFacts DEF Names
<1> USE <1>0 DEF TypeOK
<1>1. CASE U_Replace(j)
  BY <1>1, NameFacts DEF U_Replace, Goto
<1>2. CASE U_RenameTemp(j)
  BY <1>2, NameFacts DEF U_RenameTemp, RenamesTemp
<1>3. CASE U_OpenAppend(j) \/ U_OpenTemp(j)
  BY <1>3 DEF U_OpenAppend, U_OpenTemp, OpensToWrite, OpensToAppend
<1>4. CASE ~U_Replace(j) /\ ~U_RenameTemp(j) /\ ~U_OpenAppend(j) /\ ~U_OpenTemp(j)
  BY <1>4 DEF Step, U_Receive, U_ReceiveFails, U_Copy, U_CopyEnds, U_WriteTemp,
     U_Unlink, U_IoError, U_Except
<1> QED
  BY <1>1, <1>2, <1>3, <1>4

\* Nobody but its owner touches a staged upload's name.
LEMMA UploadFrame ==
    ASSUME TypeOK, NEW j \in Jobs, Step(j), NEW k \in Jobs, k # j
    PROVE  names'[Upload(k)] = names[Upload(k)]
<1>1. /\ Upload(k) \in Names /\ Upload(k) # Upload(j)
      /\ Upload(k) # plan[j].target /\ Upload(k) # Temp(j)
  BY NameFacts
<1> QED
  BY <1>1, NamesFrame

-------------------------------------------------------------------------------
(* A received file stays as it was received until its job succeeds.        *)

LEMMA ReceivedStep ==
    ASSUME TypeOK, CopyOK, ReceivedOK, NEW j \in Jobs, Step(j)
    PROVE  ReceivedOK'
<1> SUFFICES ASSUME NEW k \in Jobs
             PROVE  /\ pc'[k] \in Staged =>
                          /\ names'[Upload(k)'] = Received(k)
                          /\ data'[Received(k)] = plan'[k].content
                    /\ pc'[k] # "success" =>
                          /\ \A i \in Jobs : handle'[i] # Received(k)
                          /\ \A n \in Targets \cup Temps : names'[n] # Received(k)
  BY DEF ReceivedOK, Received
<1>0. /\ plan' = plan /\ Upload(k)' = Upload(k)
      /\ k # j => pc'[k] = pc[k]
      /\ pc'[k] # "success" => pc[k] # "success"
  <2>1. plan' = plan /\ (k # j => pc'[k] = pc[k])
    BY PlacesFrame
  <2>2. pc[j] # "success"
    BY DEF Step, U_Receive, U_ReceiveFails, U_Replace, U_OpenAppend, U_Copy,
       U_CopyEnds, U_OpenTemp, U_WriteTemp, U_RenameTemp, U_Unlink, U_IoError,
       U_Except
  <2> QED
    BY <2>1, <2>2 DEF Upload
<1>1. ASSUME pc[k] # "success"
      PROVE  /\ \A i \in Jobs : handle[i] # Received(k)
             /\ \A n \in Targets \cup Temps : names[n] # Received(k)
             /\ Received(k) \notin Found(j)
  BY <1>1, NameFacts DEF ReceivedOK, Found
<1>2. ASSUME pc'[k] # "success"
      PROVE  /\ \A i \in Jobs : handle'[i] # Received(k)
             /\ \A n \in Targets \cup Temps : names'[n] # Received(k)
  <2>1. pc[k] # "success"
    BY <1>0, <1>2
  <2>2. Received(k) # NoFile /\ Received(k) # Created(j)
    BY FileFacts
  <2>3. \A i \in Jobs : handle'[i] # Received(k)
    BY <1>1, <2>1, <2>2, HandleFrame
  <2>4. ASSUME U_Replace(j), pc'[j] = "success"
        PROVE  names[Upload(j)] # Received(k)
    <3>1. names[Upload(j)] = Received(j) /\ k # j
      BY <1>2, <2>4 DEF U_Replace, ReceivedOK, Staged
    <3> QED
      BY <3>1, FileFacts
  <2>5. names[Temp(j)] # Received(k)
    BY <1>1, <2>1, NameFacts
  <2>6. ASSUME NEW n \in Targets \cup Temps
        PROVE  names'[n] # Received(k)
    BY <1>1, <2>1, <2>2, <2>4, <2>5, NamesTo
  <2> QED
    BY <2>3, <2>6
<1>3. ASSUME pc'[k] \in Staged
      PROVE  names'[Upload(k)] = Received(k) /\ data'[Received(k)] = plan[k].content
  <2>1. CASE U_Receive(k) /\ k = j
    BY <2>1, NameFacts, FileFacts DEF U_Receive, Received, TypeOK
  <2>2. CASE ~(U_Receive(k) /\ k = j)
    <3>1. /\ pc[k] \in Staged
          /\ k = j => names'[Upload(k)] = names[Upload(k)]
      <4>1. CASE k # j
        BY <1>0, <1>3, <4>1
      <4>2. CASE k = j
        <5>1. ~U_Receive(j) /\ ~U_ReceiveFails(j) /\ ~U_Replace(j) /\ ~U_Unlink(j)
              /\ ~U_IoError(j) /\ ~U_Except(j)
          BY <1>3, <2>2, <4>2 DEF U_ReceiveFails, U_Replace, U_Unlink, U_IoError,
             U_Except, Goto, TypeOK, Staged
        <5>2. /\ Upload(j) \in Names /\ Upload(j) # plan[j].target
              /\ Upload(j) # Temp(j)
          BY NameFacts
        <5>3. U_OpenAppend(j) \/ U_Copy(j) \/ U_CopyEnds(j) \/ U_OpenTemp(j)
              \/ U_WriteTemp(j) \/ U_RenameTemp(j)
          BY <5>1 DEF Step
        <5> QED
          BY <4>2, <5>2, <5>3 DEF U_OpenAppend, U_Copy, U_CopyEnds, U_OpenTemp,
             U_WriteTemp, U_RenameTemp, RenamesTemp, OpensToWrite, OpensToAppend,
             Staged, TypeOK
      <4> QED
        BY <4>1, <4>2
    <3>2. /\ names[Upload(k)] = Received(k)
          /\ data[Received(k)] = plan[k].content
          /\ pc[k] # "success"
      BY <3>1 DEF ReceivedOK, Staged
    <3>3. names'[Upload(k)] = Received(k)
      BY <3>1, <3>2, UploadFrame
    <3>4. data'[Received(k)] = data[Received(k)]
      <4>1. /\ Received(k) \in FileIds /\ Received(k) # handle[j]
            /\ Received(k) # Created(j) /\ Received(k) \notin Found(j)
        BY <1>1, <3>2, FileFacts
      <4>2. U_Receive(j) => Received(k) # Received(j)
        BY <2>2, FileFacts
      <4> QED
        BY <4>1, <4>2, DataFrame
    <3> QED
      BY <3>2, <3>3, <3>4
  <2> QED
    BY <2>1, <2>2
<1> QED
  BY <1>0, <1>2, <1>3

(* Until its job succeeds, a received file is found and open nowhere but   *)
(* at its staging name, whatever files other uploads use.                  *)
THEOREM ReceivedKept == Spec => []ReceivedOK
<1>1. Init => ReceivedOK
  <2> SUFFICES ASSUME Init PROVE ReceivedOK
    OBVIOUS
  <2>1. \A j \in Jobs, n \in Targets \cup Temps : names[n] # Received(j)
    BY FileFacts DEF Init, Names
  <2> QED
    BY <2>1, FileFacts DEF Init, ReceivedOK, Staged
<1>2. TypeOK /\ CopyOK /\ ReceivedOK /\ [Next]_vars => ReceivedOK'
  <2> SUFFICES ASSUME TypeOK, CopyOK, ReceivedOK, [Next]_vars PROVE ReceivedOK'
    OBVIOUS
  <2>1. CASE UNCHANGED vars
    BY <2>1 DEF vars, ReceivedOK, Received, Upload
  <2>2. CASE \E j \in Jobs : Step(j)
    BY <2>2, ReceivedStep
  <2> QED
    BY <2>1, <2>2 DEF Next, Done
<1> QED
  BY <1>1, <1>2, Typing, PTL DEF Spec

-------------------------------------------------------------------------------
(* A temporary file of its own: what a job converts into is reached by     *)
(* nobody else between its creation and its rename.                        *)

Unrenamed == {"receive", "install", "write", "rename"}

\* Only a job that uses a temporary file touches the name of one.
LEMMA TempFrame ==
    ASSUME TypeOK, CopyOK, NEW j \in Jobs, Step(j), NEW n \in Temps,
           UsesTemp(j) => n # Temp(j)
    PROVE  names'[n] = names[n]
<1>1. n \in Names /\ n # Upload(j) /\ n # plan[j].target
  BY NameFacts DEF Names
<1>2. CASE n # Temp(j)
  BY <1>1, <1>2, NamesFrame
<1>3. CASE ~UsesTemp(j)
  <2>1. ~U_OpenTemp(j) /\ ~U_WriteTemp(j) /\ ~U_RenameTemp(j)
    BY <1>3 DEF U_OpenTemp, U_WriteTemp, U_RenameTemp, CopyOK
  <2> QED
    BY <1>1, <2>1 DEF Step, U_Receive, U_ReceiveFails, U_Replace, U_OpenAppend,
       U_Copy, U_CopyEnds, U_Unlink, U_IoError, U_Except, OpensToAppend, TypeOK
<1> QED
  BY <1>2, <1>3

\* Another job neither finds the file nor has it open.
LEMMA NotFound ==
    ASSUME TypeOK, CopyOK, TempsApart, CreatedOK, NEW j \in Jobs,
           NEW k \in Jobs, k # j, pc[k] \in Unrenamed
    PROVE  Created(k) # handle[j] /\ Created(k) \notin Found(j)
<1>1. /\ plan[j].target \in Targets /\ Temp(j) \in Temps
      /\ plan[j].target # Temp(k)
  BY NameFacts
<1>2. pc[k] \in {"write", "rename"} => UsesTemp(k)
  BY DEF CopyOK
<1>3. CASE pc[k] \in {"receive", "install"}
  BY <1>1, <1>3 DEF CreatedOK, Found
<1>4. CASE pc[k] \in {"write", "rename"}
  BY <1>1, <1>2, <1>4 DEF CreatedOK, Found, TempsApart
<1> QED
  BY <1>3, <1>4 DEF Unrenamed

LEMMA CreatedOther ==
    ASSUME TypeOK, CopyOK, ReceivedOK, TempsApart, CreatedOK,
           NEW j \in Jobs, Step(j), NEW k \in Jobs, k # j, pc[k] \in Unrenamed
    PROVE  /\ \A i \in Jobs : handle[i] # Created(k) => handle'[i] # Created(k)
           /\ \A n \in Targets \cup Temps : names[n] # Created(k) => names'[n] # Created(k)
           /\ data'[Created(k)] = data[Created(k)]
<1>1. /\ Created(k) \in FileIds /\ Created(k) # NoFile
      /\ Created(k) # Created(j) /\ Created(k) # Received(j)
  BY FileFacts
<1>2. Created(k) # handle[j] /\ Created(k) \notin Found(j)
  BY NotFound
<1>3. handle'[j] # Created(k)
  BY <1>1, <1>2, HandleFrame
<1>4. \A i \in Jobs : handle[i] # Created(k) => handle'[i] # Created(k)
  BY <1>3, HandleFrame
<1>5. data'[Created(k)] = data[Created(k)]
  BY <1>1, <1>2, DataFrame
<1>6. U_Replace(j) /\ pc'[j] = "success" => names[Upload(j)] = Received(j)
  BY DEF U_Replace, ReceivedOK, Staged
<1>7. U_RenameTemp(j) => names[Temp(j)] # Created(k)
  BY <1>2 DEF U_RenameTemp, CopyOK, Found
<1>8. ASSUME NEW n \in Targets \cup Temps, names[n] # Created(k)
      PROVE  names'[n] # Created(k)
  BY <1>1, <1>6, <1>7, <1>8, NamesTo
<1> QED
  BY <1>4, <1>5, <1>8

\* The places of a job that has just opened its temporary file, or goes on
\* with it.
LEMMA OwnPlace ==
    ASSUME TypeOK, NEW j \in Jobs, Step(j)
    PROVE  /\ pc'[j] \in {"receive", "install"} => U_Receive(j)
           /\ pc'[j] = "write" => U_OpenTemp(j) /\ Readable(j)
           /\ pc'[j] = "rename" => U_WriteTemp(j)
BY DEF Step, U_Receive, U_ReceiveFails, U_Replace, U_OpenAppend, U_Copy,
   U_CopyEnds, U_OpenTemp, U_WriteTemp, U_RenameTemp, U_Unlink, U_IoError,
   U_Except, Goto, TypeOK

LEMMA CreatedStep ==
    ASSUME TypeOK, CopyOK, ReceivedOK, TempsApart, CreatedOK, ConvertedOK,
           NEW j \in Jobs, Step(j)
    PROVE  CreatedOK'
<1> SUFFICES ASSUME NEW k \in Jobs
             PROVE  /\ pc'[k] \in {"receive", "install"} =>
                          /\ \A i \in Jobs : handle'[i] # Created(k)
                          /\ \A n \in Targets \cup Temps : names'[n] # Created(k)
                    /\ pc'[k] \in {"write", "rename"} =>
                          /\ \A i \in Jobs : i # k => handle'[i] # Created(k)
                          /\ \A n \in Targets \cup Temps :
                                n # Temp(k) => names'[n] # Created(k)
  BY PlacesFrame DEF CreatedOK, Created, Temp
<1>1. CASE k # j
  <2>1. pc'[k] = pc[k]
    BY <1>1, PlacesFrame
  <2> QED
    BY <1>1, <2>1, CreatedOther DEF CreatedOK, Unrenamed
<1>2. CASE k = j
  <2>1. CASE U_Receive(j)
    <3>1. \A n \in Targets \cup Temps : names'[n] = names[n]
      BY <2>1, NameFacts DEF U_Receive, TypeOK
    <3>2. handle' = handle /\ pc[j] = "receive"
      BY <2>1 DEF U_Receive
    <3>3. pc'[j] \notin {"write", "rename"}
      BY <2>1 DEF U_Receive, Goto, TypeOK
    <3> QED
      BY <1>2, <3>1, <3>2, <3>3 DEF CreatedOK
  <2>2. CASE U_OpenTemp(j) /\ Readable(j)
    <3>1. \A n \in Targets \cup Temps : n # Temp(j) => names'[n] = names[n]
      <4>1. Targets \cup Temps \subseteq Names
        BY DEF Names
      <4>2. PICK file \in FileIds \cup {NoFile} :
               names' = [names EXCEPT ![Temp(j)] = file]
        <5>1. Temp(j) \in Names /\ Created(j) \in FileIds
          BY NameFacts, FileFacts
        <5> QED
          BY <2>2, <5>1 DEF U_OpenTemp, OpensToWrite, TypeOK
      <4> QED
        BY <4>1, <4>2 DEF TypeOK
    <3>2. \A i \in Jobs : i # j => handle'[i] = handle[i]
      BY HandleFrame
    <3>3. pc[j] = "install" /\ pc'[j] = "write"
      BY <2>2 DEF U_OpenTemp, Goto, TypeOK
    <3> QED
      BY <1>2, <3>1, <3>2, <3>3 DEF CreatedOK
  <2>3. CASE U_WriteTemp(j)
    <3>1. names' = names /\ pc[j] = "write" /\ pc'[j] = "rename"
      BY <2>3 DEF U_WriteTemp, Goto, TypeOK
    <3>2. \A i \in Jobs : i # j => handle'[i] = handle[i]
      BY HandleFrame
    <3> QED
      BY <1>2, <3>1, <3>2 DEF CreatedOK
  <2> QED
    BY <1>2, <2>1, <2>2, <2>3, OwnPlace
<1> QED
  BY <1>1, <1>2

\* What the job reads from its upload is what it wants to store.
LEMMA TextWanted ==
    ASSUME TypeOK, ReceivedOK, NEW j \in Jobs, pc[j] = "install",
           ReadsUpload(j), plan' = plan
    PROVE  text'[j] = Wanted(j) /\ Wanted(j)' = Wanted(j)
<1>1. Read(Upload(j)) = plan[j].content
  BY FileFacts DEF ReceivedOK, Staged, Read
<1>2. text'[j] = Stored(j, plan[j].content)
  BY <1>1 DEF ReadsUpload, TypeOK
<1> QED
  BY <1>2 DEF Wanted, Stored

\* ... and it is a content that can be written.
LEMMA WantedType ==
    ASSUME TypeOK, NEW j \in Jobs
    PROVE  Wanted(j) \in Seq(Pieces)
BY PlanFields, StoredType DEF Wanted

LEMMA ConvertedStep ==
    ASSUME TypeOK, CopyOK, ReceivedOK, TempsApart, CreatedOK, ConvertedOK,
           NEW j \in Jobs, Step(j)
    PROVE  ConvertedOK'
<1>0. plan' = plan
  BY PlacesFrame
<1> SUFFICES ASSUME NEW k \in Jobs, UsesTemp(k)
             PROVE  /\ pc'[k] \in {"receive", "install"} => names'[Temp(k)] = NoFile
                    /\ pc'[k] \in {"write", "rename"} => names'[Temp(k)] = Created(k)
                    /\ pc'[k] = "write" =>
                          /\ handle'[k] = Created(k) /\ data'[Created(k)] = <<>>
                          /\ text'[k] = Wanted(k)
                    /\ pc'[k] = "rename" => data'[Created(k)] = Wanted(k)
  BY <1>0 DEF ConvertedOK, UsesTemp, Created, Temp, Wanted, Stored
<1>1. CASE k # j
  <2>1. pc'[k] = pc[k] /\ handle'[k] = handle[k]
    BY <1>1, PlacesFrame, HandleFrame
  <2>2. names'[Temp(k)] = names[Temp(k)]
    BY <1>1, TempFrame, NameFacts DEF TempsApart
  <2>3. text'[k] = text[k]
    BY <1>1 DEF Step, U_Receive, U_ReceiveFails, U_Replace, U_OpenAppend, U_Copy,
       U_CopyEnds, U_OpenTemp, U_WriteTemp, U_RenameTemp, U_Unlink, U_IoError,
       U_Except, ReadsUpload, TypeOK
  <2>4. pc[k] \in Unrenamed => data'[Created(k)] = data[Created(k)]
    BY <1>1, CreatedOther
  <2> QED
    BY <2>1, <2>2, <2>3, <2>4 DEF ConvertedOK, Unrenamed
<1>2. CASE k = j
  <2>0. /\ Temp(j) \in Names /\ Temp(j) # Upload(j)
        /\ Created(j) \in FileIds /\ Created(j) # NoFile
    BY NameFacts, FileFacts
  <2>1. CASE U_Receive(j)
    <3>1. names'[Temp(j)] = names[Temp(j)] /\ pc[j] = "receive"
      BY <2>0, <2>1 DEF U_Receive, TypeOK
    <3>2. pc'[j] \notin {"write", "rename"}
      BY <2>1 DEF U_Receive, Goto, TypeOK
    <3> QED
      BY <1>2, <3>1, <3>2 DEF ConvertedOK
  <2>2. CASE U_OpenTemp(j) /\ Readable(j)
    <3>1. pc[j] = "install" /\ names[Temp(j)] = NoFile /\ pc'[j] = "write"
      BY <1>2, <2>2 DEF U_OpenTemp, ConvertedOK, Goto, TypeOK
    <3>2. /\ names'[Temp(j)] = Created(j) /\ handle'[j] = Created(j)
          /\ data'[Created(j)] = <<>>
      BY <2>0, <2>2, <3>1 DEF U_OpenTemp, OpensToWrite, TypeOK
    <3>3. text'[j] = Wanted(j)
      BY <1>0, <2>2, <3>1, TextWanted DEF U_OpenTemp
    <3> QED
      BY <1>2, <3>1, <3>2, <3>3
  <2>3. CASE U_WriteTemp(j)
    <3>1. pc[j] = "write" /\ pc'[j] = "rename" /\ names' = names
      BY <2>3 DEF U_WriteTemp, Goto, TypeOK
    <3>2. /\ names[Temp(j)] = Created(j) /\ handle[j] = Created(j)
          /\ data[Created(j)] = <<>> /\ text[j] = Wanted(j)
      BY <1>2, <3>1 DEF ConvertedOK
    <3>3. data'[Created(j)] = Overwrites(<<>>, Wanted(j))
      BY <2>0, <2>3, <3>2 DEF U_WriteTemp, TypeOK
    <3>4. data'[Created(j)] = Wanted(j)
      BY <3>3, OverwritesEmpty, WantedType
    <3> QED
      BY <1>2, <3>1, <3>2, <3>4
  <2> QED
    BY <1>2, <2>1, <2>2, <2>3, OwnPlace
<1> QED
  BY <1>1, <1>2

-------------------------------------------------------------------------------
(* The result of an upload.                                                *)

LEMMA StoredStep ==
    ASSUME TypeOK, CopyOK, ReceivedOK, ConvertedOK, StoredOK,
           NEW j \in Jobs, Step(j)
    PROVE  StoredOK'
<1>0. plan' = plan
  BY PlacesFrame
<1> SUFFICES ASSUME NEW k \in Jobs, ~plan[k].append
             PROVE  /\ pc'[k] \in Unrenamed => stored'[k] = NoFile
                    /\ pc'[k] \in {"except", "failed", "raised"} =>
                          \/ stored'[k] = NoFile
                          \/ plan[k].ascii /\ IoErrors /\ stored'[k] = Wanted(k)
                    /\ pc'[k] \in {"unlink", "success"} => stored'[k] = Wanted(k)
  BY <1>0 DEF StoredOK, Unrenamed, Wanted, Stored
<1>1. CASE k # j
  BY <1>1, PlacesFrame DEF StoredOK, Unrenamed
<1>2. CASE k = j
  <2> USE <1>2 DEF TypeOK, Goto, Unrenamed
  <2>1. CASE U_Replace(j)
    <3>1. CASE IsDirectory(j) \/ names[Upload(j)] = NoFile
      BY <2>1, <3>1 DEF U_Replace, StoredOK
    <3>2. CASE ~(IsDirectory(j) \/ names[Upload(j)] = NoFile)
      <4>1. Read(Upload(j)) = Wanted(j)
        BY <2>1, FileFacts DEF U_Replace, ReceivedOK, Staged, Read, Wanted, Stored
      <4> QED
        BY <2>1, <3>2, <4>1 DEF U_Replace
    <3> QED
      BY <3>1, <3>2
  <2>2. CASE U_RenameTemp(j)
    <3>1. CASE IsDirectory(j) \/ names[Temp(j)] = NoFile
      BY <2>2, <3>1 DEF U_RenameTemp, StoredOK
    <3>2. CASE ~(IsDirectory(j) \/ names[Temp(j)] = NoFile)
      <4>1. UsesTemp(j) /\ pc[j] = "rename"
        BY <2>2 DEF U_RenameTemp, CopyOK
      <4>2. Read(Temp(j)) = Wanted(j)
        BY <3>2, <4>1 DEF ConvertedOK, Read
      <4> QED
        BY <2>2, <3>2, <4>2 DEF U_RenameTemp
    <3> QED
      BY <3>1, <3>2
  <2>3. CASE U_Receive(j) \/ U_ReceiveFails(j) \/ U_OpenTemp(j) \/ U_WriteTemp(j)
    BY <2>3 DEF U_Receive, U_ReceiveFails, U_OpenTemp, U_WriteTemp, StoredOK
  <2>4. CASE U_OpenAppend(j) \/ U_Copy(j) \/ U_CopyEnds(j)
    BY <2>4 DEF U_OpenAppend, U_Copy, U_CopyEnds, CopyOK
  <2>5. CASE U_Unlink(j) \/ U_Except(j)
    BY <2>5 DEF U_Unlink, U_Except, StoredOK
  <2>6. CASE U_IoError(j)
    BY <2>6 DEF U_IoError, StoredOK, CopyOK, UsesTemp
  <2> QED
    BY <2>1, <2>2, <2>3, <2>4, <2>5, <2>6 DEF Step
<1> QED
  BY <1>1, <1>2

(* As long as no two ASCII uploads have one temporary file, what a job     *)
(* works on is its own, for any number of uploads side by side.            *)
THEOREM Invariance ==
    ASSUME ~SharedTemps
    PROVE  Spec => []TempInv
<1>1. Init => TempInv
  <2> SUFFICES ASSUME Init PROVE TempInv
    OBVIOUS
  <2>1. \A j \in Jobs, n \in Targets \cup Temps : names[n] # Created(j)
    BY FileFacts DEF Init, Names
  <2>2. \A j \in Jobs : Temp(j) \in Names /\ Temp(j) \notin Targets
    BY TypeInit, NameFacts
  <2>3. CreatedOK
    BY <2>1, FileFacts DEF Init, CreatedOK
  <2>4. ConvertedOK
    BY <2>2 DEF Init, ConvertedOK
  <2>5. TempsApart /\ StoredOK
    BY DEF Init, TempsApart, StoredOK
  <2> QED
    BY <2>3, <2>4, <2>5 DEF TempInv
<1>2. TypeOK /\ CopyOK /\ ReceivedOK /\ TempInv /\ [Next]_vars => TempInv'
  <2> SUFFICES ASSUME TypeOK, CopyOK, ReceivedOK, TempInv, [Next]_vars
               PROVE  TempInv'
    OBVIOUS
  <2>1. CASE UNCHANGED vars
    BY <2>1 DEF vars, TempInv, CreatedOK, ConvertedOK, StoredOK,
       TempsApart, Created, Temp, UsesTemp, Wanted, Stored
  <2>2. ASSUME NEW j \in Jobs, Step(j) PROVE TempInv'
    <3>1. TempsApart'
      BY <2>2, PlacesFrame DEF TempInv, TempsApart, UsesTemp, Temp
    <3> QED
      BY <2>2, <3>1, CreatedStep, ConvertedStep, StoredStep DEF TempInv
  <2> QED
    BY <2>1, <2>2 DEF Next, Done
<1> QED
  BY <1>1, <1>2, Typing, ReceivedKept, PTL DEF Spec

(* docs/integration-guide.md:225 and :229: as long as no two ASCII uploads *)
(* have one temporary file, success means that the upload was put in place *)
(* as it was received, and failure that nothing was, for any number of     *)
(* uploads side by side.                                                   *)
THEOREM TrueOutcome ==
    ASSUME ~SharedTemps
    PROVE  Spec => []OutcomeIsTrue
<1>1. TempInv => OutcomeIsTrue
  BY DEF TempInv, StoredOK, OutcomeIsTrue
<1> QED
  BY <1>1, Invariance, PTL
===============================================================================
