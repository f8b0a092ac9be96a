------------------------ MODULE UploadStoreChangeProofs ------------------------
(***************************************************************************)
(* How the files of UploadStore change, for any number of uploads of any   *)
(* content: only by becoming the whole of an upload, or by growing by the  *)
(* next piece of one, as long as no two ASCII uploads have one temporary   *)
(* file; and what appends add up to.                                       *)
(***************************************************************************)
EXTENDS UploadStoreProofs, SequenceTheorems

-------------------------------------------------------------------------------
(* A file is of the target at which it was found, or of the upload that    *)
(* brought it: no file is at two targets, and none is open for another.    *)

Owner(f) == IF f[1] = "old" THEN f[2] ELSE plan[f[2]].target

OwnerOK ==
    /\ \A t \in Targets : names[t] # NoFile => Owner(names[t]) = t
    /\ \A j \in Jobs : pc[j] = "copy" => Owner(handle[j]) = plan[j].target

TextOK == \A j \in Jobs : pc[j] = "copy" => text[j] = Wanted(j)

\* Until a job opens it, the file that it may create is nobody's.
FreshOK ==
    \A j \in Jobs : pc[j] \in {"receive", "install"} =>
        /\ data[Created(j)] = <<>>
        /\ \A k \in Jobs : handle[k] # Created(j)
        /\ \A n \in Targets \cup Temps : names[n] # Created(j)

ChangeInv == OwnerOK /\ TextOK /\ FreshOK

BaseInv == TypeOK /\ CopyOK /\ ReceivedOK

StoreInv == BaseInv /\ TempInv

LEMMA Owners ==
    ASSUME NEW j \in Jobs
    PROVE  Owner(Received(j)) = plan[j].target /\ Owner(Created(j)) = plan[j].target
BY DEF Owner, Received, Created

LEMMA FreshInit == Init => FreshOK
<1>1. Targets \cup Temps \subseteq Names
  BY DEF Names
<1> SUFFICES ASSUME Init, NEW j \in Jobs
             PROVE  /\ data[Created(j)] = <<>>
                    /\ \A k \in Jobs : handle[k] # Created(j)
                    /\ \A n \in Targets \cup Temps : names[n] # Created(j)
  BY DEF FreshOK
<1>2. Created(j) \in FileIds /\ Created(j) # NoFile /\ Created(j)[1] # "old"
  BY FileFacts DEF Created
<1>3. data[Created(j)] = <<>>
  BY <1>2 DEF Init
<1>4. \A n \in Targets \cup Temps : names[n] # Created(j)
  BY <1>1, <1>2, FileFacts DEF Init
<1> QED
  BY <1>2, <1>3, <1>4 DEF Init

LEMMA ChangeInit == Init => ChangeInv
<1> SUFFICES ASSUME Init PROVE ChangeInv
  OBVIOUS
<1>1. Targets \subseteq Names
  BY DEF Names
<1>2. OwnerOK
  BY <1>1 DEF Init, OwnerOK, Owner
<1>3. FreshOK
  BY FreshInit
<1> QED
  BY <1>2, <1>3 DEF Init, TextOK, ChangeInv

\* What a job renames into place is its own file.
LEMMA Renamed ==
    ASSUME StoreInv, NEW j \in Jobs
    PROVE  /\ U_Replace(j) => names[Upload(j)] = Received(j)
           /\ U_RenameTemp(j) => names[Temp(j)] = Created(j)
                                 /\ data[Created(j)] = Wanted(j)
BY DEF StoreInv, BaseInv, TempInv, U_Replace, U_RenameTemp, ReceivedOK, ConvertedOK,
   CopyOK, Staged

\* Of the targets, a job touches the name of its own.
LEMMA TargetFrame ==
    ASSUME TypeOK, NEW j \in Jobs, Step(j), NEW t \in Targets, t # plan[j].target
    PROVE  names'[t] = names[t]
<1>1. t \in Names /\ t # Upload(j) /\ t # Temp(j)
  BY NameFacts, NameAssumption DEF Names
<1> QED
  BY <1>1, NamesFrame

LEMMA OwnerStep ==
    ASSUME StoreInv, OwnerOK, NEW j \in Jobs, Step(j)
    PROVE  OwnerOK'
<1>0. /\ TypeOK /\ CopyOK /\ plan' = plan /\ plan[j].target \in Targets
  BY PlacesFrame, NameFacts DEF StoreInv, BaseInv
<1>1. ASSUME NEW t \in Targets, names'[t] # NoFile
      PROVE  Owner(names'[t]) = t
  <2>1. CASE t # plan[j].target
    BY <1>0, <1>1, <2>1, TargetFrame DEF OwnerOK, TypeOK, Owner
  <2>2. CASE t = plan[j].target
    <3>1. names'[t] \in {names[t], Created(j), Received(j)}
      BY <1>0, <1>1, NamesTo, Renamed
    <3> QED
      BY <1>0, <1>1, <2>2, <3>1, Owners DEF OwnerOK, Owner
  <2> QED
    BY <2>1, <2>2
<1>2. ASSUME NEW k \in Jobs, pc'[k] = "copy"
      PROVE  Owner(handle'[k]) = plan[k].target
  <2>1. CASE k # j
    BY <1>0, <1>2, <2>1, PlacesFrame, HandleFrame DEF OwnerOK, Owner
  <2>2. CASE k = j
    <3>1. CASE U_OpenAppend(j)
      <4>1. handle'[j] = IF names[plan[j].target] = NoFile THEN Created(j)
                         ELSE names[plan[j].target]
        BY <1>0, <1>2, <2>2, <3>1 DEF U_OpenAppend, OpensToAppend, Goto, TypeOK
      <4> QED
        BY <1>0, <2>2, <4>1, Owners DEF OwnerOK, Owner
    <3>2. CASE U_Copy(j)
      BY <1>0, <2>2, <3>2 DEF U_Copy, OwnerOK, Owner
    <3>3. U_OpenAppend(j) \/ U_Copy(j)
      BY <1>0, <1>2, <2>2 DEF Step, U_Receive, U_ReceiveFails, U_Replace,
         U_CopyEnds, U_OpenTemp, U_WriteTemp, U_RenameTemp, U_Unlink, U_IoError,
         U_Except, Goto, TypeOK
    <3> QED
      BY <3>1, <3>2, <3>3
  <2> QED
    BY <2>1, <2>2
<1> QED
  BY <1>0, <1>1, <1>2 DEF OwnerOK, Owner

LEMMA TextStep ==
    ASSUME TypeOK, CopyOK, ReceivedOK, TextOK, NEW j \in Jobs, Step(j)
    PROVE  TextOK'
<1>0. /\ plan' = plan
      /\ \A k \in Jobs : Wanted(k)' = Wanted(k)
  BY PlacesFrame DEF Wanted, Stored
<1> SUFFICES ASSUME NEW k \in Jobs, pc'[k] = "copy"
             PROVE  text'[k] = Wanted(k)
  BY <1>0 DEF TextOK
<1>1. CASE k # j
  <2>1. text'[k] = text[k]
    BY <1>0, <1>1 DEF Step, U_Receive, U_ReceiveFails, U_Replace, U_OpenAppend,
       U_Copy, U_CopyEnds, U_OpenTemp, U_WriteTemp, U_RenameTemp, U_Unlink,
       U_IoError, U_Except, ReadsUpload, TypeOK
  <2> QED
    BY <1>0, <1>1, <2>1, PlacesFrame DEF TextOK
<1>2. CASE k = j
  <2>1. CASE U_OpenAppend(j)
    <3>1. pc[j] = "install" /\ ReadsUpload(j)
      BY <1>0, <1>2, <2>1 DEF U_OpenAppend, Goto, TypeOK
    <3> QED
      BY <1>0, <1>2, <3>1, TextWanted
  <2>2. CASE U_Copy(j)
    BY <1>2, <2>2 DEF U_Copy, TextOK
  <2>3. U_OpenAppend(j) \/ U_Copy(j)
    BY <1>0, <1>2 DEF Step, U_Receive, U_ReceiveFails, U_Replace,
       U_CopyEnds, U_OpenTemp, U_WriteTemp, U_RenameTemp, U_Unlink, U_IoError,
       U_Except, Goto, TypeOK
  <2> QED
    BY <2>1, <2>2, <2>3
<1> QED
  BY <1>1, <1>2

LEMMA FreshStep ==
    ASSUME BaseInv, FreshOK, NEW j \in Jobs, Step(j)
    PROVE  FreshOK'
<1>0. TypeOK /\ CopyOK /\ ReceivedOK
  BY DEF BaseInv
<1> SUFFICES ASSUME NEW k \in Jobs, pc'[k] \in {"receive", "install"}
             PROVE  /\ data'[Created(k)] = <<>>
                    /\ \A i \in Jobs : handle'[i] # Created(k)
                    /\ \A n \in Targets \cup Temps : names'[n] # Created(k)
  BY DEF FreshOK, Created
<1>1. CASE k # j
  <2>1. /\ pc[k] \in {"receive", "install"}
        /\ Created(k) \in FileIds /\ Created(k) # NoFile
        /\ Created(k) # Created(j) /\ Created(k) # Received(j)
    BY <1>0, <1>1, PlacesFrame, FileFacts
  <2>2. /\ data[Created(k)] = <<>>
        /\ \A i \in Jobs : handle[i] # Created(k)
        /\ \A n \in Targets \cup Temps : names[n] # Created(k)
    BY <2>1 DEF FreshOK
  <2>3. Created(k) \notin Found(j) /\ names[Temp(j)] # Created(k)
    BY <1>0, <2>2, NameFacts DEF Found
  <2>4. data'[Created(k)] = data[Created(k)]
    BY <1>0, <2>1, <2>2, <2>3, DataFrame
  <2>5. \A i \in Jobs : handle'[i] # Created(k)
    BY <1>0, <2>1, <2>2, <2>3, HandleFrame
  <2>6. U_Replace(j) /\ pc'[j] = "success" => names[Upload(j)] = Received(j)
    BY <1>0 DEF U_Replace, ReceivedOK, Staged
  <2>7. ASSUME NEW n \in Targets \cup Temps
        PROVE  names'[n] # Created(k)
    BY <1>0, <2>1, <2>2, <2>3, <2>6, NamesTo
  <2> QED
    BY <2>2, <2>4, <2>5, <2>7
<1>2. CASE k = j
  <2>1. U_Receive(j) /\ pc[j] = "receive"
    BY <1>0, <1>2, OwnPlace DEF U_Receive
  <2>2. \A n \in Targets \cup Temps : names'[n] = names[n]
    BY <1>0, <2>1, NameFacts DEF U_Receive, TypeOK
  <2>3. data'[Created(j)] = data[Created(j)] /\ handle' = handle
    BY <1>0, <2>1, FileFacts DEF U_Receive, Received, TypeOK
  <2> QED
    BY <1>2, <2>1, <2>2, <2>3 DEF FreshOK
<1> QED
  BY <1>1, <1>2

-------------------------------------------------------------------------------
(* The change that a step makes.                                           *)

Change(t) ==
    \E j \in Jobs : /\ plan[j].target = t /\ pc[j] # "receive"
                    /\ (BecomesUpload(t, j) \/ GrowsByAppend(t, j))

\* A file changes under a name that stays only by an append to it.
LEMMA DataChanges ==
    ASSUME StoreInv, NEW j \in Jobs, Step(j), NEW t \in Targets,
           names[t] # NoFile, data'[names[t]] # data[names[t]]
    PROVE  U_Copy(j) /\ names[t] = handle[j]
<1>0. /\ TypeOK /\ CopyOK /\ ReceivedOK /\ CreatedOK /\ ConvertedOK
      /\ names[t] \in FileIds /\ Temp(j) # t
  BY NameFacts DEF StoreInv, BaseInv, TempInv, TypeOK, Names
<1>1. CASE U_Receive(j)
  <2>1. names[t] # Received(j)
    BY <1>0, <1>1 DEF U_Receive, ReceivedOK
  <2> QED
    BY <1>0, <1>1, <2>1 DEF U_Receive, Received, TypeOK
<1>2. CASE U_OpenTemp(j)
  <2>1. names[Temp(j)] = NoFile /\ names[t] # Created(j)
    BY <1>0, <1>2 DEF U_OpenTemp, ConvertedOK, CreatedOK
  <2> QED
    BY <1>0, <1>2, <2>1 DEF U_OpenTemp, OpensToWrite, TypeOK
<1>3. CASE U_WriteTemp(j)
  <2>1. handle[j] = Created(j) /\ names[t] # Created(j)
    BY <1>0, <1>3 DEF U_WriteTemp, ConvertedOK, CreatedOK, CopyOK
  <2> QED
    BY <1>0, <1>3, <2>1 DEF U_WriteTemp, TypeOK
<1>4. CASE U_Copy(j)
  BY <1>0, <1>4 DEF U_Copy, TypeOK
<1>5. CASE U_OpenAppend(j)
  BY <1>5 DEF U_OpenAppend, OpensToAppend
<1> QED
  BY <1>1, <1>2, <1>3, <1>4, <1>5 DEF Step, U_ReceiveFails, U_Replace, U_CopyEnds,
     U_RenameTemp, U_Unlink, U_IoError, U_Except

LEMMA OnePiece ==
    ASSUME NEW s \in Seq(Pieces), NEW n \in 1 .. Len(s)
    PROVE  SubSeq(s, n, n) = <<s[n]>>
<1>1. n \in Nat /\ Len(s) \in Nat /\ 1 <= n /\ n <= Len(s)
  OBVIOUS
<1>2. SubSeq(s, n, n) \in Seq(Pieces)
  BY <1>1
<1>3. Len(SubSeq(s, n, n)) = 1
  BY <1>1
<1>4. SubSeq(s, n, n)[1] = s[n]
  BY <1>1, <1>3
<1>5. <<s[n]>> \in Seq(Pieces) /\ Len(<<s[n]>>) = 1 /\ <<s[n]>>[1] = s[n]
  BY <1>1
<1> DEFINE piece == SubSeq(s, n, n)
<1>6. \A i \in 1 .. Len(piece) : piece[i] = <<s[n]>>[i]
  BY <1>3, <1>4, <1>5
<1>7. piece \in Seq(Pieces) /\ Len(piece) = Len(<<s[n]>>)
  BY <1>2, <1>3, <1>5
<1> HIDE DEF piece
<1>8. piece = <<s[n]>>
  BY <1>5, <1>6, <1>7, SeqEqual, Zenon
<1> QED
  BY <1>8 DEF piece

\* A copy appends what follows of the content to be stored.
LEMMA CopyGoesOn ==
    ASSUME TypeOK, CopyOK, TextOK, NEW j \in Jobs, U_Copy(j)
    PROVE  /\ copied'[j] \in Nat /\ copied[j] <= copied'[j]
           /\ copied'[j] <= Len(Wanted(j))
           /\ Write(j) = SubSeq(Wanted(j), copied[j] + 1, copied'[j])
<1>1. pc[j] = "copy" /\ ~CopyEnds(j)
  BY DEF U_Copy
<1>2. text[j] = Wanted(j) /\ text[j] \in Seq(Pieces) /\ copied[j] \in Nat
  BY <1>1 DEF TextOK, TypeOK
<1>3. copied[j] < Len(text[j]) /\ (plan[j].ascii => copied[j] = 0)
  BY <1>1, <1>2 DEF CopyOK, CopyEnds
<1>4. copied'[j] = copied[j] + Len(Write(j))
  BY DEF U_Copy, TypeOK
<1>5. CASE plan[j].ascii
  BY <1>2, <1>3, <1>4, <1>5 DEF Write
<1>6. CASE ~plan[j].ascii
  <2>1. Write(j) = <<text[j][copied[j] + 1]>> /\ copied'[j] = copied[j] + 1
    BY <1>2, <1>4, <1>6 DEF Write
  <2>2. copied[j] + 1 \in 1 .. Len(text[j])
    BY <1>2, <1>3
  <2>3. Write(j) = SubSeq(Wanted(j), copied[j] + 1, copied'[j])
    BY <1>2, <2>1, <2>2, OnePiece
  <2>4. copied'[j] \in Nat /\ copied[j] <= copied'[j] /\ copied'[j] <= Len(text[j])
    BY <1>2, <1>3, <2>1
  <2> QED
    BY <1>2, <2>3, <2>4
<1> QED
  BY <1>5, <1>6

LEMMA CopyChanges ==
    ASSUME StoreInv, ChangeInv, NEW j \in Jobs, U_Copy(j), NEW t \in Targets,
           names[t] = handle[j]
    PROVE  Change(t)
<1>0. TypeOK /\ CopyOK /\ pc[j] = "copy" /\ ~CopyEnds(j) /\ plan[j].append
  BY DEF StoreInv, BaseInv, U_Copy, CopyOK
<1>1. handle[j] \in FileIds /\ handle[j] # NoFile /\ names[t] # NoFile
  BY <1>0 DEF TypeOK
<1>2. plan[j].target = t
  BY <1>0, <1>1 DEF ChangeInv, OwnerOK
<1>3. Read(t) = data[handle[j]] /\ Read(t)' = data[handle[j]] \o Write(j)
  BY <1>0, <1>1 DEF U_Copy, Read, TypeOK
<1>4. Read(t) # NoFile
  BY <1>0, <1>1, ReadType DEF Names
<1>5. Write(j) = SubSeq(Wanted(j), copied[j] + 1, copied'[j])
  BY <1>0, CopyGoesOn DEF ChangeInv
<1>6. GrowsByAppend(t, j)
  BY <1>0, <1>3, <1>4, <1>5 DEF GrowsByAppend
<1> QED
  BY <1>0, <1>2, <1>6 DEF Change

\* What a rename or an open puts at a target.
LEMMA NameChanges ==
    ASSUME StoreInv, ChangeInv, NEW j \in Jobs, Step(j), NEW t \in Targets,
           names'[t] # names[t]
    PROVE  Change(t)
<1>0. /\ TypeOK /\ CopyOK /\ ReceivedOK /\ ConvertedOK /\ t = plan[j].target
      /\ t \in Names /\ t # Upload(j) /\ t # Temp(j)
  BY TargetFrame, NameFacts DEF StoreInv, BaseInv, TempInv, Names
<1>1. CASE U_Replace(j)
  <2>1. /\ names[Upload(j)] = Received(j)
        /\ data[Received(j)] = plan[j].content
        /\ Received(j) # NoFile
    BY <1>0, <1>1, FileFacts DEF U_Replace, ReceivedOK, Staged
  <2>2. names'[t] = Received(j) /\ data' = data
    BY <1>0, <1>1, <2>1 DEF U_Replace, TypeOK
  <2>3. Read(t)' = Wanted(j) /\ ~plan[j].append /\ pc[j] # "receive"
    BY <1>1, <2>1, <2>2 DEF U_Replace, Read, Wanted, Stored
  <2> QED
    BY <1>0, <2>3 DEF Change, BecomesUpload
<1>2. CASE U_RenameTemp(j)
  <2>1. /\ names[Temp(j)] = Created(j) /\ data[Created(j)] = Wanted(j)
        /\ Created(j) # NoFile /\ ~plan[j].append
    BY <1>0, <1>2, FileFacts DEF U_RenameTemp, ConvertedOK, CopyOK, UsesTemp
  <2>2. names'[t] = Created(j) /\ data' = data
    BY <1>0, <1>2, <2>1 DEF U_RenameTemp, RenamesTemp, TypeOK
  <2>3. Read(t)' = Wanted(j) /\ pc[j] # "receive"
    BY <1>2, <2>1, <2>2 DEF U_RenameTemp, Read
  <2> QED
    BY <1>0, <2>1, <2>3 DEF Change, BecomesUpload
<1>3. CASE U_OpenAppend(j)
  <2>1. /\ pc[j] = "install" /\ plan[j].append
        /\ names[t] = NoFile /\ names'[t] = Created(j)
        /\ data' = data /\ copied' = copied
    BY <1>0, <1>3 DEF U_OpenAppend, OpensToAppend, TypeOK
  <2>2. Read(t) = NoFile /\ Read(t)' = <<>>
    BY <2>1, FileFacts DEF ChangeInv, FreshOK, Read
  <2>3. copied[j] = 0 /\ copied'[j] = 0
    BY <1>0, <2>1 DEF CopyOK
  <2>4. SubSeq(Wanted(j), copied[j] + 1, copied'[j]) = <<>>
    BY <1>0, <2>3, WantedType
  <2>5. <<>> \o SubSeq(Wanted(j), copied[j] + 1, copied'[j]) = <<>>
    BY <2>4
  <2>6. GrowsByAppend(t, j)
    BY <2>1, <2>2, <2>5 DEF GrowsByAppend
  <2> QED
    BY <1>0, <2>1, <2>6 DEF Change
<1>4. CASE ~U_Replace(j) /\ ~U_RenameTemp(j) /\ ~U_OpenAppend(j)
  BY <1>0, <1>4 DEF Step, U_Receive, U_ReceiveFails, U_Copy, U_CopyEnds,
     U_OpenTemp, U_WriteTemp, U_Unlink, U_IoError, U_Except, OpensToWrite, TypeOK
<1> QED
  BY <1>1, <1>2, <1>3, <1>4

LEMMA StepChanges ==
    ASSUME StoreInv, ChangeInv, NEW j \in Jobs, Step(j), NEW t \in Targets,
           Read(t)' # Read(t)
    PROVE  Change(t)
<1>1. CASE names'[t] # names[t]
  BY <1>1, NameChanges
<1>2. CASE names'[t] = names[t]
  <2>1. names[t] # NoFile /\ data'[names[t]] # data[names[t]]
    BY <1>2 DEF Read
  <2> QED
    BY <2>1, DataChanges, CopyChanges
<1> QED
  BY <1>1, <1>2

(* Readers of a file see whole uploads: as long as no two ASCII uploads    *)
(* have one temporary file, a file changes only by becoming all of a       *)
(* received upload, or by growing by the next piece of an append, however  *)
(* many uploads run and whichever operation fails.                         *)
THEOREM WholeChanges ==
    ASSUME ~SharedTemps
    PROVE  Spec => ChangedWhole
<1>1. StoreInv /\ ChangeInv /\ [Next]_vars => ChangeInv'
  <2> SUFFICES ASSUME StoreInv, ChangeInv, [Next]_vars PROVE ChangeInv'
    OBVIOUS
  <2>1. CASE UNCHANGED vars
    BY <2>1 DEF vars, ChangeInv, OwnerOK, TextOK, FreshOK, Owner, Wanted, Stored,
       Created
  <2>2. CASE \E j \in Jobs : Step(j)
    BY <2>2, OwnerStep, TextStep, FreshStep DEF ChangeInv, StoreInv, BaseInv
  <2> QED
    BY <2>1, <2>2 DEF Next, Done
<1>2. ASSUME StoreInv, ChangeInv, Next
      PROVE  \A t \in Targets : Read(t)' # Read(t) =>
                \E j \in Jobs : /\ plan[j].target = t /\ pc[j] # "receive"
                               /\ (BecomesUpload(t, j) \/ GrowsByAppend(t, j))
  <2>1. CASE Done
    BY <2>1 DEF Done, vars, Read
  <2>2. CASE \E j \in Jobs : Step(j)
    BY <1>2, <2>2, StepChanges DEF Change
  <2> QED
    BY <1>2, <2>1, <2>2 DEF Next
<1>3. Spec => []StoreInv
  BY Typing, ReceivedKept, Invariance, PTL DEF StoreInv, BaseInv
<1> QED
  BY ChangeInit, <1>1, <1>2, <1>3, PTL DEF Spec, ChangedWhole

-------------------------------------------------------------------------------
(* Files that are only appended to.                                        *)

Appended(t) == \A j \in Jobs : plan[j].target = t => plan[j].append

\* What is found at such a target: the old file, or one made by an append.
Lasting ==
    {f \in FileIds : f[1] = "old" \/ (f[1] = "created" /\ plan[f[2]].append)}

(* A lasting file is at no target but its owner's and open only in copies  *)
(* to it, also when conversions share their files; and all copies to a     *)
(* target that is only appended to are into the file found there.          *)
LastingOK ==
    /\ \A t \in Targets : names[t] \in Lasting => Owner(names[t]) = t
    /\ \A n \in Temps : names[n] \notin Lasting
    /\ \A j \in Jobs : handle[j] \in Lasting =>
          pc[j] = "copy" /\ Owner(handle[j]) = plan[j].target
    /\ \A t \in Targets : Appended(t) => names[t] \in Lasting \cup {NoFile}
    /\ \A j \in Jobs : pc[j] = "copy" /\ Appended(plan[j].target) =>
          handle[j] = names[plan[j].target]

CopiedOK ==
    \A j \in Jobs : plan[j].append /\ pc[j] \in {"unlink", "success"} =>
        copied[j] = Len(Wanted(j))

OldKept(t) ==
    \A i \in DOMAIN Before(t) : i \in DOMAIN Now(t) /\ Now(t)[i] = Before(t)[i]

Added(t) == Len(Before(t)) + 1 .. Len(Now(t))

Shuffled(t) == \E place \in Bijection(CopiedTo(t), Added(t)) : InOrder(t, place)

AddedOK == \A t \in Targets : Appended(t) => OldKept(t) /\ Shuffled(t)

AppendInv == LastingOK /\ FreshOK /\ TextOK /\ CopiedOK /\ AddedOK

LEMMA LastingFacts ==
    ASSUME TypeOK, NEW j \in Jobs
    PROVE  /\ Received(j) \notin Lasting
           /\ Created(j) \in Lasting <=> plan[j].append
           /\ NoFile \notin Lasting
           /\ \A t \in Targets : <<"old", t>> \in FileIds => <<"old", t>> \in Lasting
BY FileFacts, PlanFields, StoreAssumption DEF Lasting, Received, Created

\* How a step changes where the names of targets and of temporary files lead.
LEMMA LastingNames ==
    ASSUME BaseInv, LastingOK, NEW j \in Jobs, Step(j), NEW n \in Targets \cup Temps
    PROVE  \/ names'[n] = names[n]
           \/ names'[n] \notin Lasting /\ n \in Temps
           \/ names'[n] \notin Lasting /\ n = plan[j].target /\ ~plan[j].append
           \/ /\ U_OpenAppend(j) /\ n = plan[j].target
              /\ names[n] = NoFile /\ names'[n] = Created(j)
<1>0. /\ TypeOK /\ CopyOK /\ ReceivedOK
      /\ n \in Names /\ n # Upload(j) /\ plan[j].target \in Names
      /\ Temp(j) \in Names /\ Temp(j) \in Temps /\ plan[j].target \in Targets
      /\ Targets \cap Temps = {}
  BY NameFacts, NameAssumption DEF BaseInv, Names
<1>1. CASE U_Replace(j)
  <2>1. names[Upload(j)] = Received(j) /\ Received(j) \notin Lasting
    BY <1>0, <1>1, LastingFacts DEF U_Replace, ReceivedOK, Staged
  <2>2. names'[n] \in {names[n], Received(j)} /\ (n # plan[j].target => names'[n] = names[n])
    BY <1>0, <1>1, <2>1 DEF U_Replace, TypeOK
  <2> QED
    BY <1>1, <2>1, <2>2 DEF U_Replace
<1>2. CASE U_RenameTemp(j)
  <2>1. names[Temp(j)] \notin Lasting /\ NoFile \notin Lasting /\ ~plan[j].append
    BY <1>0, <1>2, LastingFacts DEF LastingOK, U_RenameTemp, CopyOK, UsesTemp
  <2>2. /\ names'[n] \in {names[n], names[Temp(j)], NoFile}
        /\ n \notin {plan[j].target, Temp(j)} => names'[n] = names[n]
    BY <1>0, <1>2 DEF U_RenameTemp, RenamesTemp, TypeOK
  <2> QED
    BY <1>0, <2>1, <2>2
<1>3. CASE U_OpenAppend(j)
  BY <1>0, <1>3 DEF U_OpenAppend, OpensToAppend, TypeOK
<1>4. CASE U_OpenTemp(j)
  <2>1. Created(j) \notin Lasting /\ names[Temp(j)] \notin Lasting
    BY <1>0, <1>4, LastingFacts DEF U_OpenTemp, UsesTemp, LastingOK
  <2>2. /\ names'[n] \in {names[n], names[Temp(j)], Created(j)}
        /\ n # Temp(j) => names'[n] = names[n]
    BY <1>0, <1>4 DEF U_OpenTemp, OpensToWrite, TypeOK
  <2> QED
    BY <1>0, <2>1, <2>2
<1>5. CASE ~U_Replace(j) /\ ~U_RenameTemp(j) /\ ~U_OpenAppend(j) /\ ~U_OpenTemp(j)
  <2>1. names'[n] = names[n]
    BY <1>0, <1>5 DEF Step, U_Receive, U_ReceiveFails, U_Copy, U_CopyEnds,
       U_WriteTemp, U_Unlink, U_IoError, U_Except, TypeOK
  <2> QED
    BY <2>1
<1> QED
  BY <1>1, <1>2, <1>3, <1>4, <1>5

\* What the job of a step has open afterwards.
LEMMA LastingHandle ==
    ASSUME BaseInv, LastingOK, NEW j \in Jobs, Step(j)
    PROVE  \/ handle'[j] \notin Lasting /\ pc'[j] # "copy"
           \/ handle'[j] = handle[j] /\ pc[j] = "copy" /\ pc'[j] = "copy" /\ names' = names
           \/ /\ U_OpenAppend(j) /\ pc'[j] = "copy"
              /\ handle'[j] = names'[plan[j].target]
              /\ handle'[j] \in {Created(j), names[plan[j].target]}
<1>0. /\ TypeOK /\ CopyOK /\ plan[j].target \in Names
      /\ Temp(j) \in Temps /\ NoFile \notin Lasting
  BY NameFacts, LastingFacts DEF BaseInv
<1>1. CASE U_OpenAppend(j)
  <2>1. CASE IsDirectory(j) \/ ~Readable(j)
    <3>1. handle'[j] = handle[j] /\ pc[j] = "install" /\ pc'[j] = "except"
      BY <1>0, <1>1, <2>1 DEF U_OpenAppend, Goto, TypeOK
    <3> QED
      BY <1>0, <3>1 DEF LastingOK
  <2>2. CASE ~(IsDirectory(j) \/ ~Readable(j))
    BY <1>0, <1>1, <2>2 DEF U_OpenAppend, OpensToAppend, Goto, TypeOK
  <2> QED
    BY <2>1, <2>2
<1>2. CASE U_OpenTemp(j)
  <2>1. Created(j) \notin Lasting /\ names[Temp(j)] \notin Lasting
    BY <1>0, <1>2, LastingFacts DEF U_OpenTemp, UsesTemp, LastingOK
  <2>2. handle'[j] \in {handle[j], Created(j), names[Temp(j)]}
    BY <1>0, <1>2 DEF U_OpenTemp, OpensToWrite, TypeOK
  <2>3. pc[j] = "install" /\ pc'[j] # "copy"
    BY <1>0, <1>2 DEF U_OpenTemp, Goto, TypeOK
  <2> QED
    BY <2>1, <2>2, <2>3 DEF LastingOK
<1>3. CASE U_Copy(j)
  BY <1>3 DEF U_Copy
<1>4. CASE U_CopyEnds(j) \/ U_WriteTemp(j) \/ U_IoError(j)
  <2>1. handle'[j] = NoFile /\ pc'[j] # "copy"
    BY <1>0, <1>4 DEF U_CopyEnds, U_WriteTemp, U_IoError, Goto, TypeOK
  <2> QED
    BY <1>0, <2>1
<1>5. CASE \/ U_Receive(j) \/ U_ReceiveFails(j) \/ U_Replace(j)
           \/ U_RenameTemp(j) \/ U_Unlink(j) \/ U_Except(j)
  <2>1. handle'[j] = handle[j] /\ pc[j] # "copy" /\ pc'[j] # "copy"
    BY <1>0, <1>5 DEF U_Receive, U_ReceiveFails, U_Replace, U_RenameTemp,
       U_Unlink, U_Except, Goto, TypeOK
  <2> QED
    BY <2>1 DEF LastingOK
<1> QED
  BY <1>1, <1>2, <1>3, <1>4, <1>5 DEF Step

LEMMA LastingStep ==
    ASSUME BaseInv, LastingOK, NEW j \in Jobs, Step(j)
    PROVE  LastingOK'
<1>0. /\ TypeOK /\ CopyOK /\ plan' = plan /\ Lasting' = Lasting
      /\ \A f : Owner(f)' = Owner(f)
      /\ \A t : Appended(t)' = Appended(t)
      /\ \A k \in Jobs : k # j => pc'[k] = pc[k] /\ handle'[k] = handle[k]
      /\ plan[j].target \in Targets
  BY PlacesFrame, HandleFrame, NameFacts DEF BaseInv, Lasting, Owner, Appended
<1>1. ASSUME NEW t \in Targets, names'[t] \in Lasting
      PROVE  Owner(names'[t]) = t
  <2>1. t \notin Temps
    BY NameAssumption
  <2> QED
    BY <1>0, <1>1, <2>1, LastingNames, Owners DEF LastingOK
<1>2. ASSUME NEW n \in Temps
      PROVE  names'[n] \notin Lasting
  <2>1. n # plan[j].target
    BY <1>0, NameAssumption
  <2> QED
    BY <2>1, LastingNames DEF LastingOK
<1>3. ASSUME NEW k \in Jobs, handle'[k] \in Lasting
      PROVE  pc'[k] = "copy" /\ Owner(handle'[k]) = plan[k].target
  <2>1. CASE k # j
    BY <1>0, <1>3, <2>1 DEF LastingOK
  <2>2. CASE k = j
    BY <1>0, <1>3, <2>2, LastingHandle, Owners DEF LastingOK
  <2> QED
    BY <2>1, <2>2
<1>4. ASSUME NEW t \in Targets, Appended(t)
      PROVE  names'[t] \in Lasting \cup {NoFile}
  <2>1. t \notin Temps /\ (t = plan[j].target => plan[j].append)
    BY <1>4, NameAssumption DEF Appended
  <2>2. U_OpenAppend(j) => Created(j) \in Lasting
    BY <1>0, LastingFacts DEF U_OpenAppend
  <2> QED
    BY <1>4, <2>1, <2>2, LastingNames DEF LastingOK
<1>5. ASSUME NEW k \in Jobs, pc'[k] = "copy", Appended(plan[k].target)
      PROVE  handle'[k] = names'[plan[k].target]
  <2>1. CASE k # j
    <3>1. /\ pc[k] = "copy" /\ handle'[k] = handle[k]
          /\ handle[k] = names[plan[k].target] /\ handle[k] # NoFile
          /\ plan[k].target \in Targets
      BY <1>0, <1>5, <2>1, NameFacts DEF LastingOK, TypeOK
    <3>2. /\ plan[k].target \notin Temps
          /\ plan[k].target = plan[j].target => plan[j].append
      BY <1>0, <1>5, <3>1, NameAssumption DEF Appended
    <3> QED
      BY <3>1, <3>2, LastingNames
  <2>2. CASE k = j
    BY <1>0, <1>5, <2>2, LastingHandle DEF LastingOK
  <2> QED
    BY <2>1, <2>2
<1> QED
  BY <1>0, <1>1, <1>2, <1>3, <1>4, <1>5 DEF LastingOK

LEMMA CopiedStep ==
    ASSUME BaseInv, TextOK, CopiedOK, NEW j \in Jobs, Step(j)
    PROVE  CopiedOK'
<1>0. /\ TypeOK /\ CopyOK /\ plan' = plan
      /\ \A k \in Jobs : Wanted(k)' = Wanted(k)
  BY PlacesFrame DEF BaseInv, Wanted, Stored
<1> SUFFICES ASSUME NEW k \in Jobs, plan[k].append, pc'[k] \in {"unlink", "success"}
             PROVE  copied'[k] = Len(Wanted(k))
  BY <1>0 DEF CopiedOK
<1>1. CASE k # j
  <2>1. copied'[k] = copied[k] /\ pc'[k] = pc[k]
    BY <1>0, <1>1, PlacesFrame DEF Step, U_Receive, U_ReceiveFails, U_Replace,
       U_OpenAppend, U_Copy, U_CopyEnds, U_OpenTemp, U_WriteTemp, U_RenameTemp,
       U_Unlink, U_IoError, U_Except, TypeOK
  <2> QED
    BY <2>1 DEF CopiedOK
<1>2. CASE k = j
  <2>1. CASE U_CopyEnds(j)
    BY <1>2, <2>1 DEF U_CopyEnds, CopyEnds, TextOK
  <2>2. CASE U_Unlink(j)
    BY <1>2, <2>2 DEF U_Unlink, CopiedOK
  <2>3. U_CopyEnds(j) \/ U_Unlink(j)
    BY <1>0, <1>2 DEF Step, U_Receive, U_ReceiveFails, U_Replace, U_OpenAppend,
       U_Copy, U_OpenTemp, U_WriteTemp, U_RenameTemp, U_IoError, U_Except,
       UsesTemp, CopyOK, Goto, TypeOK
  <2> QED
    BY <2>1, <2>2, <2>3
<1> QED
  BY <1>1, <1>2

\* A lasting file is written to only by the next copy to its target.
LEMMA LastingData ==
    ASSUME BaseInv, LastingOK, NEW j \in Jobs, Step(j), NEW t \in Targets,
           names[t] \in Lasting
    PROVE  \/ data'[names[t]] = data[names[t]]
           \/ U_Copy(j) /\ handle[j] = names[t] /\ plan[j].target = t
<1>0. /\ TypeOK /\ CopyOK /\ Temp(j) \in Temps /\ names[t] \in FileIds
      /\ Received(j) \notin Lasting /\ Owner(names[t]) = t
  BY NameFacts, LastingFacts DEF BaseInv, Lasting, LastingOK
<1>1. CASE U_Receive(j)
  BY <1>0, <1>1 DEF U_Receive, Received, TypeOK
<1>2. CASE U_OpenTemp(j)
  <2>1. Created(j) \notin Lasting /\ names[Temp(j)] \notin Lasting
    BY <1>0, <1>2, LastingFacts DEF U_OpenTemp, UsesTemp, LastingOK
  <2> QED
    BY <1>0, <1>2, <2>1 DEF U_OpenTemp, OpensToWrite, TypeOK
<1>3. CASE U_WriteTemp(j)
  <2>1. handle[j] \notin Lasting
    BY <1>3 DEF U_WriteTemp, LastingOK
  <2> QED
    BY <1>0, <1>3, <2>1 DEF U_WriteTemp, TypeOK
<1>4. CASE U_Copy(j)
  <2>1. handle[j] \in Lasting => Owner(handle[j]) = plan[j].target
    BY DEF LastingOK
  <2>2. handle[j] # names[t] => data'[names[t]] = data[names[t]]
    BY <1>0, <1>4 DEF U_Copy, TypeOK
  <2> QED
    BY <1>0, <1>4, <2>1, <2>2
<1>5. CASE U_OpenAppend(j)
  BY <1>5 DEF U_OpenAppend, OpensToAppend
<1> QED
  BY <1>1, <1>2, <1>3, <1>4, <1>5 DEF Step, U_ReceiveFails, U_Replace, U_CopyEnds,
     U_RenameTemp, U_Unlink, U_IoError, U_Except

Copies(t) == \A k \in Jobs : plan[k].target = t => copied'[k] = copied[k]

Longer(s, w, c, d) == s \o SubSeq(w, c + 1, d)

\* The step from which a file that is only appended to is longer.
Grows(t, j) ==
    /\ plan[j].target = t
    /\ copied'[j] \in Nat /\ copied[j] <= copied'[j] /\ copied'[j] <= Len(Wanted(j))
    /\ \A k \in Jobs : k # j => copied'[k] = copied[k]
    /\ Now(t)' = Longer(Now(t), Wanted(j), copied[j], copied'[j])

LEMMA AppendedGrows ==
    ASSUME BaseInv, LastingOK, FreshOK, TextOK, NEW j \in Jobs, Step(j),
           NEW t \in Targets, Appended(t)
    PROVE  (Now(t)' = Now(t) /\ Copies(t)) \/ Grows(t, j)
<1>0. /\ TypeOK /\ CopyOK /\ t \in Names /\ t \notin Temps
      /\ plan[j].target = t => plan[j].append
      /\ names[t] \in Lasting \cup {NoFile}
  BY NameAssumption DEF BaseInv, Names, Appended, LastingOK
<1>1. CASE U_Copy(j) /\ plan[j].target = t
  <2>1. handle[j] = names[t] /\ handle[j] # NoFile /\ handle[j] \in FileIds
    BY <1>0, <1>1 DEF U_Copy, LastingOK, TypeOK
  <2>2. Read(t) = data[names[t]] /\ Read(t)' = data[names[t]] \o Write(j)
    BY <1>0, <1>1, <2>1 DEF U_Copy, Read, TypeOK
  <2>3. Read(t) \in Seq(Pieces) /\ Read(t)' \in Seq(Pieces)
    <3>1. data[names[t]] \in Seq(Pieces) /\ Write(j) \in Seq(Pieces)
      BY <1>0, <1>1, <2>1, WriteType DEF U_Copy, TypeOK
    <3>2. data[names[t]] \o Write(j) \in Seq(Pieces)
      BY <3>1
    <3> QED
      BY <2>2, <3>1, <3>2
  <2>4. Now(t)' = Now(t) \o Write(j)
    <3>1. Read(t) # NoFile /\ Read(t)' # NoFile
      BY <2>3, StoreAssumption
    <3> QED
      BY <2>2, <3>1 DEF Now
  <2>5. \A k \in Jobs : k # j => copied'[k] = copied[k]
    BY <1>0, <1>1 DEF U_Copy, TypeOK
  <2> QED
    BY <1>0, <1>1, <2>4, <2>5, CopyGoesOn DEF Grows, Longer
<1>2. CASE ~(U_Copy(j) /\ plan[j].target = t)
  <2>1. Copies(t)
    <3>1. CASE U_Copy(j)
      BY <1>0, <1>2, <3>1 DEF U_Copy, Copies, TypeOK
    <3>2. CASE ~U_Copy(j)
      BY <3>2 DEF Step, U_Receive, U_ReceiveFails, U_Replace, U_OpenAppend,
         U_CopyEnds, U_OpenTemp, U_WriteTemp, U_RenameTemp, U_Unlink, U_IoError,
         U_Except, Copies
    <3> QED
      BY <3>1, <3>2
  <2>2. CASE names'[t] = names[t]
    <3>1. Read(t)' = Read(t)
      BY <1>0, <1>2, <2>2, LastingData DEF Read
    <3> QED
      BY <2>1, <3>1 DEF Now
  <2>3. CASE names'[t] # names[t]
    <3>1. U_OpenAppend(j) /\ names[t] = NoFile /\ names'[t] = Created(j)
      BY <1>0, <2>3, LastingNames
    <3>2. data' = data /\ data[Created(j)] = <<>> /\ Created(j) # NoFile
      BY <3>1, FileFacts DEF U_OpenAppend, OpensToAppend, FreshOK
    <3>3. Read(t) = NoFile /\ Read(t)' = <<>>
      BY <3>1, <3>2 DEF Read
    <3>4. Now(t) = <<>> /\ Now(t)' = <<>>
      BY <3>3 DEF Now
    <3> QED
      BY <2>1, <3>4
  <2> QED
    BY <2>2, <2>3
<1> QED
  BY <1>1, <1>2

LEMMA ContentTypes ==
    ASSUME NEW t \in Targets
    PROVE  /\ TypeOK => Before(t) \in Seq(Pieces) /\ Now(t) \in Seq(Pieces)
           /\ TypeOK' => Now(t)' \in Seq(Pieces)
<1>1. <<>> \in Seq(Pieces) /\ t \in Names
  BY DEF Names
<1>2. TypeOK => Before(t) \in Seq(Pieces)
  BY <1>1, StoreAssumption DEF TypeOK, Before
<1>3. TypeOK => Now(t) \in Seq(Pieces)
  BY <1>1, StoreAssumption DEF TypeOK, Now, Read
<1>4. TypeOK' => Now(t)' \in Seq(Pieces)
  BY <1>1, StoreAssumption DEF TypeOK, Now, Read
<1> QED
  BY <1>2, <1>3, <1>4

\* Which pieces have been copied, before a step and after it.
LEMMA CopiedPieces ==
    ASSUME NEW t \in Targets, NEW j \in Jobs, NEW i \in Nat
    PROVE  /\ TypeOK => (<<j, i>> \in CopiedTo(t) <=>
                            plan[j].target = t /\ 1 <= i /\ i <= copied[j])
           /\ TypeOK' => (<<j, i>> \in CopiedTo(t)' <=>
                            plan'[j].target = t /\ 1 <= i /\ i <= copied'[j])
<1>1. TypeOK => (<<j, i>> \in CopiedTo(t) <=>
                    plan[j].target = t /\ 1 <= i /\ i <= copied[j])
  BY DEF CopiedTo, TypeOK
<1>2. TypeOK' => (<<j, i>> \in CopiedTo(t)' <=>
                    plan'[j].target = t /\ 1 <= i /\ i <= copied'[j])
  BY DEF CopiedTo, TypeOK
<1> QED
  BY <1>1, <1>2

LEMMA CopiedPairs ==
    ASSUME NEW t \in Targets, NEW p
    PROVE  /\ TypeOK /\ p \in CopiedTo(t) =>
                /\ p = <<p[1], p[2]>> /\ p[1] \in Jobs /\ p[2] \in Nat
                /\ plan[p[1]].target = t /\ 1 <= p[2] /\ p[2] <= copied[p[1]]
           /\ TypeOK' /\ p \in CopiedTo(t)' =>
                /\ p = <<p[1], p[2]>> /\ p[1] \in Jobs /\ p[2] \in Nat
                /\ plan'[p[1]].target = t /\ 1 <= p[2] /\ p[2] <= copied'[p[1]]
<1>1. ASSUME TypeOK, p \in CopiedTo(t)
      PROVE  /\ p = <<p[1], p[2]>> /\ p[1] \in Jobs /\ p[2] \in Nat
             /\ plan[p[1]].target = t /\ 1 <= p[2] /\ p[2] <= copied[p[1]]
  <2>1. PICK k \in Jobs : plan[k].target = t /\ p \in {k} \X (1 .. copied[k])
    BY <1>1 DEF CopiedTo
  <2>2. copied[k] \in Nat
    BY <1>1 DEF TypeOK
  <2> QED
    BY <2>1, <2>2
<1>2. ASSUME TypeOK', p \in CopiedTo(t)'
      PROVE  /\ p = <<p[1], p[2]>> /\ p[1] \in Jobs /\ p[2] \in Nat
             /\ plan'[p[1]].target = t /\ 1 <= p[2] /\ p[2] <= copied'[p[1]]
  <2>1. PICK k \in Jobs : plan'[k].target = t /\ p \in {k} \X (1 .. copied'[k])
    BY <1>2 DEF CopiedTo
  <2>2. copied'[k] \in Nat
    BY <1>2 DEF TypeOK
  <2> QED
    BY <2>1, <2>2
<1> QED
  BY <1>1, <1>2

LEMMA PieceAppended ==
    ASSUME NEW now \in Seq(Pieces), NEW w \in Seq(Pieces), NEW c \in Nat,
           NEW d \in Nat, c <= d, d <= Len(w)
    PROVE  /\ Len(Longer(now, w, c, d)) = Len(now) + (d - c)
           /\ \A i \in 1 .. Len(now) : Longer(now, w, c, d)[i] = now[i]
           /\ \A i \in c + 1 .. d : Longer(now, w, c, d)[Len(now) + i - c] = w[i]
<1> DEFINE piece == SubSeq(w, c + 1, d)
           next == Longer(now, w, c, d)
<1>1. Len(w) \in Nat /\ Len(now) \in Nat
  OBVIOUS
<1>2. /\ piece \in Seq(Pieces) /\ Len(piece) = d - c
      /\ \A i \in 1 .. d - c : piece[i] = w[c + i]
  <2>1. piece \in Seq(Pieces)
    BY <1>1
  <2>2. Len(piece) = d - c
    BY <1>1
  <2>3. ASSUME NEW i \in 1 .. d - c PROVE piece[i] = w[c + i]
    BY <1>1, <2>3
  <2> QED
    BY <2>1, <2>2, <2>3
<1> HIDE DEF piece
<1>3. /\ Len(next) = Len(now) + (d - c)
      /\ \A i \in 1 .. Len(now) : next[i] = now[i]
      /\ \A i \in 1 .. d - c : next[Len(now) + i] = piece[i]
  <2>1. next = now \o piece
    BY DEF piece, Longer
  <2>2. /\ Len(now \o piece) = Len(now) + (d - c)
        /\ \A i \in 1 .. Len(now) : (now \o piece)[i] = now[i]
        /\ \A i \in 1 .. d - c : (now \o piece)[Len(now) + i] = piece[i]
    BY <1>1, <1>2
  <2> HIDE DEF next
  <2> QED
    BY <2>1, <2>2
<1>4. ASSUME NEW i \in c + 1 .. d
      PROVE  next[Len(now) + i - c] = w[i]
  <2>1. i - c \in 1 .. d - c /\ Len(now) + (i - c) = Len(now) + i - c /\ c + (i - c) = i
    BY <1>1
  <2> QED
    BY <1>2, <1>3, <2>1
<1> QED
  BY <1>3, <1>4

(* Pieces that have their places at m + 1 .. n, and further ones of one    *)
(* upload, c + 1 .. d, that take the places after these.                   *)
Ordered(P, place) == \A p, q \in P : p[1] = q[1] /\ p[2] < q[2] => place[p] < place[q]

Further(P, Q, j, c, d) ==
    /\ \A p \in Q : /\ p = <<p[1], p[2]>> /\ p[2] \in Nat
                    /\ p \in P \/ (p[1] = j /\ p[2] \in c + 1 .. d)
    /\ \A p \in P : p \in Q /\ (p[1] = j => p[2] <= c)
    /\ \A i \in c + 1 .. d : <<j, i>> \in Q \ P

Extended(P, Q, place, m, n, c, d) ==
    \E to \in Bijection(Q, m + 1 .. n + (d - c)) :
        /\ Ordered(Q, to)
        /\ \A p \in P : to[p] = place[p] /\ to[p] \in 1 .. n
        /\ \A p \in Q \ P : to[p] = n + p[2] - c

LEMMA PlacesExtend ==
    ASSUME NEW m \in Nat, NEW n \in Nat, m <= n, NEW c \in Nat, NEW d \in Nat, c <= d,
           NEW j, NEW P, NEW Q, NEW place \in Bijection(P, m + 1 .. n), Ordered(P, place),
           Further(P, Q, j, c, d)
    PROVE  Extended(P, Q, place, m, n, c, d)
<1> USE DEF Further
<1> DEFINE to == [p \in Q |-> IF p \in P THEN place[p] ELSE n + p[2] - c]
<1>1. /\ \A p \in P : place[p] \in m + 1 .. n
      /\ \A p, q \in P : place[p] = place[q] => p = q
      /\ \A i \in m + 1 .. n : \E p \in P : place[p] = i
  BY DEF Bijection, Injection, Surjection, IsInjective
<1>2. /\ \A p \in P : to[p] = place[p]
      /\ \A p \in Q \ P : to[p] = n + p[2] - c
      /\ DOMAIN to = Q /\ to = [p \in Q |-> to[p]]
  OBVIOUS
<1> HIDE DEF to
<1>3. \A p \in P : to[p] \in m + 1 .. n /\ to[p] \in 1 .. n
  <2>1. \A i \in m + 1 .. n : i \in 1 .. n
    OBVIOUS
  <2> QED
    BY <1>1, <1>2, <2>1
<1>4. \A p \in Q \ P : to[p] \in n + 1 .. n + (d - c)
  <2>1. ASSUME NEW p \in Q \ P PROVE to[p] \in n + 1 .. n + (d - c)
    <3>1. p[2] \in c + 1 .. d
      OBVIOUS
    <3>2. n + p[2] - c \in n + 1 .. n + (d - c)
      BY <3>1
    <3> QED
      BY <1>2, <3>2
  <2> QED
    BY <2>1
<1>5. \A p \in Q : to[p] \in m + 1 .. n + (d - c)
  BY <1>3, <1>4
<1>6. ASSUME NEW p \in Q, NEW q \in Q, to[p] = to[q]
      PROVE  p = q
  <2>1. CASE p \in P /\ q \in P
    BY <1>1, <1>2, <1>6, <2>1
  <2>2. CASE p \notin P /\ q \notin P
    <3>1. n + p[2] - c = n + q[2] - c
      BY <1>2, <1>6, <2>2
    <3>2. p[1] = j /\ q[1] = j /\ p[2] = q[2]
      BY <2>2, <3>1
    <3> QED
      BY <3>2
  <2>3. CASE ~(p \in P <=> q \in P)
    <3>1. \A i \in m + 1 .. n, k \in n + 1 .. n + (d - c) : i # k
      OBVIOUS
    <3> QED
      BY <1>3, <1>4, <1>6, <2>3, <3>1
  <2> QED
    BY <2>1, <2>2, <2>3
<1>7. ASSUME NEW i \in m + 1 .. n + (d - c)
      PROVE  \E p \in Q : to[p] = i
  <2>1. CASE i <= n
    <3>1. PICK p \in P : place[p] = i
      BY <1>1, <2>1
    <3> QED
      BY <1>2, <3>1
  <2>2. CASE i > n
    <3>1. i - n + c \in c + 1 .. d /\ n + (i - n + c) - c = i
      BY <2>2
    <3>2. PICK k \in c + 1 .. d : n + k - c = i
      BY <3>1
    <3>3. <<j, k>> \in Q \ P /\ <<j, k>>[2] = k
      OBVIOUS
    <3>4. to[<<j, k>>] = n + <<j, k>>[2] - c
      BY <1>2, <3>3, Zenon
    <3> QED
      BY <3>2, <3>3, <3>4
  <2> QED
    BY <2>1, <2>2
<1>8. to \in [Q -> m + 1 .. n + (d - c)]
  BY <1>2, <1>5
<1>9. to \in Bijection(Q, m + 1 .. n + (d - c))
  BY <1>6, <1>7, <1>8 DEF Bijection, Injection, Surjection, IsInjective
<1>10. ASSUME NEW p \in Q, NEW q \in Q, p[1] = q[1], p[2] < q[2]
       PROVE  to[p] < to[q]
  <2>1. CASE p \in P /\ q \in P
    BY <1>2, <1>10, <2>1 DEF Ordered
  <2>2. CASE p \in P /\ q \notin P
    <3>1. \A i \in m + 1 .. n, k \in n + 1 .. n + (d - c) : i < k
      OBVIOUS
    <3> QED
      BY <1>3, <1>4, <2>2, <3>1
  <2>3. CASE p \notin P /\ q \notin P
    <3>1. p[2] \in Nat /\ q[2] \in Nat
      OBVIOUS
    <3>2. n + p[2] - c < n + q[2] - c
      BY <1>10, <3>1
    <3> QED
      BY <1>2, <2>3, <3>2
  <2>4. ~(p \notin P /\ q \in P)
    <3>1. SUFFICES ASSUME p \notin P, q \in P PROVE FALSE
      OBVIOUS
    <3>2. p[1] = j /\ p[2] \in c + 1 .. d /\ q[2] <= c /\ q[2] \in Nat
      BY <1>10, <3>1
    <3> QED
      BY <1>10, <3>2
  <2> QED
    BY <2>1, <2>2, <2>3, <2>4
<1>11. Ordered(Q, to)
  BY <1>10 DEF Ordered
<1> QED
  BY <1>2, <1>3, <1>9, <1>11 DEF Extended

\* What is appended finds its places after those of what was there.
LEMMA GrowsShuffled ==
    ASSUME TypeOK, TypeOK', plan' = plan, original' = original, NEW j \in Jobs,
           NEW t \in Targets, OldKept(t), Shuffled(t), Grows(t, j)
    PROVE  (OldKept(t) /\ Shuffled(t))'
<1>1. /\ copied[j] \in Nat /\ copied'[j] \in Nat /\ copied[j] <= copied'[j]
      /\ copied'[j] <= Len(Wanted(j)) /\ plan[j].target = t
      /\ \A k \in Jobs : k # j => copied'[k] = copied[k]
      /\ \A k \in Jobs : copied[k] \in Nat /\ copied[k] <= copied'[k]
  <2>1. \A k \in Jobs : copied[k] \in Nat
    BY DEF TypeOK
  <2>2. /\ copied'[j] \in Nat /\ copied[j] <= copied'[j]
        /\ copied'[j] <= Len(Wanted(j)) /\ plan[j].target = t
        /\ \A k \in Jobs : k # j => copied'[k] = copied[k]
    BY DEF Grows
  <2>3. \A k \in Jobs : copied[k] <= copied'[k]
    BY <2>1, <2>2
  <2> QED
    BY <2>1, <2>2, <2>3
<1>2. /\ Before(t)' = Before(t) /\ Before(t) \in Seq(Pieces)
      /\ Now(t) \in Seq(Pieces) /\ Now(t)' \in Seq(Pieces)
      /\ \A k \in Jobs : Wanted(k)' = Wanted(k) /\ Wanted(k) \in Seq(Pieces)
  BY ContentTypes, WantedType DEF Before, Wanted, Stored
<1>3. /\ Len(Now(t)') = Len(Now(t)) + (copied'[j] - copied[j])
      /\ \A i \in 1 .. Len(Now(t)) : Now(t)'[i] = Now(t)[i]
      /\ \A i \in copied[j] + 1 .. copied'[j] :
            Now(t)'[Len(Now(t)) + i - copied[j]] = Wanted(j)[i]
  <2>1. Now(t)' = Longer(Now(t), Wanted(j), copied[j], copied'[j])
    BY DEF Grows
  <2>2. /\ Now(t) \in Seq(Pieces) /\ Wanted(j) \in Seq(Pieces)
        /\ copied[j] \in Nat /\ copied'[j] \in Nat
        /\ copied[j] <= copied'[j] /\ copied'[j] <= Len(Wanted(j))
    BY <1>1, <1>2
  <2> DEFINE next == Longer(Now(t), Wanted(j), copied[j], copied'[j])
  <2>3. /\ Len(next) = Len(Now(t)) + (copied'[j] - copied[j])
        /\ \A i \in 1 .. Len(Now(t)) : next[i] = Now(t)[i]
        /\ \A i \in copied[j] + 1 .. copied'[j] :
              next[Len(Now(t)) + i - copied[j]] = Wanted(j)[i]
    BY <2>2, PieceAppended, Zenon
  <2> QED
    BY <2>1, <2>3
<1> DEFINE m == Len(Before(t))
           n == Len(Now(t))
           c == copied[j]
           d == copied'[j]
           P == CopiedTo(t)
           Q == CopiedTo(t)'
<1>4. /\ m \in Nat /\ n \in Nat /\ m <= n
      /\ DOMAIN Before(t) = 1 .. m /\ DOMAIN Now(t) = 1 .. n
      /\ DOMAIN Now(t)' = 1 .. Len(Now(t)')
  <2>1. /\ m \in Nat /\ n \in Nat
        /\ DOMAIN Before(t) = 1 .. m /\ DOMAIN Now(t) = 1 .. n
        /\ DOMAIN Now(t)' = 1 .. Len(Now(t)')
    BY <1>2
  <2>2. m <= n
    BY <2>1 DEF OldKept
  <2> QED
    BY <2>1, <2>2
<1>5. OldKept(t)'
  <2>1. ASSUME NEW i \in 1 .. m
        PROVE  i \in DOMAIN Now(t)' /\ Now(t)'[i] = Before(t)[i]
    <3>1. i \in 1 .. n /\ i \in 1 .. Len(Now(t)')
      BY <1>1, <1>3, <1>4
    <3> QED
      BY <1>3, <1>4, <3>1 DEF OldKept
  <2> QED
    BY <1>2, <1>4, <2>1 DEF OldKept
<1>6. PICK place \in Bijection(P, m + 1 .. n) : InOrder(t, place)
  BY DEF Shuffled, Added
<1>7. /\ \A p \in P : Now(t)[place[p]] = Wanted(p[1])[p[2]]
      /\ Ordered(P, place)
  BY <1>6 DEF InOrder, Ordered
<1>8. \A p \in Q : /\ p = <<p[1], p[2]>> /\ p[2] \in Nat /\ p[1] \in Jobs
                   /\ p \in P \/ (p[1] = j /\ p[2] \in c + 1 .. d)
  <2> SUFFICES ASSUME NEW p \in Q
               PROVE  /\ p = <<p[1], p[2]>> /\ p[2] \in Nat /\ p[1] \in Jobs
                      /\ p \in P \/ (p[1] = j /\ p[2] \in c + 1 .. d)
    OBVIOUS
  <2>1. /\ p = <<p[1], p[2]>> /\ p[1] \in Jobs /\ p[2] \in Nat
        /\ plan[p[1]].target = t /\ 1 <= p[2] /\ p[2] <= copied'[p[1]]
    BY CopiedPairs
  <2>2. p[2] <= copied[p[1]] => <<p[1], p[2]>> \in P
    BY <2>1, CopiedPieces
  <2>3. p[2] <= copied[p[1]] \/ (p[1] = j /\ p[2] \in c + 1 .. d)
    BY <1>1, <2>1
  <2> QED
    BY <2>1, <2>2, <2>3
<1>9. \A p \in P : p \in Q /\ (p[1] = j => p[2] <= c)
  <2> SUFFICES ASSUME NEW p \in P
               PROVE  p \in Q /\ (p[1] = j => p[2] <= c)
    OBVIOUS
  <2>1. /\ p = <<p[1], p[2]>> /\ p[1] \in Jobs /\ p[2] \in Nat
        /\ plan[p[1]].target = t /\ 1 <= p[2] /\ p[2] <= copied[p[1]]
    BY CopiedPairs
  <2>2. p[2] <= copied'[p[1]]
    BY <1>1, <2>1 DEF TypeOK
  <2>3. <<p[1], p[2]>> \in Q
    BY <2>1, <2>2, CopiedPieces
  <2> QED
    BY <2>1, <2>3
<1>10. \A i \in c + 1 .. d : <<j, i>> \in Q \ P
  <2> SUFFICES ASSUME NEW i \in c + 1 .. d PROVE <<j, i>> \in Q \ P
    OBVIOUS
  <2>1. i \in Nat /\ 1 <= i /\ i <= copied'[j] /\ ~(i <= copied[j])
    BY <1>1
  <2> QED
    BY <1>1, <2>1, CopiedPieces
<1>11. PICK to \in Bijection(Q, m + 1 .. n + (d - c)) :
          /\ Ordered(Q, to)
          /\ \A p \in P : to[p] = place[p] /\ to[p] \in 1 .. n
          /\ \A p \in Q \ P : to[p] = n + p[2] - c
  <2>1. c \in Nat /\ d \in Nat /\ c <= d
    BY <1>1
  <2>2. Further(P, Q, j, c, d)
    BY <1>8, <1>9, <1>10 DEF Further
  <2>3. Extended(P, Q, place, m, n, c, d)
    <3> HIDE DEF m, n, c, d, P, Q
    <3> QED
      BY <1>4, <1>6, <1>7, <2>1, <2>2, PlacesExtend
  <2> QED
    BY <2>3 DEF Extended
<1>12. \A p \in Q : Now(t)'[to[p]] = Wanted(p[1])[p[2]]
  <2> SUFFICES ASSUME NEW p \in Q PROVE Now(t)'[to[p]] = Wanted(p[1])[p[2]]
    OBVIOUS
  <2>1. CASE p \in P
    <3>1. to[p] = place[p] /\ to[p] \in 1 .. n
      BY <1>11, <2>1
    <3>2. Now(t)'[to[p]] = Now(t)[place[p]]
      BY <1>3, <3>1
    <3> QED
      BY <1>7, <2>1, <3>2
  <2>2. CASE p \notin P
    <3>1. p[1] = j /\ p[2] \in c + 1 .. d
      BY <1>8, <2>2
    <3>2. to[p] = n + p[2] - c
      BY <1>11, <2>2
    <3> QED
      BY <1>3, <3>1, <3>2
  <2> QED
    BY <2>1, <2>2
<1>13. InOrder(t, to)'
  BY <1>2, <1>8, <1>11, <1>12 DEF InOrder, Ordered
<1>14. Added(t)' = m + 1 .. n + (d - c)
  BY <1>2, <1>3 DEF Added
<1>15. Shuffled(t)'
  BY <1>11, <1>13, <1>14 DEF Shuffled
<1> QED
  BY <1>5, <1>15

LEMMA AddedStep ==
    ASSUME BaseInv, BaseInv', AppendInv, NEW j \in Jobs, Step(j)
    PROVE  AddedOK'
<1>0. /\ TypeOK /\ TypeOK' /\ plan' = plan /\ original' = original
      /\ LastingOK /\ FreshOK /\ TextOK /\ AddedOK
      /\ \A t : Appended(t)' = Appended(t)
  BY PlacesFrame DEF BaseInv, AppendInv, Appended
<1> SUFFICES ASSUME NEW t \in Targets, Appended(t)
             PROVE  (OldKept(t) /\ Shuffled(t))'
  BY <1>0 DEF AddedOK
<1>1. OldKept(t) /\ Shuffled(t)
  BY <1>0 DEF AddedOK
<1>2. CASE Grows(t, j)
  BY <1>0, <1>1, <1>2, GrowsShuffled
<1>3. CASE Now(t)' = Now(t) /\ Copies(t)
  <2>1. CopiedTo(t)' = CopiedTo(t)
    BY <1>0, <1>3 DEF CopiedTo, Copies
  <2>2. Before(t)' = Before(t) /\ \A k \in Jobs : Wanted(k)' = Wanted(k)
    BY <1>0 DEF Before, Wanted, Stored
  <2>3. Added(t)' = Added(t)
    BY <1>3, <2>2 DEF Added
  <2>4. \A place : InOrder(t, place)' <=> InOrder(t, place)
    <3>1. \A p \in CopiedTo(t) : p[1] \in Jobs
      BY <1>0, CopiedPairs
    <3> QED
      BY <1>3, <2>1, <2>2, <3>1 DEF InOrder
  <2> QED
    BY <1>1, <1>3, <2>1, <2>2, <2>3, <2>4 DEF OldKept, Shuffled
<1> QED
  BY <1>0, <1>2, <1>3, AppendedGrows DEF AddedOK

LEMMA AppendInit == Init => AppendInv
<1> SUFFICES ASSUME Init PROVE AppendInv
  OBVIOUS
<1>0. TypeOK /\ Targets \subseteq Names /\ Temps \subseteq Names /\ Targets \cap Temps = {}
  BY TypeInit, NameAssumption DEF Names
<1>1. LastingOK
  <2>1. /\ \A t \in Targets : names[t] \in {NoFile, <<"old", t>>}
        /\ \A n \in Temps : names[n] = NoFile
        /\ \A j \in Jobs : handle[j] = NoFile /\ pc[j] # "copy"
        /\ NoFile \notin Lasting
    BY <1>0, StoreAssumption DEF Init, Lasting
  <2>2. \A t \in Targets : <<"old", t>> \in Lasting /\ Owner(<<"old", t>>) = t
    BY DEF Lasting, FileIds, Owner
  <2> QED
    BY <2>1, <2>2 DEF LastingOK
<1>2. FreshOK
  BY FreshInit
<1>3. TextOK /\ CopiedOK
  BY DEF Init, TextOK, CopiedOK
<1>4. ASSUME NEW t \in Targets
      PROVE  OldKept(t) /\ Shuffled(t)
  <2>1. Now(t) = Before(t)
    <3>1. CASE original[t] = NoFile
      <4>1. names[t] = NoFile
        BY <1>0, <3>1 DEF Init
      <4> QED
        BY <3>1, <4>1 DEF Now, Before, Read
    <3>2. CASE original[t] # NoFile
      <4>1. names[t] = <<"old", t>> /\ <<"old", t>> \in FileIds
        BY <1>0, <3>2 DEF Init, FileIds
      <4>2. <<"old", t>>[1] = "old" /\ <<"old", t>>[2] = t
        OBVIOUS
      <4>3. data[<<"old", t>>] = original[t] /\ <<"old", t>> # NoFile
        BY <3>2, <4>1, <4>2, StoreAssumption DEF Init
      <4> QED
        BY <3>2, <4>1, <4>3 DEF Now, Before, Read
    <3> QED
      BY <3>1, <3>2
  <2>2. CopiedTo(t) = {}
    BY DEF Init, CopiedTo
  <2>3. Len(Before(t)) \in Nat
    BY <1>0, ContentTypes
  <2>4. Added(t) = {}
    BY <2>1, <2>3 DEF Added
  <2> DEFINE none == [p \in {} |-> 0]
  <2>5. none \in Bijection({}, {})
    BY DEF Bijection, Injection, Surjection, IsInjective
  <2>6. InOrder(t, none)
    BY <2>2 DEF InOrder
  <2> HIDE DEF none
  <2>7. Shuffled(t)
    BY <2>2, <2>4, <2>5, <2>6 DEF Shuffled
  <2> QED
    BY <2>1, <2>7 DEF OldKept
<1> QED
  BY <1>1, <1>2, <1>3, <1>4 DEF AppendInv, AddedOK

(* Appends to one file, any number of them and however they interleave and *)
(* fail, lose nothing and add nothing else: the file is the old one        *)
(* followed by the pieces that each has copied, in its order; also when    *)
(* uploads to other files share their temporary file.                      *)
THEOREM NothingAppendedIsLost == Spec => []AppendsAddUp
<1>1. BaseInv /\ BaseInv' /\ AppendInv /\ [Next]_vars => AppendInv'
  <2> SUFFICES ASSUME BaseInv, BaseInv', AppendInv, [Next]_vars PROVE AppendInv'
    OBVIOUS
  <2>1. CASE UNCHANGED vars
    <3> USE <2>1 DEF vars, Created, Wanted, Stored
    <3>1. LastingOK' /\ FreshOK' /\ TextOK' /\ CopiedOK'
      BY DEF AppendInv, LastingOK, FreshOK, TextOK, CopiedOK, Appended, Lasting, Owner
    <3>2. \A t : Appended(t)' = Appended(t) /\ OldKept(t)' = OldKept(t)
      BY DEF Appended, OldKept, Before, Now, Read
    <3>3. \A t : /\ CopiedTo(t)' = CopiedTo(t) /\ Added(t)' = Added(t)
                /\ \A place : InOrder(t, place)' = InOrder(t, place)
      BY DEF InOrder, CopiedTo, Added, Before, Now, Read
    <3> QED
      BY <3>1, <3>2, <3>3 DEF AppendInv, AddedOK, Shuffled
  <2>2. CASE \E j \in Jobs : Step(j)
    BY <2>2, LastingStep, FreshStep, TextStep, CopiedStep, AddedStep
       DEF AppendInv, BaseInv
  <2> QED
    BY <2>1, <2>2 DEF Next, Done
<1>2. AppendInv => AppendsAddUp
  BY DEF AppendInv, AppendsAddUp, AddedOK, Appended, OldKept, Shuffled, Added,
     CopiedOK
<1>3. Spec => []BaseInv
  BY Typing, ReceivedKept, PTL DEF BaseInv
<1> QED
  BY AppendInit, <1>1, <1>2, <1>3, PTL DEF Spec
===============================================================================
