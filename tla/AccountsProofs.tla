---------------------------- MODULE AccountsProofs ----------------------------
(* What holds of the accounts for every size of the file, every set of       *)
(* handles and passwords and any number of tries.                            *)
EXTENDS Accounts, LeastNumber

-----------------------------------------------------------------------------
(* The invariant, part by part.                                              *)

(* Both copies of the file are made of records that stand at their number.   *)
FileOK ==
  /\ users \in [Ids -> Records] /\ cache \in [Ids -> Records] /\ cached \in BOOLEAN
  /\ \A i \in Ids : users[i].id \in {0, i}
  /\ \A i \in Ids : cache[i].id \in {0, i}

SessionOK ==
  /\ program \in {"off", "board", "configure"} /\ stage \in Stages
  /\ step \in 0..13 /\ editing \in BOOLEAN
  /\ handle \in Handles
  /\ password \in Passwords \cup {NoPassword}
  /\ confirm \in Passwords \cup {NoPassword}
  /\ wrong \in 0..Attempts /\ empty \in 0..Attempts
  /\ stage = "none" => wrong = 0 /\ empty = 0
  /\ stage \in {"handle", "password"} => wrong < Attempts /\ empty < Attempts
  /\ userId \in 0..UsersMax /\ user \in Records
  /\ program = "configure" => user = NoUser \/ user.id \in Ids

TypeInv == FileOK /\ SessionOK

-----------------------------------------------------------------------------
(* Lemmas about the operators of users.c.                                    *)

(* Records are made of a number, a handle, a password and a flag.            *)
LEMMA RecordTyped ==
  ASSUME NEW id \in 0..UsersMax, NEW h \in Handles,
         NEW p \in Passwords \cup {NoPassword}, NEW c \in BOOLEAN
  PROVE  /\ Record(id, h, p, c) \in Records
         /\ Record(id, h, p, c).id = id
         /\ Record(id, h, p, c).handle = h
         /\ Record(id, h, p, c).password = p
BY DEF Record, Records

(* No user is a user record.                                                  *)
LEMMA NoUserTyped ==
  /\ NoUser \in Records /\ NoUser.id = 0 /\ Blank \in Handles
  /\ UsersMax \in Nat /\ 1 \in Ids /\ 0 \in 0..UsersMax /\ Ids \subseteq 0..UsersMax
<1>1. Blank \in Handles
  BY AccountsAssumption DEF Blank
<1>2. UsersMax \in Nat \ {0}
  BY AccountsAssumption
<1>3. 0 \in 0..UsersMax /\ 1 \in Ids /\ Ids \subseteq 0..UsersMax
  BY <1>2 DEF Ids
<1>4. Record(0, Blank, NoPassword, FALSE) \in Records
      /\ Record(0, Blank, NoPassword, FALSE).id = 0
  <2>1. NoPassword \in Passwords \cup {NoPassword} /\ FALSE \in BOOLEAN
    OBVIOUS
  <2> QED
    BY <1>1, <1>3, <2>1, RecordTyped
<1> QED
  BY <1>1, <1>2, <1>3, <1>4 DEF NoUser

(* What is left over in the REU is typed as well.                            *)
LEMMA LeftoversTyped ==
  ASSUME NEW c \in Leftovers
  PROVE  c \in [Ids -> Records] /\ \A i \in Ids : c[i].id \in {0, i}
<1>1. CASE c = [i \in Ids |-> NoUser]
  BY <1>1, NoUserTyped
<1>2. CASE c = [i \in Ids |-> Record(i, <<"SYSOP", "">>, "PASS", FALSE)]
  <2>1. ASSUME NEW i \in Ids
        PROVE  /\ Record(i, <<"SYSOP", "">>, "PASS", FALSE) \in Records
               /\ Record(i, <<"SYSOP", "">>, "PASS", FALSE).id = i
    <3>1. i \in 0..UsersMax /\ <<"SYSOP", "">> \in Handles
          /\ "PASS" \in Passwords \cup {NoPassword} /\ FALSE \in BOOLEAN
      BY NoUserTyped, AccountsAssumption
    <3> QED
      BY <3>1, RecordTyped
  <2> QED
    BY <1>2, <2>1
<1> QED
  BY <1>1, <1>2 DEF Leftovers

(* All numbers on the disk are in range.                                     *)
LEMMA NumbersTyped ==
  ASSUME FileOK, NEW reach \in 0..UsersMax
  PROVE  UsersMax \in Nat /\ \A i \in 1..reach : users[i].id \in 0..UsersMax
<1>1. UsersMax \in Nat
  BY AccountsAssumption
<1>2. SUFFICES ASSUME NEW i \in 1..reach PROVE users[i].id \in 0..UsersMax
  BY <1>1
<1>3. i \in Ids /\ i \in 0..UsersMax
  BY <1>1 DEF Ids
<1>4. users[i].id \in {0, i}
  BY <1>3 DEF FileOK
<1> QED
  BY <1>1, <1>3, <1>4

(* user_by_handle returns 0 or the number of a record with that handle, and  *)
(* 0 only if, in what it scans, there is none.                               *)
LEMMA ByHandleFinds ==
  ASSUME FileOK, NEW h, NEW reach \in 0..UsersMax
  PROVE  LET id == ByHandle(h, reach)
         IN  \/ /\ id \in Ids /\ Seen[id].id = id /\ SameHandle(Seen[id].handle, h)
             \/ /\ id = 0
                /\ h = Blank \/ \A i \in (IF cached THEN Ids ELSE 1..reach) :
                                  Seen[i].id # 0 => ~SameHandle(Seen[i].handle, h)
<1> DEFINE found == {i \in (IF cached THEN Ids ELSE 1..reach) :
                       Seen[i].id # 0 /\ SameHandle(Seen[i].handle, h)}
           first == CHOOSE i \in found : \A j \in found : i <= j
<1>1. found \subseteq Ids
  <2>1. 1..reach \subseteq Ids
    BY NoUserTyped DEF Ids
  <2> QED
    BY <2>1
<1>2. \A i \in Ids : Seen[i].id \in {0, i}
  BY DEF FileOK, Seen
<1>3. CASE h = Blank \/ found = {}
  BY <1>3 DEF ByHandle
<1>4. CASE h # Blank /\ found # {}
  <2>1. found \subseteq Nat
    BY <1>1 DEF Ids
  <2>2. \E i \in found : \A j \in found : i <= j
    <3> HIDE DEF found
    <3> QED
      BY <2>1, <1>4, LeastNumberExists
  <2>3. first \in found
    BY <2>2
  <2>4. ByHandle(h, reach) = Seen[first].id
    BY <1>4 DEF ByHandle
  <2> HIDE DEF first
  <2>5. Seen[first].id = first /\ first \in Ids /\ SameHandle(Seen[first].handle, h)
    BY <2>3, <1>1, <1>2
  <2> QED
    BY <2>4, <2>5
<1> QED
  BY <1>3, <1>4

(* The highest number in what a scan reads.                                  *)
LEMMA HighestBounds ==
  ASSUME FileOK, NEW reach \in 0..UsersMax
  PROVE  /\ Highest(reach) \in 0..UsersMax
         /\ \A i \in 1..reach : users[i].id <= Highest(reach)
<1> DEFINE T == {n \in Nat : \A i \in 1..reach : users[i].id <= n}
           IsHighest(n) == /\ \A i \in 1..reach : users[i].id <= n
                           /\ n = 0 \/ \E i \in 1..reach : users[i].id = n
<1>1. UsersMax \in Nat /\ \A i \in 1..reach : users[i].id \in 0..UsersMax
  BY NumbersTyped
<1>2. UsersMax \in T
  BY <1>1
<1>3. PICK m \in T : \A n \in T : m <= n
  <2> HIDE DEF T
  <2> QED
    BY <1>2, LeastNumberExists DEF T
<1>4. m \in 0..UsersMax
  BY <1>1, <1>2, <1>3
<1>5. m = 0 \/ \E i \in 1..reach : users[i].id = m
  <2>1. SUFFICES ASSUME m # 0, \A i \in 1..reach : users[i].id # m
                 PROVE  FALSE
    OBVIOUS
  <2>2. m - 1 \in Nat /\ \A i \in 1..reach : users[i].id <= m - 1
    BY <1>1, <1>4, <2>1
  <2>3. m - 1 \in T /\ ~(m <= m - 1)
    BY <2>2, <1>4
  <2> QED
    BY <2>3, <1>3
<1>6. \E n \in 0..UsersMax : IsHighest(n)
  BY <1>3, <1>4, <1>5
<1>7. Highest(reach) = CHOOSE n \in 0..UsersMax : IsHighest(n)
  BY DEF Highest
<1> QED
  BY <1>6, <1>7

(* The next number is 0 or one that no record read bears.                    *)
LEMMA NextIdIsFree ==
  ASSUME FileOK, NEW reach \in 0..UsersMax
  PROVE  /\ NextId(reach) \in 0..UsersMax
         /\ \A i \in 1..reach : users[i].id # 0 => users[i].id # NextId(reach)
<1>1. UsersMax \in Nat /\ \A i \in 1..reach : users[i].id \in 0..UsersMax
  BY NumbersTyped
<1> QED
  BY <1>1, HighestBounds DEF NextId

(* user_save leaves every record at its number, on the disk and in the copy. *)
LEMMA SaveTyped ==
  ASSUME FileOK, NEW r \in Records, Save(r) \/ SaveFails
  PROVE  FileOK'
<1>1. CASE Save(r)
  <2>1. users' \in [Ids -> Records] /\ \A i \in Ids : users'[i].id \in {0, i}
    BY <1>1 DEF Save, FileOK
  <2>2. cache' \in [Ids -> Records] /\ \A i \in Ids : cache'[i].id \in {0, i}
    BY <1>1 DEF Save, FileOK
  <2> QED
    BY <1>1, <2>1, <2>2 DEF Save, FileOK
<1>2. CASE SaveFails
  BY <1>2 DEF SaveFails, file, FileOK
<1> QED
  BY <1>1, <1>2

(* What a load leaves in the REU has its type.                                *)
LEMMA LoadTyped ==
  ASSUME FileOK, CacheLoad, UNCHANGED users
  PROVE  FileOK'
<1>1. CASE UseREU
  <2>1. PICK n \in 0..UsersMax :
          cache' = [i \in Ids |-> IF i <= n THEN users[i] ELSE cache[i]]
    <3>1. UsersMax \in 0..UsersMax
      BY NoUserTyped
    <3> QED
      BY <1>1, <3>1 DEF CacheLoad
  <2>2. cached' = TRUE
    BY <1>1 DEF CacheLoad
  <2> QED
    BY <2>1, <2>2 DEF FileOK
<1>2. CASE ~UseREU
  BY <1>2 DEF CacheLoad, FileOK
<1> QED
  BY <1>1, <1>2

(* A step that leaves the session keeps its types.                            *)
LEMMA NoSessionTyped ==
  ASSUME NoSession, program' \in {"off", "board", "configure"}
  PROVE  SessionOK'
<1>1. 0 \in 0..Attempts /\ 0 < Attempts
  <2>1. Attempts \in Nat \ {0}
    BY AccountsAssumption
  <2> QED
    BY <2>1
<1>2. 0 \in 0..13 /\ 0 \in 0..UsersMax
  BY NoUserTyped
<1> QED
  BY <1>1, <1>2, NoUserTyped DEF NoSession, SessionOK, Stages

-----------------------------------------------------------------------------
(* Types.                                                                    *)

LEMMA InitTyped ==
  ASSUME AccountsInit
  PROVE  TypeInv
<1>1. FileOK
  <2>1. <<"SYSOP", "">> \in Handles /\ "PASS" \in Passwords \cup {NoPassword}
        /\ TRUE \in BOOLEAN /\ 1 \in 0..UsersMax
    BY AccountsAssumption, NoUserTyped
  <2>2. Record(1, <<"SYSOP", "">>, "PASS", TRUE) \in Records
        /\ Record(1, <<"SYSOP", "">>, "PASS", TRUE).id = 1
    BY <2>1 DEF Record, Records
  <2>3. users \in [Ids -> Records] /\ \A i \in Ids : users[i].id \in {0, i}
    BY <2>2, NoUserTyped DEF AccountsInit
  <2> QED
    BY <2>3, LeftoversTyped DEF AccountsInit, FileOK
<1>2. SessionOK
  <2>1. 0 \in 0..Attempts /\ 0 < Attempts
    <3>1. Attempts \in Nat \ {0}
      BY AccountsAssumption
    <3> QED
      BY <3>1
  <2>2. 0 \in 0..13 /\ 0 \in 0..UsersMax
    BY NoUserTyped
  <2> QED
    BY <2>1, <2>2, NoUserTyped DEF AccountsInit, SessionOK, Stages
<1> QED
  BY <1>1, <1>2 DEF TypeInv

(* A registration step leads on, or back to the list.                        *)
LEMMA ProceedTyped ==
  ASSUME SessionOK, NEW n \in 0..13, Proceed(n)
  PROVE  step' \in {11, n} /\ editing' \in BOOLEAN
<1>1. CASE editing
  <2>1. step' = 11 /\ editing' = FALSE
    BY <1>1 DEF Proceed
  <2> QED
    BY <2>1
<1>2. CASE ~editing
  <2>1. step' = n /\ editing' = editing
    BY <1>2 DEF Proceed
  <2> QED
    BY <2>1 DEF SessionOK
<1> QED
  BY <1>1, <1>2

(* Actions of callers that leave the file alone.                             *)
LEMMA TalkTyped ==
  ASSUME TypeInv,
         \/ Call \/ EmptyAnswer \/ New \/ Apply \/ Decline
         \/ \E h \in Handles : EnterHandle(h) \/ RegHandle(h)
         \/ \E p \in Passwords : RegPassword(p) \/ RegConfirm(p)
         \/ RegAgree \/ RegRefuse \/ RegField \/ RegRows \/ RegChange \/ RegGoOn
  PROVE  SessionOK' /\ UNCHANGED <<file, program>>
<1> USE DEF TypeInv, SessionOK, Stages, file, typed, account, Hears, At
<1>1. Attempts \in Nat \ {0} /\ Blank \in Handles
  BY AccountsAssumption, NoUserTyped
<1>2. CASE Call
  BY <1>2, <1>1 DEF Call
<1>3. CASE EmptyAnswer
  <2>1. empty + 1 \in 0..Attempts /\ (empty + 1 < Attempts \/ stage' = "over")
    BY <1>3, <1>1 DEF EmptyAnswer
  <2> QED
    BY <1>3, <2>1 DEF EmptyAnswer
<1>4. CASE New \/ Apply
  <2>1. stage' = "register" /\ step' = 0 /\ editing' = FALSE
        /\ handle' = Blank /\ password' = NoPassword
        /\ UNCHANGED <<file, confirm, wrong, empty, account, program>>
    BY <1>4 DEF New, Apply, Register
  <2>2. 0 \in 0..13 /\ stage' \in Stages
    BY <2>1
  <2> QED
    BY <2>1, <2>2, <1>1
<1>5. CASE Decline
  BY <1>5 DEF Decline
<1>6. ASSUME NEW h \in Handles, EnterHandle(h)
      PROVE  SessionOK' /\ UNCHANGED <<file, program>>
  BY <1>6 DEF EnterHandle
<1>7. ASSUME NEW h \in Handles, RegHandle(h)
      PROVE  SessionOK' /\ UNCHANGED <<file, program>>
  <2>1. stage = "register"
        /\ UNCHANGED <<file, stage, confirm, wrong, empty, account, program>>
    BY <1>7 DEF RegHandle
  <2>2. handle' \in Handles /\ password' \in Passwords \cup {NoPassword}
        /\ step' \in 0..13 /\ editing' \in BOOLEAN
    BY <1>7, <1>1, ProceedTyped DEF RegHandle
  <2> QED
    BY <2>1, <2>2
<1>8. ASSUME NEW p \in Passwords, RegPassword(p)
      PROVE  SessionOK' /\ UNCHANGED <<file, program>>
  BY <1>8 DEF RegPassword
<1>9. ASSUME NEW p \in Passwords, RegConfirm(p)
      PROVE  SessionOK' /\ UNCHANGED <<file, program>>
  <2>1. stage = "register"
        /\ UNCHANGED <<file, stage, handle, wrong, empty, account, program>>
    BY <1>9 DEF RegConfirm
  <2>2. confirm' \in Passwords \cup {NoPassword} /\ password' \in Passwords \cup {NoPassword}
    BY <1>9 DEF RegConfirm
  <2>3. Proceed(4) \/ (step' = 2 /\ editing' = FALSE)
    BY <1>9 DEF RegConfirm
  <2>4. step' \in 0..13 /\ editing' \in BOOLEAN
    <3>1. CASE Proceed(4)
      <4>1. 4 \in 0..13
        OBVIOUS
      <4> QED
        BY <3>1, <4>1, ProceedTyped
    <3>2. CASE step' = 2 /\ editing' = FALSE
      <4>1. step' \in 0..13
        BY <3>2
      <4>2. editing' \in BOOLEAN
        BY <3>2, Zenon
      <4> QED
        BY <4>1, <4>2
    <3> QED
      BY <2>3, <3>1, <3>2
  <2> QED
    BY <2>1, <2>2, <2>4
<1>10. CASE RegAgree \/ RegRefuse
  BY <1>10, <1>1 DEF RegAgree, RegRefuse
<1>11. CASE RegField
  <2>1. PICK n \in 4..9 : At(n) /\ Proceed(n + 1)
    BY <1>11 DEF RegField
  <2>2. n + 1 \in 0..13
    OBVIOUS
  <2>3. step' \in 0..13 /\ editing' \in BOOLEAN /\ stage = "register" /\ UNCHANGED program
    BY <2>1, <2>2, ProceedTyped
  <2> QED
    BY <1>11, <2>3 DEF RegField
<1>12. CASE RegRows
  BY <1>12 DEF RegRows
<1>13. CASE RegChange
  <2>1. step' \in 0..13 /\ editing' \in BOOLEAN
        /\ handle' \in Handles /\ password' \in Passwords \cup {NoPassword}
    BY <1>13, <1>1 DEF RegChange, FieldSteps
  <2> QED
    BY <1>13, <2>1 DEF RegChange
<1>14. CASE RegGoOn
  BY <1>14 DEF RegGoOn
<1> QED
  BY <1>2, <1>3, <1>4, <1>5, <1>6, <1>7, <1>8, <1>9, <1>10, <1>11, <1>12,
     <1>13, <1>14

(* What actions that write the file write is typed.                          *)
LEMMA WriteTyped ==
  ASSUME TypeInv,
         \/ RegFinish \/ ToggleClear
         \/ \E h \in Handles : CreateUser(h) \/ EditAccount(h)
         \/ \E p \in Passwords : ResetPassword(p)
         \/ EditProfile \/ DeleteUser
  PROVE  TypeInv'
<1> USE DEF TypeInv
<1>1. UsersMax \in Nat /\ Reach \subseteq 0..UsersMax /\ Blank \in Handles
  BY NoUserTyped DEF Reach
<1>2. CASE RegFinish
  <2>1. PICK reach \in 0..UsersMax :
          LET new == Record(NextId(reach), handle, password, FALSE)
          IN  \/ /\ Valid(handle, reach) /\ new.id # 0 /\ Save(new)
                 /\ step' = 12 /\ userId' = new.id /\ user' = new
                 /\ UNCHANGED <<stage, handle>>
              \/ /\ ~Valid(handle, reach) /\ step' = 1 /\ handle' = Blank
                 /\ UNCHANGED <<file, stage, account>>
              \/ /\ Valid(handle, reach)
                 /\ \/ new.id = 0 /\ UNCHANGED file
                    \/ new.id # 0 /\ SaveFails
                 /\ stage' = "over" /\ UNCHANGED <<step, handle, account>>
    BY <1>1, <1>2 DEF RegFinish
  <2> DEFINE new == Record(NextId(reach), handle, password, FALSE)
  <2>2. NextId(reach) \in 0..UsersMax
    BY NextIdIsFree
  <2>3. new \in Records /\ new.id = NextId(reach)
    BY <2>2, RecordTyped DEF SessionOK
  <2>4. /\ stage = "register" /\ program = "board"
        /\ UNCHANGED <<editing, password, confirm, wrong, empty, program>>
    BY <1>2 DEF RegFinish, At, Hears
  <2> HIDE DEF new
  <2>5. CASE /\ new.id # 0 /\ Save(new) /\ step' = 12 /\ userId' = new.id /\ user' = new
             /\ UNCHANGED <<stage, handle>>
    <3>1. FileOK'
      BY <2>3, <2>5, SaveTyped
    <3>2. SessionOK'
      BY <2>2, <2>3, <2>4, <2>5 DEF SessionOK
    <3> QED
      BY <3>1, <3>2
  <2>6. CASE step' = 1 /\ handle' = Blank /\ UNCHANGED <<file, stage, account>>
    BY <1>1, <2>4, <2>6 DEF SessionOK, FileOK, file, account
  <2>7. CASE /\ UNCHANGED file \/ SaveFails
             /\ stage' = "over" /\ UNCHANGED <<step, handle, account>>
    <3>1. FileOK'
      BY <2>7 DEF SaveFails, file, FileOK
    <3>2. SessionOK'
      BY <2>4, <2>7 DEF SessionOK, account, Stages
    <3> QED
      BY <3>1, <3>2
  <2> QED
    BY <2>1, <2>5, <2>6, <2>7 DEF new
<1>3. CASE ToggleClear
  <2>1. user' = [user EXCEPT !.clear = ~@] /\ UNCHANGED <<stage, typed, userId, program>>
    BY <1>3 DEF ToggleClear, Hears
  <2>2. user' \in Records /\ user'.id = user.id
    BY <2>1 DEF SessionOK, Records
  <2>3. FileOK'
    BY <1>3, <2>2, SaveTyped DEF ToggleClear
  <2>4. program = "board"
    BY <1>3 DEF ToggleClear, Hears
  <2> QED
    BY <2>1, <2>2, <2>3, <2>4 DEF SessionOK, typed
<1>4. ASSUME NEW h \in Handles, CreateUser(h)
      PROVE  TypeInv'
  <2>1. PICK reach \in 0..UsersMax :
          /\ NextId(reach) # 0
          /\ Save(Record(NextId(reach), h, "PASS", FALSE)) \/ SaveFails
    BY <1>1, <1>4 DEF CreateUser
  <2>2. Record(NextId(reach), h, "PASS", FALSE) \in Records
    BY NextIdIsFree, AccountsAssumption DEF Record, Records
  <2>3. FileOK'
    BY <2>1, <2>2, SaveTyped
  <2> QED
    BY <1>4, <2>3 DEF CreateUser, Administers, SessionOK, typed
<1>5. ASSUME NEW h \in Handles, EditAccount(h)
      PROVE  TypeInv'
  <2>1. user' = [user EXCEPT !.handle = h]
    BY <1>5 DEF EditAccount
  <2>2. /\ program = "configure" /\ user # NoUser
        /\ UNCHANGED <<program, stage, typed, userId>>
    BY <1>5 DEF EditAccount, Administers
  <2>3. user \in Records /\ user.id \in Ids
    BY <2>2 DEF SessionOK
  <2>4. user' \in Records /\ user'.id = user.id
    BY <2>1, <2>3 DEF Records
  <2>5. FileOK'
    BY <1>5, <2>4, SaveTyped DEF EditAccount
  <2>6. SessionOK'
    BY <2>2, <2>3, <2>4 DEF SessionOK, typed
  <2> QED
    BY <2>5, <2>6
<1>6. CASE EditProfile
  <2>1. user' = [user EXCEPT !.clear = ~@]
    BY <1>6 DEF EditProfile
  <2>2. /\ program = "configure" /\ user # NoUser
        /\ UNCHANGED <<program, stage, typed, userId>>
    BY <1>6 DEF EditProfile, Administers
  <2>3. user \in Records /\ user.id \in Ids
    BY <2>2 DEF SessionOK
  <2>4. user' \in Records /\ user'.id = user.id
    BY <2>1, <2>3 DEF Records
  <2>5. FileOK'
    BY <1>6, <2>4, SaveTyped DEF EditProfile
  <2>6. SessionOK'
    BY <2>2, <2>3, <2>4 DEF SessionOK, typed
  <2> QED
    BY <2>5, <2>6
<1>7. ASSUME NEW p \in Passwords, ResetPassword(p)
      PROVE  TypeInv'
  <2>1. user.id \in Ids
    BY <1>7 DEF ResetPassword, Administers, SessionOK
  <2>2. [users[user.id] EXCEPT !.password = p] \in Records
    BY <2>1 DEF FileOK, Records
  <2>3. FileOK'
    BY <1>7, <2>2, SaveTyped DEF ResetPassword
  <2> QED
    BY <1>7, <2>3 DEF ResetPassword, Administers, SessionOK, typed
<1>8. CASE DeleteUser
  <2>1. user.id \in Ids
    BY <1>8 DEF DeleteUser, Administers, SessionOK
  <2>2. [users[user.id] EXCEPT !.handle = Blank] \in Records
    BY <1>1, <2>1 DEF FileOK, Records
  <2>3. FileOK'
    BY <1>8, <2>2, SaveTyped DEF DeleteUser
  <2> QED
    BY <1>8, <2>3, NoUserTyped DEF DeleteUser, Administers, SessionOK, typed
<1> QED
  BY <1>2, <1>3, <1>4, <1>5, <1>6, <1>7, <1>8

(* Logging in gives the session a record of the file or of the copy.         *)
LEMMA EnterPasswordTyped ==
  ASSUME TypeInv, NEW p \in Passwords, EnterPassword(p)
  PROVE  TypeInv'
<1> USE DEF TypeInv
<1>1. UsersMax \in Nat /\ Reach \subseteq 0..UsersMax /\ Blank \in Handles /\ Ids \subseteq 0..UsersMax
  BY NoUserTyped DEF Reach
<1>2. Attempts \in Nat \ {0}
  BY AccountsAssumption
<1>3. /\ stage = "password" /\ program = "board" /\ password' = p
      /\ UNCHANGED <<file, step, editing, confirm, empty, program>>
  BY DEF EnterPassword, Hears
<1>4. FileOK'
  BY <1>3 DEF file, FileOK
<1>5. PICK reach \in 0..UsersMax :
        LET id == ByHandle(handle, reach)
            refused == wrong + 1 >= Attempts
        IN  \/ /\ id = 0 /\ stage' = "apply"
               /\ UNCHANGED <<handle, wrong, account>>
            \/ /\ id # 0 /\ PasswordMatches(Seen[id], p)
               /\ stage' = "menu" /\ userId' = id /\ user' = Seen[id]
               /\ UNCHANGED <<handle, wrong>>
            \/ /\ id # 0
               /\ ~PasswordMatches(Seen[id], p) \/ (~cached /\ "read" \in Faults)
               /\ wrong' = wrong + 1
               /\ stage' = IF refused THEN "over" ELSE "handle"
               /\ handle' = IF refused THEN handle ELSE Blank
               /\ UNCHANGED account
  BY <1>1 DEF EnterPassword
<1> DEFINE id == ByHandle(handle, reach)
<1>6. id # 0 => id \in Ids /\ Seen[id] \in Records
  BY ByHandleFinds DEF Seen, FileOK
<1> HIDE DEF id
<1>7. CASE id = 0 /\ stage' = "apply" /\ UNCHANGED <<handle, wrong, account>>
  BY <1>3, <1>4, <1>7 DEF SessionOK, account, Stages
<1>8. CASE /\ id # 0 /\ stage' = "menu" /\ userId' = id /\ user' = Seen[id]
           /\ UNCHANGED <<handle, wrong>>
  BY <1>1, <1>3, <1>4, <1>6, <1>8 DEF SessionOK, Stages
<1>9. CASE /\ wrong' = wrong + 1
           /\ stage' = IF wrong + 1 >= Attempts THEN "over" ELSE "handle"
           /\ handle' = IF wrong + 1 >= Attempts THEN handle ELSE Blank
           /\ UNCHANGED account
  <2>1. wrong + 1 \in 0..Attempts /\ handle' \in Handles /\ stage' \in Stages
        /\ (stage' = "handle" => wrong + 1 < Attempts) /\ stage' \in {"over", "handle"}
    BY <1>1, <1>2, <1>3, <1>9 DEF SessionOK, Stages
  <2> QED
    BY <1>3, <1>4, <1>9, <2>1 DEF SessionOK, account
<1> QED
  BY <1>5, <1>7, <1>8, <1>9 DEF id

(* Every step keeps the types.                                                *)
LEMMA TypeStep ==
  ASSUME TypeInv, [AccountsNext]_accountVars
  PROVE  TypeInv'
<1> USE DEF TypeInv
<1>1. CASE Boot
  <2>1. program' \in {"off", "board", "configure"} /\ NoSession
    BY <1>1 DEF Boot, SessionOK
  <2>2. SessionOK'
    BY <2>1, NoSessionTyped
  <2>3. CASE CacheLoad /\ UNCHANGED users
    BY <2>2, <2>3, LoadTyped
  <2>4. CASE users' = [i \in Ids |-> NoUser] /\ cached' = FALSE /\ UNCHANGED cache
    BY <2>2, <2>4, NoUserTyped DEF FileOK
  <2> QED
    BY <1>1, <2>3, <2>4 DEF Boot
<1>2. CASE HangUp
  <2>1. program' = "board" /\ NoSession
    BY <1>2 DEF HangUp
  <2>2. SessionOK'
    BY <2>1, NoSessionTyped
  <2>3. FileOK'
    BY <1>2, SaveTyped DEF HangUp, SessionOK, FileOK, file
  <2> QED
    BY <2>2, <2>3
<1>3. CASE PowerOff
  <2>1. SessionOK'
    BY <1>3, NoSessionTyped DEF PowerOff
  <2> QED
    BY <1>3, <2>1, LeftoversTyped DEF PowerOff, FileOK
<1>4. CASE Configure
  <2>1. SessionOK'
    BY <1>4, NoSessionTyped DEF Configure
  <2> QED
    BY <1>4, <2>1 DEF Configure, FileOK
<1>5. ASSUME NEW i \in Ids, PickUser(i)
      PROVE  TypeInv'
  <2>1. users[i] \in Records /\ users[i].id = i
    BY <1>5 DEF PickUser, IsLive, FileOK
  <2> QED
    BY <1>5, <2>1 DEF PickUser, Administers, SessionOK, FileOK, file, typed
<1>6. CASE BackToUsers
  BY <1>6, NoUserTyped DEF BackToUsers, Administers, SessionOK, FileOK, file, typed
<1>7. CASE UNCHANGED accountVars
  BY <1>7 DEF accountVars, SessionOK, FileOK, file, typed, account
<1>8. ASSUME SessionOK' /\ UNCHANGED <<file, program>>
      PROVE  TypeInv'
  BY <1>8 DEF FileOK, file
<1> QED
  BY <1>1, <1>2, <1>3, <1>4, <1>5, <1>6, <1>7, <1>8, TalkTyped, WriteTyped,
     EnterPasswordTyped
     DEF AccountsNext, SwitchOff, Crash

(* Whatever fails, every variable keeps its type: records stand at the       *)
(* number they bear and no number past the end of the file is given.         *)
THEOREM AccountsAreTyped == AccountsSpec => []AccountsTypeOK
<1>1. AccountsInit => TypeInv
  BY InitTyped
<1>2. TypeInv /\ [AccountsNext]_accountVars => TypeInv'
  BY TypeStep
<1>3. TypeInv => AccountsTypeOK
  BY DEF TypeInv, FileOK, SessionOK, AccountsTypeOK
<1> QED
  BY <1>1, <1>2, <1>3, PTL DEF AccountsSpec

-----------------------------------------------------------------------------
(* The copy in the REU.                                                      *)

(* The file changes by saving one record, by loading the copy, or while no   *)
(* copy is valid.                                                            *)
LEMMA FileMoves ==
  ASSUME TypeInv, [AccountsNext]_accountVars
  PROVE  \/ UNCHANGED file
         \/ \E r \in Records : Save(r)
         \/ CacheLoad /\ UNCHANGED users
         \/ cached' = FALSE
<1> USE DEF TypeInv
<1>1. CASE Boot
  BY <1>1 DEF Boot
<1>2. CASE HangUp
  BY <1>2 DEF HangUp, SaveFails, SessionOK
<1>3. CASE PowerOff \/ Configure
  BY <1>3 DEF PowerOff, Configure
<1>4. CASE ToggleClear
  <2>1. user' \in Records
    BY <1>4, TypeStep DEF SessionOK, AccountsNext
  <2> QED
    BY <1>4, <2>1 DEF ToggleClear, SaveFails
<1>5. CASE RegFinish
  <2>1. user' \in Records
    BY <1>5, TypeStep DEF SessionOK, AccountsNext
  <2> QED
    BY <1>5, <2>1 DEF RegFinish, SaveFails
<1>6. ASSUME NEW h \in Handles, CreateUser(h)
      PROVE  UNCHANGED file \/ \E r \in Records : Save(r)
  <2>1. PICK reach \in Reach : Save(Record(NextId(reach), h, "PASS", FALSE)) \/ SaveFails
    BY <1>6 DEF CreateUser
  <2>2. reach \in 0..UsersMax
    BY NoUserTyped DEF Reach
  <2>3. Record(NextId(reach), h, "PASS", FALSE) \in Records
    BY <2>2, NextIdIsFree, AccountsAssumption DEF Record, Records
  <2> QED
    BY <2>1, <2>3 DEF SaveFails
<1>7. ASSUME NEW h \in Handles, EditAccount(h)
      PROVE  UNCHANGED file \/ \E r \in Records : Save(r)
  <2>1. user' \in Records
    BY <1>7, TypeStep DEF SessionOK, AccountsNext
  <2> QED
    BY <1>7, <2>1 DEF EditAccount, SaveFails
<1>8. CASE EditProfile
  <2>1. user' \in Records
    BY <1>8, TypeStep DEF SessionOK, AccountsNext
  <2> QED
    BY <1>8, <2>1 DEF EditProfile, SaveFails
<1>9. ASSUME NEW p \in Passwords, ResetPassword(p)
      PROVE  UNCHANGED file \/ \E r \in Records : Save(r)
  <2>1. user.id \in Ids
    BY <1>9 DEF ResetPassword, Administers, SessionOK
  <2>2. [users[user.id] EXCEPT !.password = p] \in Records
    BY <2>1 DEF FileOK, Records
  <2> QED
    BY <1>9, <2>2 DEF ResetPassword, SaveFails
<1>10. CASE DeleteUser
  <2>1. user.id \in Ids
    BY <1>10 DEF DeleteUser, Administers, SessionOK
  <2>2. [users[user.id] EXCEPT !.handle = Blank] \in Records
    BY <2>1, NoUserTyped DEF FileOK, Records
  <2> QED
    BY <1>10, <2>2 DEF DeleteUser, SaveFails
<1>11. ASSUME NEW p \in Passwords, EnterPassword(p)
       PROVE  UNCHANGED file
  BY <1>11 DEF EnterPassword
<1>12. ASSUME NEW i \in Ids, PickUser(i)
       PROVE  UNCHANGED file
  BY <1>12 DEF PickUser
<1>13. CASE BackToUsers \/ UNCHANGED accountVars
  BY <1>13 DEF BackToUsers, accountVars, file
<1> QED
  BY <1>1, <1>2, <1>3, <1>4, <1>5, <1>6, <1>7, <1>8, <1>9, <1>10, <1>11, <1>12,
     <1>13, TalkTyped DEF AccountsNext, SwitchOff, Crash

CopyInv == cached => cache = users

(* Every step that writes the file writes the copy as well.                   *)
LEMMA CopyStep ==
  ASSUME "load" \notin Faults, TypeInv, CopyInv, [AccountsNext]_accountVars
  PROVE  CopyInv'
<1>1. CASE UNCHANGED file
  BY <1>1 DEF file, CopyInv
<1>2. ASSUME NEW r \in Records, Save(r)
      PROVE  CopyInv'
  BY <1>2 DEF Save, CopyInv
<1>3. CASE CacheLoad /\ UNCHANGED users
  <2>1. CASE UseREU
    <3>1. cache' = [i \in Ids |-> IF i <= UsersMax THEN users[i] ELSE cache[i]]
      BY <1>3, <2>1 DEF CacheLoad
    <3>2. \A i \in Ids : i <= UsersMax
      BY NoUserTyped DEF Ids
    <3>3. cache' = users
      BY <3>1, <3>2 DEF TypeInv, FileOK
    <3> QED
      BY <1>3, <3>3 DEF CopyInv
  <2>2. CASE ~UseREU
    BY <1>3, <2>2 DEF CacheLoad, CopyInv
  <2> QED
    BY <2>1, <2>2
<1>4. CASE cached' = FALSE
  BY <1>4 DEF CopyInv
<1> QED
  BY <1>1, <1>2, <1>3, <1>4, FileMoves

(* If the load at boot reads the file to its end, what the board reads from  *)
(* the REU is the file, through every save, failed write and power loss.     *)
THEOREM CopyIsAlwaysTheFile ==
  ASSUME "load" \notin Faults
  PROVE  AccountsSpec => []CopyIsTheFile
<1>1. AccountsInit => TypeInv /\ CopyInv
  BY InitTyped DEF AccountsInit, CopyInv
<1>2. TypeInv /\ CopyInv /\ [AccountsNext]_accountVars => TypeInv' /\ CopyInv'
  BY TypeStep, CopyStep
<1>3. TypeInv /\ CopyInv => CopyIsTheFile
  BY DEF CopyInv, CopyIsTheFile
<1> QED
  BY <1>1, <1>2, <1>3, PTL DEF AccountsSpec

-----------------------------------------------------------------------------
(* Names.                                                                    *)

(* The account CONFIGURE has picked does not share its name with another.    *)
OwnName ==
  program = "configure" /\ user # NoUser /\ user.handle[1] # "" =>
    \A j \in Ids : j # user.id /\ IsLive(users[j]) => ~SameHandle(users[j].handle, user.handle)

(* Saving a record whose name no other record has keeps names different.     *)
LEMMA SaveKeepsNames ==
  ASSUME FileOK, HandlesAreUnique, NEW r \in Records, Save(r) \/ SaveFails,
         r.handle[1] # "" =>
           \A j \in Ids : j # r.id /\ IsLive(users[j]) => ~SameHandle(users[j].handle, r.handle)
  PROVE  HandlesAreUnique'
<1>1. CASE SaveFails
  BY <1>1 DEF SaveFails, file, HandlesAreUnique
<1>2. CASE Save(r)
  <2>1. users \in [Ids -> Records] /\ users' = [users EXCEPT ![r.id] = r]
    BY <1>2 DEF Save, FileOK
  <2>2. \A i \in Ids : users'[i] = IF i = r.id THEN r ELSE users[i]
    BY <2>1
  <2>3. SUFFICES ASSUME NEW i \in Ids, NEW j \in Ids, i # j,
                        IsLive(users'[i]), IsLive(users'[j]),
                        SameHandle(users'[i].handle, users'[j].handle)
                 PROVE  FALSE
    BY DEF HandlesAreUnique, IsLive, SameHandle
  <2>4. CASE i # r.id /\ j # r.id
    BY <2>2, <2>3, <2>4 DEF HandlesAreUnique
  <2>5. CASE i = r.id
    BY <2>2, <2>3, <2>5 DEF IsLive, SameHandle
  <2>6. CASE j = r.id
    BY <2>2, <2>3, <2>6 DEF IsLive, SameHandle
  <2> QED
    BY <2>4, <2>5, <2>6
<1> QED
  BY <1>1, <1>2

(* Saving a record under the name that it has in the file.                   *)
LEMMA SaveOwnName ==
  ASSUME FileOK, HandlesAreUnique, NEW r \in Records, Save(r) \/ SaveFails,
         r.id \in Ids, users[r.id].id = r.id, users[r.id].handle = r.handle
  PROVE  HandlesAreUnique'
<1>1. ASSUME r.handle[1] # "", NEW j \in Ids, j # r.id, IsLive(users[j]),
             SameHandle(users[j].handle, r.handle)
      PROVE  FALSE
  <2>1. r.id # 0
    BY DEF Ids
  <2>2. IsLive(users[r.id])
    BY <1>1, <2>1 DEF IsLive
  <2> QED
    BY <1>1, <2>2 DEF HandlesAreUnique
<1> QED
  BY <1>1, SaveKeepsNames

(* With scans that reach the end, a handle that is not found is nobody's.    *)
LEMMA NotFoundIsFree ==
  ASSUME FileOK, CopyInv, NEW h, h # Blank, ByHandle(h, UsersMax) = 0,
         NEW j \in Ids, IsLive(users[j])
  PROVE  ~SameHandle(users[j].handle, h)
<1>1. UsersMax \in 0..UsersMax /\ 0 \notin Ids
  BY NoUserTyped DEF Ids
<1>2. Seen = users
  BY DEF Seen, CopyInv
<1>3. j \in (IF cached THEN Ids ELSE 1..UsersMax) /\ users[j].id # 0
  BY DEF Ids, IsLive
<1> QED
  BY <1>1, <1>2, <1>3, ByHandleFinds

-----------------------------------------------------------------------------
(* Sessions.                                                                 *)

(* A session that has an account has the caller's own, as the file has it.   *)
SessionInv ==
  /\ program # "board" => stage = "none" /\ userId = 0
  /\ stage = "menu" => userId # 0
  /\ stage = "register" /\ step >= 12 => userId # 0
  /\ userId # 0 =>
       /\ stage = "menu" \/ (stage = "register" /\ step >= 12)
       /\ user.id = userId /\ users[userId].id = userId
       /\ users[userId].handle = user.handle /\ users[userId].password = user.password
       /\ SameHandle(handle, user.handle) /\ password = user.password

(* Without a session the account in work is nobody's.                         *)
LEMMA NoSessionInv ==
  ASSUME NoSession
  PROVE  SessionInv'
BY DEF NoSession, SessionInv

(* Talking changes the account of a session nowhere and the file nowhere.    *)
LEMMA TalkKeepsSession ==
  ASSUME TypeInv, SessionInv,
         \/ Call \/ EmptyAnswer \/ New \/ Apply \/ Decline
         \/ \E h \in Handles : EnterHandle(h) \/ RegHandle(h)
         \/ \E p \in Passwords : RegPassword(p) \/ RegConfirm(p)
         \/ RegAgree \/ RegRefuse \/ RegField \/ RegRows \/ RegChange \/ RegGoOn
  PROVE  SessionInv'
<1> USE DEF TypeInv, Hears, At, file, account, typed
<1>1. program = "board" /\ program' = "board" /\ UNCHANGED <<users, userId, user>>
  BY DEF Call, EmptyAnswer, New, Apply, Register, Decline, EnterHandle, RegHandle, RegPassword,
         RegConfirm, RegAgree, RegRefuse, RegField, RegRows, RegChange, RegGoOn
<1>2. CASE RegGoOn
  <2>1. stage = "register" /\ step \in {12, 13} /\ UNCHANGED <<handle, password>>
        /\ (stage' = "menu" \/ (stage' = "register" /\ step' = 13))
    BY <1>2 DEF RegGoOn
  <2> QED
    BY <1>1, <2>1 DEF SessionInv
<1>3. CASE ~RegGoOn
  <2>1. stage' # "menu" /\ stage # "menu"
    BY <1>3 DEF Call, EmptyAnswer, New, Apply, Register, Decline, EnterHandle, RegHandle, RegPassword,
         RegConfirm, RegAgree, RegRefuse, RegField, RegRows, RegChange
  <2>2. ~(stage = "register" /\ step >= 12)
    BY <1>3 DEF Call, EmptyAnswer, New, Apply, Register, Decline, EnterHandle, RegHandle, RegPassword,
         RegConfirm, RegAgree, RegRefuse, RegField, RegRows, RegChange
  <2>3. userId = 0
    BY <2>1, <2>2 DEF SessionInv
  <2>4. ~(stage' = "register" /\ step' >= 12)
    <3>1. CASE \E h \in Handles : RegHandle(h)
      <4>1. step' = step \/ Proceed(2)
        BY <3>1 DEF RegHandle
      <4>2. 2 \in 0..13
        OBVIOUS
      <4> QED
        BY <4>1, <4>2, <2>2, <3>1, ProceedTyped DEF RegHandle
    <3>2. CASE \E p \in Passwords : RegConfirm(p)
      <4>1. step' = 2 \/ Proceed(4)
        BY <3>2 DEF RegConfirm
      <4>2. 4 \in 0..13
        OBVIOUS
      <4> QED
        BY <4>1, <4>2, ProceedTyped
    <3>3. CASE RegField
      <4>1. PICK n \in 4..9 : Proceed(n + 1)
        BY <3>3 DEF RegField
      <4>2. n + 1 \in 0..13 /\ n + 1 < 12
        OBVIOUS
      <4> QED
        BY <4>1, <4>2, ProceedTyped
    <3>4. CASE RegRows \/ RegChange \/ RegAgree \/ RegRefuse
      BY <3>4 DEF RegRows, RegChange, FieldSteps, RegAgree, RegRefuse
    <3>5. CASE \/ Call \/ EmptyAnswer \/ New \/ Apply \/ Decline
               \/ \E h \in Handles : EnterHandle(h)
               \/ \E p \in Passwords : RegPassword(p)
      BY <3>5 DEF Call, EmptyAnswer, New, Apply, Register, Decline, EnterHandle, RegPassword
    <3> QED
      BY <1>3, <3>1, <3>2, <3>3, <3>4, <3>5
  <2> QED
    BY <1>1, <2>1, <2>3, <2>4 DEF SessionInv
<1> QED
  BY <1>2, <1>3

(* Who logs in types the password of the account with the handle typed.      *)
LEMMA LoginGivesOwn ==
  ASSUME TypeInv, CopyInv, SessionInv, NEW p \in Passwords, EnterPassword(p)
  PROVE  SessionInv'
<1>1. /\ stage = "password" /\ program' = "board" /\ password' = p
      /\ UNCHANGED users
  BY DEF EnterPassword, Hears, file
<1>2. userId = 0
  BY <1>1 DEF SessionInv
<1>3. PICK reach \in Reach :
        LET id == ByHandle(handle, reach)
        IN  \/ stage' \in {"apply", "over", "handle"} /\ UNCHANGED account
            \/ /\ id # 0 /\ PasswordMatches(Seen[id], p)
               /\ stage' = "menu" /\ userId' = id /\ user' = Seen[id]
               /\ UNCHANGED handle
  BY DEF EnterPassword
<1>4. CASE stage' \in {"apply", "over", "handle"} /\ UNCHANGED account
  BY <1>1, <1>2, <1>4 DEF SessionInv, account
<1>5. ASSUME NEW id, id = ByHandle(handle, reach), id # 0, PasswordMatches(Seen[id], p),
             stage' = "menu", userId' = id, user' = Seen[id], UNCHANGED handle
      PROVE  SessionInv'
  <2>1. reach \in 0..UsersMax
    BY NoUserTyped DEF Reach
  <2>2. Seen[id].id = id /\ SameHandle(Seen[id].handle, handle)
    BY <1>5, <2>1, ByHandleFinds DEF TypeInv
  <2>3. Seen = users
    BY DEF Seen, CopyInv
  <2> QED
    BY <1>1, <1>5, <2>2, <2>3 DEF SessionInv, PasswordMatches, SameHandle
<1> QED
  BY <1>3, <1>4, <1>5

(* Every step leaves the caller the owner of the account in work.             *)
LEMMA SessionStep ==
  ASSUME TypeInv, CopyInv, SessionInv, [AccountsNext]_accountVars
  PROVE  SessionInv'
<1> USE DEF TypeInv
<1>1. CASE Boot \/ HangUp \/ PowerOff \/ Configure
  BY <1>1, NoSessionInv DEF Boot, HangUp, PowerOff, Configure
<1>2. CASE ToggleClear
  <2>1. /\ stage = "menu" /\ program = "board" /\ user' = [user EXCEPT !.clear = ~@]
        /\ UNCHANGED <<program, stage, typed, userId>>
    BY <1>2 DEF ToggleClear, Hears
  <2>2. /\ userId # 0 /\ user \in Records
        /\ user.id = userId /\ users[userId].id = userId
        /\ users[userId].handle = user.handle /\ users[userId].password = user.password
        /\ SameHandle(handle, user.handle) /\ password = user.password
    BY <2>1 DEF SessionInv, SessionOK
  <2>3. /\ user'.id = user.id /\ user'.handle = user.handle
        /\ user'.password = user.password
    BY <2>1, <2>2 DEF Records
  <2>4. userId \in Ids
    BY <2>2 DEF SessionOK, Ids
  <2>5. users'[userId] = user' \/ users' = users
    BY <1>2, <2>2, <2>3, <2>4 DEF ToggleClear, Save, SaveFails, file, FileOK
  <2>6. /\ users'[userId].id = userId /\ users'[userId].handle = user'.handle
        /\ users'[userId].password = user'.password
    BY <2>2, <2>3, <2>5
  <2> QED
    BY <2>1, <2>2, <2>3, <2>6 DEF SessionInv, typed
<1>3. CASE RegFinish
  <2>1. /\ stage = "register" /\ step = 11 /\ program' = "board"
        /\ UNCHANGED password
    BY <1>3 DEF RegFinish, At, Hears
  <2>2. userId = 0
    BY <2>1 DEF SessionInv
  <2>3. PICK reach \in Reach :
          LET new == Record(NextId(reach), handle, password, FALSE)
          IN  \/ /\ new.id # 0 /\ Save(new)
                 /\ step' = 12 /\ userId' = new.id /\ user' = new
                 /\ UNCHANGED <<stage, handle>>
              \/ step' = 1 /\ UNCHANGED <<stage, account>>
              \/ stage' = "over" /\ UNCHANGED account
    BY <1>3 DEF RegFinish
  <2>4. CASE \/ step' = 1 /\ UNCHANGED <<stage, account>>
             \/ stage' = "over" /\ UNCHANGED account
    BY <2>1, <2>2, <2>4 DEF SessionInv, account
  <2>5. ASSUME NEW new, new = Record(NextId(reach), handle, password, FALSE),
               new.id # 0, Save(new), step' = 12, userId' = new.id, user' = new,
               UNCHANGED <<stage, handle>>
        PROVE  SessionInv'
    <3>1. reach \in 0..UsersMax
      BY NoUserTyped DEF Reach
    <3>2. new.id \in Ids /\ new.handle = handle /\ new.password = password
      BY <2>5, <3>1, NextIdIsFree DEF Record, Ids
    <3>3. users'[new.id] = new
      BY <2>5, <3>2 DEF Save, FileOK
    <3>4. /\ userId' # 0 /\ user'.id = userId' /\ users'[userId'].id = userId'
          /\ users'[userId'].handle = user'.handle
          /\ users'[userId'].password = user'.password
          /\ handle' = user'.handle /\ password' = user'.password
      BY <2>1, <2>5, <3>2, <3>3
    <3>5. stage' = "register" /\ step' >= 12
      BY <2>1, <2>5
    <3> QED
      BY <2>1, <3>4, <3>5 DEF SessionInv, SameHandle
  <2> QED
    BY <2>3, <2>4, <2>5
<1>4. CASE \/ \E h \in Handles : CreateUser(h) \/ EditAccount(h)
           \/ \E p \in Passwords : ResetPassword(p)
           \/ \E i \in Ids : PickUser(i)
           \/ BackToUsers \/ EditProfile \/ DeleteUser
  <2>1. program = "configure" /\ UNCHANGED <<program, stage, userId>>
    BY <1>4 DEF CreateUser, EditAccount, ResetPassword, PickUser, BackToUsers, EditProfile,
                DeleteUser, Administers
  <2> QED
    BY <2>1 DEF SessionInv
<1>5. CASE UNCHANGED accountVars
  BY <1>5 DEF accountVars, file, typed, account, SessionInv
<1> QED
  BY <1>1, <1>2, <1>3, <1>4, <1>5, TalkKeepsSession, LoginGivesOwn
     DEF AccountsNext, SwitchOff, Crash

(* With the load at boot complete, a caller in the menus is the owner of the *)
(* account that the session writes to.                                       *)
THEOREM CallersAreOwners ==
  ASSUME "load" \notin Faults
  PROVE  AccountsSpec => []CallerIsOwner
<1>1. AccountsInit => TypeInv /\ CopyInv /\ SessionInv
  BY InitTyped DEF AccountsInit, CopyInv, SessionInv
<1>2. TypeInv /\ CopyInv /\ SessionInv /\ [AccountsNext]_accountVars
        => TypeInv' /\ CopyInv' /\ SessionInv'
  BY TypeStep, CopyStep, SessionStep
<1>3. TypeInv /\ SessionInv => CallerIsOwner
  BY DEF TypeInv, SessionInv, CallerIsOwner, SameHandle
<1> QED
  BY <1>1, <1>2, <1>3, PTL DEF AccountsSpec

-----------------------------------------------------------------------------
(* Names and numbers are kept.                                               *)

NamesInv == HandlesAreUnique /\ OwnName

(* No step gives two accounts the same handle.                                *)
LEMMA NamesStep ==
  ASSUME "read" \notin Faults, TypeInv, CopyInv, SessionInv, NamesInv,
         [AccountsNext]_accountVars
  PROVE  NamesInv'
<1> USE DEF TypeInv, NamesInv
<1>1. UsersMax \in 0..UsersMax /\ Reach = {UsersMax} /\ NoUser \in Records
      /\ \A i \in Ids : i # 0
  BY NoUserTyped DEF Reach, Ids
<1>2. TypeInv'
  BY TypeStep
<1>3. ASSUME UNCHANGED users, UNCHANGED user, program' = "configure" => program = "configure"
      PROVE  NamesInv'
  BY <1>3 DEF HandlesAreUnique, OwnName
<1>4. CASE Boot
  <2>1. OwnName'
    BY <1>4 DEF Boot, NoSession, OwnName
  <2>2. CASE UNCHANGED users
    BY <2>1, <2>2 DEF HandlesAreUnique
  <2>3. CASE users' = [i \in Ids |-> NoUser]
    <3>1. \A i \in Ids : ~IsLive(users'[i])
      BY <2>3, NoUserTyped DEF IsLive
    <3> QED
      BY <2>1, <3>1 DEF HandlesAreUnique
  <2> QED
    BY <1>4, <2>2, <2>3 DEF Boot
<1>5. CASE PowerOff \/ Configure
  BY <1>5 DEF PowerOff, Configure, NoSession, HandlesAreUnique, OwnName
<1>6. CASE HangUp
  <2>1. program' # "configure" /\ user' = NoUser
    BY <1>6 DEF HangUp, NoSession
  <2>2. CASE userId # 0
    <3>1. user \in Records /\ user.id \in Ids /\ users[user.id].id = user.id
          /\ users[user.id].handle = user.handle
      BY <2>2 DEF SessionInv, SessionOK, Ids
    <3>2. HandlesAreUnique'
      BY <1>6, <2>2, <3>1, SaveOwnName DEF HangUp
    <3> QED
      BY <2>1, <3>2 DEF OwnName
  <2>3. CASE userId = 0
    BY <1>6, <2>1, <2>3 DEF HangUp, file, HandlesAreUnique, OwnName
  <2> QED
    BY <2>2, <2>3
<1>7. CASE ToggleClear
  <2>1. stage = "menu" /\ program' = "board" /\ user' = [user EXCEPT !.clear = ~@]
    BY <1>7 DEF ToggleClear, Hears
  <2>2. user \in Records /\ user.id \in Ids /\ users[user.id].id = user.id
        /\ users[user.id].handle = user.handle
    BY <2>1 DEF SessionInv, SessionOK, Ids
  <2>3. user' \in Records /\ user'.id = user.id /\ user'.handle = user.handle
    BY <2>1, <2>2 DEF Records
  <2>4. HandlesAreUnique'
    BY <1>7, <2>2, <2>3, SaveOwnName DEF ToggleClear
  <2> QED
    BY <2>1, <2>4 DEF OwnName
<1>8. CASE RegFinish
  <2>1. program' = "board"
    BY <1>8 DEF RegFinish, At, Hears
  <2>2. OwnName'
    BY <2>1 DEF OwnName
  <2>3. CASE UNCHANGED users
    BY <2>2, <2>3 DEF HandlesAreUnique
  <2>4. ASSUME Valid(handle, UsersMax), Save(Record(NextId(UsersMax), handle, password, FALSE))
        PROVE  HandlesAreUnique'
    <3>1. handle # Blank /\ ByHandle(handle, UsersMax) = 0
      BY <2>4 DEF Valid
    <3>2. NextId(UsersMax) \in 0..UsersMax
      BY <1>1, NextIdIsFree
    <3>5. handle \in Handles /\ password \in Passwords \cup {NoPassword} /\ FALSE \in BOOLEAN
      BY DEF SessionOK
    <3>3. Record(NextId(UsersMax), handle, password, FALSE) \in Records
          /\ Record(NextId(UsersMax), handle, password, FALSE).handle = handle
      BY <3>2, <3>5 DEF Record, Records
    <3>4. \A j \in Ids : IsLive(users[j]) => ~SameHandle(users[j].handle, handle)
      BY <3>1, NotFoundIsFree
    <3> QED
      BY <2>4, <3>3, <3>4, SaveKeepsNames
  <2> QED
    BY <1>1, <1>8, <2>2, <2>3, <2>4 DEF RegFinish, SaveFails, file
<1>9. ASSUME NEW h \in Handles, CreateUser(h)
      PROVE  NamesInv'
  <2>1. /\ user' = NoUser /\ h # Blank /\ ByHandle(h, UsersMax) = 0
        /\ Save(Record(NextId(UsersMax), h, "PASS", FALSE)) \/ SaveFails
    BY <1>1, <1>9 DEF CreateUser
  <2>2. NextId(UsersMax) \in 0..UsersMax
    BY <1>1, NextIdIsFree
  <2>3. Record(NextId(UsersMax), h, "PASS", FALSE) \in Records
        /\ Record(NextId(UsersMax), h, "PASS", FALSE).handle = h
    BY <2>2, AccountsAssumption DEF Record, Records
  <2>4. \A j \in Ids : IsLive(users[j]) => ~SameHandle(users[j].handle, h)
    BY <2>1, NotFoundIsFree
  <2>5. HandlesAreUnique'
    BY <2>1, <2>3, <2>4, SaveKeepsNames
  <2> QED
    BY <2>1, <2>5 DEF OwnName
<1>10. ASSUME NEW i \in Ids, PickUser(i)
       PROVE  NamesInv'
  <2>1. user' = users[i] /\ users[i].id = i /\ IsLive(users[i]) /\ UNCHANGED users
    BY <1>10 DEF PickUser, IsLive, FileOK, file
  <2> QED
    BY <2>1 DEF HandlesAreUnique, OwnName, SameHandle
<1>11. CASE BackToUsers
  BY <1>11 DEF BackToUsers, file, HandlesAreUnique, OwnName
<1>12. ASSUME NEW h \in Handles, EditAccount(h)
       PROVE  NamesInv'
  <2>1. program = "configure" /\ user # NoUser /\ user' = [user EXCEPT !.handle = h]
        /\ h # Blank /\ ByHandle(h, UsersMax) \in {0, user.id}
    BY <1>1, <1>12 DEF EditAccount, Administers, MayBeNamed
  <2>2. user \in Records /\ user.id \in Ids
    BY <2>1 DEF SessionOK
  <2>3. user' \in Records /\ user'.id = user.id /\ user'.handle = h
    BY <2>1, <2>2 DEF Records
  <2>4. ASSUME h[1] # "", NEW j \in Ids, j # user.id, IsLive(users[j]),
               SameHandle(users[j].handle, h)
        PROVE  FALSE
    <3>1. CASE ByHandle(h, UsersMax) = 0
      BY <2>1, <2>4, <3>1, NotFoundIsFree
    <3>2. CASE ByHandle(h, UsersMax) = user.id
      <4>1. Seen = users
        BY DEF Seen, CopyInv
      <4>2. users[user.id].id = user.id /\ SameHandle(users[user.id].handle, h)
        BY <1>1, <2>2, <3>2, <4>1, ByHandleFinds
      <4>3. IsLive(users[user.id]) /\ SameHandle(users[j].handle, users[user.id].handle)
        BY <1>1, <2>2, <2>4, <4>2 DEF IsLive, SameHandle
      <4> QED
        BY <2>2, <2>4, <4>3 DEF HandlesAreUnique
    <3> QED
      BY <2>1, <3>1, <3>2
  <2>5. HandlesAreUnique'
    BY <1>12, <2>3, <2>4, SaveKeepsNames DEF EditAccount
  <2>6. \A j \in Ids : j # user.id => users'[j] = users[j]
    BY <1>12, <2>3 DEF EditAccount, Save, SaveFails, file, FileOK
  <2> QED
    BY <2>3, <2>4, <2>5, <2>6 DEF OwnName
<1>13. CASE EditProfile
  <2>1. program = "configure" /\ user # NoUser /\ user' = [user EXCEPT !.clear = ~@]
    BY <1>13 DEF EditProfile, Administers
  <2>2. user \in Records /\ user.id \in Ids
    BY <2>1 DEF SessionOK
  <2>3. user' \in Records /\ user'.id = user.id /\ user'.handle = user.handle
    BY <2>1, <2>2 DEF Records
  <2>4. HandlesAreUnique'
    BY <1>13, <2>1, <2>3, SaveKeepsNames DEF EditProfile, OwnName
  <2>5. \A j \in Ids : j # user.id => users'[j] = users[j]
    BY <1>13, <2>3 DEF EditProfile, Save, SaveFails, file, FileOK
  <2> QED
    BY <2>1, <2>3, <2>4, <2>5 DEF OwnName
<1>14. ASSUME NEW p \in Passwords, ResetPassword(p)
       PROVE  NamesInv'
  <2> DEFINE r == [users[user.id] EXCEPT !.password = p]
  <2>1. program = "configure" /\ user # NoUser /\ UNCHANGED user
        /\ (Save(r) \/ SaveFails)
    BY <1>14 DEF ResetPassword, Administers
  <2>2. user.id \in Ids /\ users[user.id] \in Records /\ users[user.id].id \in {0, user.id}
    BY <2>1 DEF SessionOK, FileOK
  <2>3. r \in Records /\ r.id = users[user.id].id /\ r.handle = users[user.id].handle
    BY <2>2 DEF Records
  <2> HIDE DEF r
  <2>4. CASE r.id = 0
    <3>1. UNCHANGED users
      BY <1>1, <2>1, <2>4 DEF Save, SaveFails, file, FileOK
    <3> QED
      BY <2>1, <3>1 DEF HandlesAreUnique, OwnName
  <2>5. CASE r.id = user.id
    <3>1. HandlesAreUnique'
      BY <2>1, <2>2, <2>3, <2>5, SaveOwnName
    <3>2. \A j \in Ids : j # user.id => users'[j] = users[j]
      BY <2>1, <2>5 DEF Save, SaveFails, file, FileOK
    <3> QED
      BY <2>1, <3>1, <3>2 DEF OwnName
  <2> QED
    BY <2>2, <2>3, <2>4, <2>5
<1>15. CASE DeleteUser
  <2> DEFINE r == [users[user.id] EXCEPT !.handle = Blank]
  <2>1. program = "configure" /\ user # NoUser /\ user' = NoUser
        /\ (Save(r) \/ SaveFails)
    BY <1>15 DEF DeleteUser, Administers
  <2>2. user.id \in Ids /\ users[user.id] \in Records
    BY <2>1 DEF SessionOK, FileOK
  <2>3. r \in Records /\ r.handle[1] = ""
    BY <2>2, NoUserTyped DEF Records, Blank
  <2> HIDE DEF r
  <2>4. HandlesAreUnique'
    BY <2>1, <2>3, SaveKeepsNames
  <2> QED
    BY <2>1, <2>4 DEF OwnName
<1>16. ASSUME NEW p \in Passwords, EnterPassword(p)
       PROVE  NamesInv'
  BY <1>16 DEF EnterPassword, Hears, file, HandlesAreUnique, OwnName
<1>17. CASE \/ Call \/ EmptyAnswer \/ New \/ Apply \/ Decline
            \/ \E h \in Handles : EnterHandle(h) \/ RegHandle(h)
            \/ \E p \in Passwords : RegPassword(p) \/ RegConfirm(p)
            \/ RegAgree \/ RegRefuse \/ RegField \/ RegRows \/ RegChange \/ RegGoOn
  <2>1. UNCHANGED <<file, program>> /\ program = "board"
    BY <1>17, TalkTyped
       DEF Call, EmptyAnswer, New, Apply, Register, Decline, EnterHandle, RegHandle, RegPassword,
           RegConfirm, RegAgree, RegRefuse, RegField, RegRows, RegChange, RegGoOn, Hears, At
  <2> QED
    BY <2>1 DEF file, HandlesAreUnique, OwnName
<1>18. CASE UNCHANGED accountVars
  BY <1>18, <1>3 DEF accountVars, file, account
<1> QED
  BY <1>4, <1>5, <1>6, <1>7, <1>8, <1>9, <1>10, <1>11, <1>12, <1>13, <1>14, <1>15, <1>16,
     <1>17, <1>18 DEF AccountsNext, SwitchOff, Crash

(* With complete loads and scans no two accounts ever have names that a      *)
(* login could take for each other.                                          *)
THEOREM HandlesStayUnique ==
  ASSUME "load" \notin Faults, "read" \notin Faults
  PROVE  AccountsSpec => []HandlesAreUnique
<1>1. AccountsInit => TypeInv /\ CopyInv /\ SessionInv /\ NamesInv
  <2>1. SUFFICES ASSUME AccountsInit PROVE HandlesAreUnique /\ OwnName
    BY InitTyped DEF AccountsInit, CopyInv, SessionInv, NamesInv
  <2>2. ASSUME NEW i \in Ids, i # 1 PROVE ~IsLive(users[i])
    <3>1. users[i] = NoUser
      BY <2>1, <2>2 DEF AccountsInit
    <3> QED
      BY <3>1, NoUserTyped DEF IsLive
  <2>3. HandlesAreUnique
    BY <2>2 DEF HandlesAreUnique
  <2>4. OwnName
    BY <2>1 DEF AccountsInit, OwnName
  <2> QED
    BY <2>3, <2>4
<1>2. TypeInv /\ CopyInv /\ SessionInv /\ NamesInv /\ [AccountsNext]_accountVars
        => TypeInv' /\ CopyInv' /\ SessionInv' /\ NamesInv'
  BY TypeStep, CopyStep, SessionStep, NamesStep
<1>3. NamesInv => HandlesAreUnique
  BY DEF NamesInv
<1> QED
  BY <1>1, <1>2, <1>3, PTL DEF AccountsSpec

(* A session saves its own record under its own number, and a registration   *)
(* takes a number that no record has had.                                    *)
LEMMA KeepStep ==
  ASSUME "read" \notin Faults, TypeInv, SessionInv, [AccountsNext]_accountVars,
         program = "board", NEW i \in Ids, users[i].id # 0
  PROVE  /\ users'[i].id = i
         /\ users'[i].handle = users[i].handle
         /\ users'[i].password = users[i].password
<1> USE DEF TypeInv
<1>1. users[i].id = i
  BY DEF FileOK
<1>2. CASE UNCHANGED users
  BY <1>1, <1>2
<1>3. ASSUME NEW r \in Records, Save(r) \/ SaveFails,
             r.id = i => r.handle = users[i].handle /\ r.password = users[i].password
      PROVE  /\ users'[i].id = i
             /\ users'[i].handle = users[i].handle
             /\ users'[i].password = users[i].password
  BY <1>1, <1>3 DEF Save, SaveFails, file, FileOK
<1>4. CASE HangUp
  <2>1. CASE userId # 0
    BY <1>3, <1>4, <2>1 DEF HangUp, SessionInv, SessionOK
  <2>2. CASE userId = 0
    BY <1>2, <1>4, <2>2 DEF HangUp, file
  <2> QED
    BY <2>1, <2>2
<1>5. CASE ToggleClear
  <2>1. stage = "menu" /\ user' = [user EXCEPT !.clear = ~@] /\ (Save(user') \/ SaveFails)
    BY <1>5 DEF ToggleClear, Hears
  <2>2. user \in Records /\ users[user.id].handle = user.handle
        /\ users[user.id].password = user.password
    BY <2>1 DEF SessionInv, SessionOK
  <2>3. user' \in Records /\ user'.id = user.id /\ user'.handle = user.handle
        /\ user'.password = user.password
    BY <2>1, <2>2 DEF Records
  <2> QED
    BY <1>3, <2>1, <2>2, <2>3
<1>6. CASE RegFinish
  <2>1. Reach = {UsersMax} /\ UsersMax \in 0..UsersMax /\ i \in 1..UsersMax
    BY NoUserTyped DEF Reach, Ids
  <2>2. NextId(UsersMax) # i /\ NextId(UsersMax) \in 0..UsersMax
    BY <1>1, <2>1, NextIdIsFree
  <2>3. Record(NextId(UsersMax), handle, password, FALSE) \in Records
        /\ Record(NextId(UsersMax), handle, password, FALSE).id = NextId(UsersMax)
    BY <2>2 DEF Record, Records, SessionOK
  <2> QED
    BY <1>2, <1>3, <1>6, <2>1, <2>2, <2>3 DEF RegFinish, SaveFails, file
<1>7. CASE PowerOff
  BY <1>2, <1>7 DEF PowerOff
<1>8. ASSUME NEW p \in Passwords, EnterPassword(p)
      PROVE  UNCHANGED users
  BY <1>8 DEF EnterPassword, file
<1>9. CASE UNCHANGED accountVars
  BY <1>2, <1>9 DEF accountVars, file
<1>10. ~Boot /\ ~Configure /\ ~Administers
  BY DEF Boot, Configure, Administers
<1> QED
  BY <1>2, <1>4, <1>5, <1>6, <1>7, <1>8, <1>9, <1>10, TalkTyped
     DEF AccountsNext, SwitchOff, Crash, file, CreateUser, EditAccount, ResetPassword,
         PickUser, BackToUsers, EditProfile, DeleteUser

(* With complete loads and scans nothing that callers do takes an account    *)
(* away, gives its number again or changes its handle or its password.       *)
THEOREM AccountsStay ==
  ASSUME "load" \notin Faults, "read" \notin Faults
  PROVE  AccountsSpec => AccountsAreKept
<1>1. AccountsInit => TypeInv /\ CopyInv /\ SessionInv
  BY InitTyped DEF AccountsInit, CopyInv, SessionInv
<1>2. TypeInv /\ CopyInv /\ SessionInv /\ [AccountsNext]_accountVars
        => TypeInv' /\ CopyInv' /\ SessionInv'
  BY TypeStep, CopyStep, SessionStep
<1>3. TypeInv /\ SessionInv /\ [AccountsNext]_accountVars
        => [program = "board" =>
              \A i \in Ids : users[i].id # 0 =>
                /\ users'[i].id = i
                /\ users'[i].handle = users[i].handle
                /\ users'[i].password = users[i].password]_accountVars
  BY KeepStep
<1> QED
  BY <1>1, <1>2, <1>3, PTL DEF AccountsSpec, AccountsAreKept

-----------------------------------------------------------------------------
(* Registration.                                                             *)

(* What each step of a registration has behind it, also when it was reached  *)
(* from the list of fields.                                                  *)
RegInv ==
  stage = "register" =>
    /\ step = 0 => ~editing
    /\ step >= 2 => handle # Blank /\ ~IsReserved(handle)
    /\ step = 3 => password \in Passwords
    /\ step >= 4 \/ (step = 1 /\ editing) => password \in Passwords /\ confirm = password

(* The steps of a registration keep what was checked.                         *)
LEMMA RegStep ==
  ASSUME TypeInv, RegInv, [AccountsNext]_accountVars
  PROVE  RegInv'
<1> USE DEF TypeInv, Hears, At
<1>1. step \in 0..13 /\ editing \in BOOLEAN
  BY DEF SessionOK
<1>2. CASE stage' # "register"
  BY <1>2 DEF RegInv
<1>3. CASE New \/ Apply
  BY <1>3 DEF New, Apply, Register, RegInv
<1>4. CASE RegAgree
  BY <1>4 DEF RegAgree, RegInv
<1>5. ASSUME NEW h \in Handles, RegHandle(h)
      PROVE  RegInv'
  <2>1. step = 1 /\ UNCHANGED confirm
    BY <1>5 DEF RegHandle
  <2>2. CASE h # Blank /\ ~IsReserved(h) /\ handle' = h /\ Proceed(2)
             /\ password' = (IF editing THEN password ELSE NoPassword)
    <3>1. CASE editing
      BY <1>5, <2>1, <2>2, <3>1 DEF Proceed, RegInv, RegHandle
    <3>2. CASE ~editing
      BY <1>5, <2>1, <2>2, <3>2 DEF Proceed, RegInv, RegHandle
    <3> QED
      BY <3>1, <3>2
  <2>3. CASE UNCHANGED <<step, editing, password>>
    BY <1>5, <2>1, <2>3 DEF RegInv, RegHandle
  <2> QED
    BY <1>5, <2>2, <2>3 DEF RegHandle, Valid
<1>6. ASSUME NEW p \in Passwords, RegPassword(p)
      PROVE  RegInv'
  BY <1>6 DEF RegPassword, RegInv
<1>7. ASSUME NEW p \in Passwords, RegConfirm(p)
      PROVE  RegInv'
  <2>1. step = 3 /\ UNCHANGED <<stage, handle>>
    BY <1>7 DEF RegConfirm
  <2>2. CASE p = password /\ confirm' = p /\ Proceed(4) /\ UNCHANGED password
    <3>1. step' \in {4, 11}
      BY <2>2 DEF Proceed
    <3> QED
      BY <1>7, <2>1, <2>2, <3>1 DEF RegInv
  <2>3. CASE editing' = FALSE /\ step' = 2
    BY <2>1, <2>3 DEF RegInv
  <2> QED
    BY <1>7, <2>2, <2>3 DEF RegConfirm
<1>8. CASE RegField
  <2>1. PICK n \in 4..9 : step = n /\ Proceed(n + 1)
    BY <1>8 DEF RegField
  <2>2. step >= 4 /\ step' \in {n + 1, 11} /\ n + 1 \in 5..10
    BY <2>1 DEF Proceed
  <2> QED
    BY <1>8, <2>2 DEF RegField, RegInv
<1>9. CASE RegRows \/ RegGoOn
  BY <1>9 DEF RegRows, RegGoOn, RegInv
<1>10. CASE RegChange
  <2>1. PICK n \in FieldSteps :
          /\ step' = n /\ editing' = TRUE
          /\ handle' = IF n = 1 THEN Blank ELSE handle
          /\ password' = IF n = 2 THEN NoPassword ELSE password
    BY <1>10 DEF RegChange
  <2> QED
    BY <1>10, <2>1 DEF RegChange, RegInv, FieldSteps
<1>11. CASE RegFinish
  <2>1. step = 11 /\ stage = "register" /\ UNCHANGED <<editing, password, confirm>>
    BY <1>11 DEF RegFinish
  <2>2. \/ step' = 12 /\ UNCHANGED handle
        \/ step' = 1
        \/ stage' = "over"
    BY <1>11 DEF RegFinish
  <2> QED
    BY <2>1, <2>2 DEF RegInv
<1>12. CASE /\ stage' = "register"
            /\ \/ Boot \/ Call \/ HangUp \/ SwitchOff \/ Crash \/ EmptyAnswer \/ Decline
               \/ \E h \in Handles : EnterHandle(h)
               \/ \E p \in Passwords : EnterPassword(p)
               \/ RegRefuse \/ ToggleClear \/ Configure
  BY <1>12 DEF Boot, Call, HangUp, SwitchOff, Crash, PowerOff, NoSession, EmptyAnswer, Decline,
     EnterHandle, EnterPassword, RegRefuse, ToggleClear, Configure
<1>13. CASE Administers
  BY <1>13 DEF Administers, typed, RegInv
<1>14. CASE UNCHANGED accountVars
  BY <1>14 DEF accountVars, typed, RegInv
<1> QED
  BY <1>2, <1>3, <1>4, <1>5, <1>6, <1>7, <1>8, <1>9, <1>10, <1>11, <1>12, <1>13, <1>14
     DEF AccountsNext, CreateUser, EditAccount, ResetPassword, PickUser, BackToUsers,
         EditProfile, DeleteUser

(* Whatever fails and in whatever order fields are entered and changed, what *)
(* is registered is a valid handle and a password that was typed twice.      *)
THEOREM RegistrationsAreComplete == AccountsSpec => []RegistrationIsComplete
<1>1. AccountsInit => TypeInv /\ RegInv
  BY InitTyped DEF AccountsInit, RegInv
<1>2. TypeInv /\ RegInv /\ [AccountsNext]_accountVars => TypeInv' /\ RegInv'
  BY TypeStep, RegStep
<1>3. TypeInv /\ RegInv => RegistrationIsComplete
  BY DEF TypeInv, SessionOK, RegInv, RegistrationIsComplete
<1> QED
  BY <1>1, <1>2, <1>3, PTL DEF AccountsSpec

=============================================================================
