------------------------------- MODULE Accounts -------------------------------
(***************************************************************************)
(* The user accounts: the file USR LOG with its copy in the REU            *)
(* (src/data/users.c), login (src/session/session.c, src/features/auth.c), *)
(* registration (src/features/newuser.c) and the users menu of CONFIGURE   *)
(* (src-editor/admin/users.c).  Board and CONFIGURE are two programs on    *)
(* one computer: one of them runs, or none.                                *)
(*                                                                         *)
(* A handle is a pair of its first word and the rest, since look-ups stop  *)
(* at the first space; a stored password is the password itself: hashes    *)
(* do not collide and the number they are salted with is the record's.     *)
(***************************************************************************)
EXTENDS Naturals, FiniteSets

CONSTANTS
  UsersMax,     \* USERS_MAX, 100
  Handles,      \* pairs of a first word, which may be empty, and the rest
  Reserved,     \* first words that may not be registered by themselves
  Passwords,    \* passwords of four characters and more
  Attempts,     \* wrong logins, or empty answers, that end a call: 3
  UseREU,       \* an REU was found
  Faults        \* a subset of FaultKinds

(* The power fails; a record cannot be written; a scan of the file stops   *)
(* early or cannot begin; the copy is loaded in part; the look at the      *)
(* first record at boot fails.                                             *)
FaultKinds == {"crash", "write", "read", "load", "check"}

ASSUME AccountsAssumption ==
  /\ UsersMax \in Nat \ {0} /\ Attempts \in Nat \ {0}
  /\ {<<"", "">>, <<"SYSOP", "">>} \subseteq Handles /\ Handles \subseteq STRING \X STRING
  /\ Reserved \subseteq STRING
  /\ "PASS" \in Passwords
  /\ UseREU \in BOOLEAN /\ Faults \subseteq FaultKinds

VARIABLES
  users,     \* the records of USR LOG
  cache,     \* bank 2 of the REU
  cached,    \* s_user_cache_valid
  program,   \* "off", "board" or "configure"
  stage,     \* session.state with auth_step
  step,      \* session.reg_step
  editing,   \* session.reg_editing
  handle,    \* session.handle
  password,  \* session.password
  confirm,   \* session.reg_confirm
  wrong,     \* session.login_attempts
  empty,     \* session.empty_handle_attempts
  userId,    \* session.user_id
  user       \* session.user, or the record CONFIGURE edits

file    == <<users, cache, cached>>
typed   == <<step, editing, handle, password, confirm, wrong, empty>>
account == <<userId, user>>
accountVars == <<file, program, stage, typed, account>>

Ids == 1..UsersMax
Blank == <<"", "">>
NoPassword == "none"

Record(id, h, p, clear) == [id |-> id, handle |-> h, password |-> p, clear |-> clear]
NoUser == Record(0, Blank, NoPassword, FALSE)

(* handle_eq stops at the first space.                                     *)
SameHandle(a, b) == a[1] = b[1]
IsLive(r) == r.id # 0 /\ r.handle[1] # ""

-----------------------------------------------------------------------------
(* users.c                                                                 *)

(* How far a scan of the file gets.                                        *)
Reach == IF "read" \in Faults THEN 0..UsersMax ELSE {UsersMax}

(* Reads are served from the copy, if there is one.                        *)
Seen == IF cached THEN cache ELSE users

ByHandle(h, reach) ==
  LET found == {i \in (IF cached THEN Ids ELSE 1..reach) :
                  Seen[i].id # 0 /\ SameHandle(Seen[i].handle, h)}
  IN  IF h = Blank \/ found = {} THEN 0
      ELSE LET first == CHOOSE i \in found : \A j \in found : i <= j
           IN  Seen[first].id

(* One more than the highest number on the disk: numbers of deleted        *)
(* accounts are not used again.  0: the file is full.                      *)
Highest(reach) ==
  CHOOSE n \in 0..UsersMax :
    /\ \A i \in 1..reach : users[i].id <= n
    /\ n = 0 \/ \E i \in 1..reach : users[i].id = n
NextIdBug(reach) ==                        \* the first slot without a live user
  LET free == {i \in Ids : ~IsLive(users[i])}
  IN  IF free = {} THEN 0 ELSE CHOOSE i \in free : \A j \in free : i <= j
NextIdFullBug(reach) ==                    \* off by one at the end of the file
  IF Highest(reach) <= UsersMax THEN Highest(reach) + 1 ELSE 0
NextId(reach) == IF Highest(reach) < UsersMax THEN Highest(reach) + 1 ELSE 0

(* Written to the disk, and then through to the copy.                      *)
SaveBug(r) ==                              \* no write-through
  /\ users' = [users EXCEPT ![r.id] = r]
  /\ UNCHANGED <<cache, cached>>
Save(r) ==
  /\ users' = [users EXCEPT ![r.id] = r]
  /\ cache' = IF cached THEN [cache EXCEPT ![r.id] = r] ELSE cache
  /\ UNCHANGED cached
SaveFails == "write" \in Faults /\ UNCHANGED file

-----------------------------------------------------------------------------
(* Boot and calls.                                                         *)

NoSession ==
  /\ stage' = "none" /\ step' = 0 /\ editing' = FALSE
  /\ handle' = Blank /\ password' = NoPassword /\ confirm' = NoPassword
  /\ wrong' = 0 /\ empty' = 0 /\ userId' = 0 /\ user' = NoUser

(* What an REU holds that was without power: nothing of use.               *)
Leftovers ==
  {[i \in Ids |-> NoUser], [i \in Ids |-> Record(i, <<"SYSOP", "">>, "PASS", FALSE)]}

AccountsInit ==
  /\ users = [i \in Ids |-> IF i = 1 THEN Record(1, <<"SYSOP", "">>, "PASS", TRUE) ELSE NoUser]
  /\ cache \in Leftovers /\ cached = FALSE
  /\ program = "off" /\ stage = "none" /\ step = 0 /\ editing = FALSE
  /\ handle = Blank /\ password = NoPassword /\ confirm = NoPassword
  /\ wrong = 0 /\ empty = 0 /\ userId = 0 /\ user = NoUser

(* user_cache_load; the copy counts as valid even if the load stopped.     *)
CacheLoad ==
  IF UseREU
  THEN /\ \E n \in (IF "load" \in Faults THEN 0..UsersMax ELSE {UsersMax}) :
            cache' = [i \in Ids |-> IF i <= n THEN users[i] ELSE cache[i]]
       /\ cached' = TRUE
  ELSE cached' = FALSE /\ UNCHANGED cache

(* A first record that cannot be read is taken for an empty file, and the  *)
(* file is scratched.                                                      *)
Boot ==
  /\ program = "off" /\ NoSession
  /\ \/ users[1].id = 1 /\ CacheLoad /\ program' = "board" /\ UNCHANGED users
     \/ /\ "check" \in Faults \/ users[1].id # 1
        /\ users' = [i \in Ids |-> NoUser] /\ cached' = FALSE
        /\ UNCHANGED <<cache, program>>

Call ==
  /\ program = "board" /\ stage = "none"
  /\ stage' = "handle"
  /\ UNCHANGED <<file, program, typed, account>>

(* session_done, at the end of a session however it ends.                  *)
HangUp ==
  /\ program = "board" /\ stage # "none" /\ NoSession
  /\ IF userId # 0 THEN Save(user) \/ SaveFails ELSE UNCHANGED file
  /\ UNCHANGED program

PowerOff ==
  /\ program' = "off" /\ NoSession
  /\ cache' \in Leftovers /\ cached' = FALSE /\ UNCHANGED users

SwitchOff ==
  /\ \/ program = "board" /\ stage = "none"
     \/ program = "configure"
  /\ PowerOff

Crash == "crash" \in Faults /\ program # "off" /\ PowerOff

-----------------------------------------------------------------------------
(* Login.                                                                  *)

Hears(at) == program = "board" /\ stage = at /\ UNCHANGED program

(* An empty answer, of which a call has a number.                          *)
EmptyAnswer ==
  /\ \E at \in {"handle", "password"} : Hears(at)
  /\ empty' = empty + 1
  /\ stage' = IF empty' >= Attempts THEN "over" ELSE stage
  /\ UNCHANGED <<file, step, editing, handle, password, confirm, wrong, account>>

EnterHandle(h) ==
  /\ Hears("handle") /\ h # Blank
  /\ handle' = h /\ password' = NoPassword /\ stage' = "password"
  /\ UNCHANGED <<file, step, editing, confirm, wrong, empty, account>>

(* session.state becomes SESS_REGISTERING: after NEW, or after a handle    *)
(* that is not there.                                                      *)
Register(at) ==
  /\ Hears(at)
  /\ handle' = Blank /\ password' = NoPassword
  /\ stage' = "register" /\ step' = 0 /\ editing' = FALSE
  /\ UNCHANGED <<file, confirm, wrong, empty, account>>
New == Register("handle")
Apply == Register("apply")
Decline ==
  /\ Hears("apply") /\ stage' = "over"
  /\ UNCHANGED <<file, typed, account>>

(* auth_prompt_login, with the password p.                                 *)
PasswordMatchesBug(r, p) == TRUE
PasswordMatches(r, p) == r.password = p
EnterPassword(p) ==
  /\ Hears("password") /\ password' = p
  /\ \E reach \in Reach :
       LET id == ByHandle(handle, reach)
           refused == wrong + 1 >= Attempts
       IN  \/ /\ id = 0 /\ stage' = "apply"
              /\ UNCHANGED <<handle, wrong, account>>
           \/ /\ id # 0 /\ PasswordMatches(Seen[id], p)
              /\ stage' = "menu" /\ userId' = id /\ user' = Seen[id]
              /\ UNCHANGED <<handle, wrong>>
           \/ /\ id # 0
              /\ ~PasswordMatches(Seen[id], p) \/ (~cached /\ "read" \in Faults)
              /\ wrong' = wrong + 1
              /\ stage' = IF refused THEN "over" ELSE "handle"
              /\ handle' = IF refused THEN handle ELSE Blank
              /\ UNCHANGED account
  /\ UNCHANGED <<file, step, editing, confirm, empty>>

-----------------------------------------------------------------------------
(* Registration: session_reg_step.                                         *)

At(n) == Hears("register") /\ step = n

(* A step is done: on to the next, or back to the list when one field was  *)
(* chosen from it.  The rows (10) lead to the list in any case and leave   *)
(* reg_editing as it is.                                                   *)
Proceed(next) ==
  IF editing THEN step' = 11 /\ editing' = FALSE
             ELSE step' = next /\ UNCHANGED editing

RegAgree ==
  /\ At(0) /\ step' = 1 /\ handle' = Blank
  /\ UNCHANGED <<file, stage, editing, password, confirm, wrong, empty, account>>
RegRefuse ==
  /\ At(0) /\ stage' = "over" /\ UNCHANGED <<file, typed, account>>

(* auth_validate_handle: reserved as a whole, taken by its first word.     *)
IsReserved(h) == h[1] \in Reserved /\ h[2] = ""
Valid(h, reach) == h # Blank /\ ~IsReserved(h) /\ ByHandle(h, reach) = 0

RegHandle(h) ==
  /\ At(1)
  /\ \E reach \in Reach :
       IF Valid(h, reach)
       THEN handle' = h /\ Proceed(2) /\ password' = (IF editing THEN password ELSE NoPassword)
       ELSE handle' = Blank /\ UNCHANGED <<step, editing, password>>
  /\ UNCHANGED <<file, stage, confirm, wrong, empty, account>>

RegPassword(p) ==
  /\ At(2) /\ password' = p /\ confirm' = NoPassword /\ step' = 3
  /\ UNCHANGED <<file, stage, editing, handle, wrong, empty, account>>

(* A second password that differs starts the rest of the registration over *)
(* again, also for one who came from the list.                             *)
RegConfirmBug(p) ==                        \* back to the list first
  /\ At(3)
  /\ \/ (editing \/ p = password) /\ confirm' = p /\ Proceed(4) /\ UNCHANGED password
     \/ /\ ~editing /\ p # password
        /\ password' = NoPassword /\ confirm' = NoPassword
        /\ editing' = FALSE /\ step' = 2
  /\ UNCHANGED <<file, stage, handle, wrong, empty, account>>
RegConfirm(p) ==
  /\ At(3)
  /\ \/ p = password /\ confirm' = p /\ Proceed(4) /\ UNCHANGED password
     \/ /\ p # password
        /\ password' = NoPassword /\ confirm' = NoPassword
        /\ editing' = FALSE /\ step' = 2
  /\ UNCHANGED <<file, stage, handle, wrong, empty, account>>

(* E-mail, names, location, graphics and columns; and the rows.            *)
RegField ==
  /\ \E n \in 4..9 : At(n) /\ Proceed(n + 1)
  /\ UNCHANGED <<file, stage, handle, password, confirm, wrong, empty, account>>
RegRows ==
  /\ At(10) /\ step' = 11
  /\ UNCHANGED <<file, stage, editing, handle, password, confirm, wrong, empty, account>>

FieldSteps == {1, 2} \cup 4..10
RegChange ==
  /\ At(11)
  /\ \E n \in FieldSteps :
       /\ step' = n /\ editing' = TRUE
       /\ handle' = IF n = 1 THEN Blank ELSE handle
       /\ password' = IF n = 2 THEN NoPassword ELSE password
  /\ UNCHANGED <<file, stage, confirm, wrong, empty, account>>

(* auth_register_new: validated again, numbered, written; a handle taken   *)
(* meanwhile is asked for again.                                           *)
RegFinish ==
  /\ At(11)
  /\ \E reach \in Reach :
       LET new == Record(NextId(reach), handle, password, FALSE)
       IN  \/ /\ Valid(handle, reach) /\ new.id # 0 /\ Save(new)
              /\ step' = 12 /\ userId' = new.id /\ user' = new
              /\ UNCHANGED <<stage, handle>>
           \/ /\ ~Valid(handle, reach) /\ step' = 1 /\ handle' = Blank
              /\ UNCHANGED <<file, stage, account>>
           \/ /\ Valid(handle, reach)
              /\ \/ new.id = 0 /\ UNCHANGED file
                 \/ new.id # 0 /\ SaveFails
              /\ stage' = "over" /\ UNCHANGED <<step, handle, account>>
  /\ UNCHANGED <<editing, password, confirm, wrong, empty>>

RegGoOn ==
  /\ \/ At(12) /\ step' = 13 /\ UNCHANGED stage
     \/ At(13) /\ stage' = "menu" /\ UNCHANGED step
  /\ UNCHANGED <<file, editing, handle, password, confirm, wrong, empty, account>>

(* action_clear_on_msg: the session's copy is written whether or not that  *)
(* works.                                                                  *)
ToggleClear ==
  /\ Hears("menu")
  /\ user' = [user EXCEPT !.clear = ~@]
  /\ Save(user') \/ SaveFails
  /\ UNCHANGED <<stage, typed, userId>>

-----------------------------------------------------------------------------
(* The users menu of CONFIGURE, which reads the disk.                      *)

Configure ==
  /\ program = "off" /\ program' = "configure"
  /\ cached' = FALSE /\ NoSession
  /\ UNCHANGED <<users, cache>>

Administers == program = "configure" /\ UNCHANGED <<program, stage, typed, userId>>

CreateUser(h) ==
  /\ Administers /\ user = NoUser
  /\ \E reach \in Reach :
       /\ h # Blank /\ ByHandle(h, reach) = 0 /\ NextId(reach) # 0
       /\ Save(Record(NextId(reach), h, "PASS", FALSE)) \/ SaveFails
  /\ UNCHANGED user

(* The record picked is kept until the SysOp goes back.                    *)
PickUser(i) ==
  /\ Administers /\ user = NoUser
  /\ IsLive(users[i]) /\ user' = users[i]
  /\ UNCHANGED file
BackToUsers ==
  /\ Administers /\ user # NoUser /\ user' = NoUser /\ UNCHANGED file

(* validate_handle lets the account keep its own name.                     *)
MayBeNamedBug(h, id, reach) == TRUE
MayBeNamed(h, id, reach) == ByHandle(h, reach) \in {0, id}
EditAccount(h) ==
  /\ Administers /\ user # NoUser
  /\ \E reach \in Reach : h # Blank /\ MayBeNamed(h, user.id, reach)
  /\ user' = [user EXCEPT !.handle = h]
  /\ Save(user') \/ SaveFails
EditProfile ==
  /\ Administers /\ user # NoUser
  /\ user' = [user EXCEPT !.clear = ~@]
  /\ Save(user') \/ SaveFails

(* user_reset_password reads the record again and leaves the one picked as *)
(* it was.                                                                 *)
ResetPassword(p) ==
  /\ Administers /\ user # NoUser
  /\ Save([users[user.id] EXCEPT !.password = p]) \/ SaveFails
  /\ UNCHANGED user

DeleteUser ==
  /\ Administers /\ user # NoUser /\ user.id # 1
  /\ Save([users[user.id] EXCEPT !.handle = Blank]) \/ SaveFails
  /\ user' = NoUser

AccountsNext ==
  \/ Boot \/ Call \/ HangUp \/ SwitchOff \/ Crash
  \/ EmptyAnswer \/ New \/ Apply \/ Decline
  \/ \E h \in Handles : EnterHandle(h) \/ RegHandle(h) \/ CreateUser(h) \/ EditAccount(h)
  \/ \E p \in Passwords : EnterPassword(p) \/ RegPassword(p) \/ RegConfirm(p) \/ ResetPassword(p)
  \/ RegAgree \/ RegRefuse \/ RegField \/ RegRows \/ RegChange \/ RegFinish \/ RegGoOn
  \/ ToggleClear
  \/ Configure \/ BackToUsers \/ EditProfile \/ DeleteUser
  \/ \E i \in Ids : PickUser(i)

AccountsSpec == AccountsInit /\ [][AccountsNext]_accountVars

-----------------------------------------------------------------------------
(* Properties                                                              *)

Records == [id : 0..UsersMax, handle : Handles, password : Passwords \cup {NoPassword}, clear : BOOLEAN]
Stages == {"none", "handle", "password", "apply", "register", "menu", "over"}

(* Every variable has its type, and a record stands at the number it bears: *)
(* no number past the end of the file is given.                            *)
AccountsTypeOK ==
  /\ users \in [Ids -> Records] /\ cache \in [Ids -> Records] /\ cached \in BOOLEAN
  /\ \A i \in Ids : users[i].id \in {0, i}
  /\ program \in {"off", "board", "configure"} /\ stage \in Stages
  /\ step \in 0..13 /\ editing \in BOOLEAN
  /\ handle \in Handles
  /\ {password, confirm} \subseteq Passwords \cup {NoPassword}
  /\ wrong \in 0..Attempts /\ empty \in 0..Attempts
  /\ userId \in 0..UsersMax /\ user \in Records

(* While the board serves reads from the REU its copy is the file, record  *)
(* by record, through registrations, saves, failed writes and crashes.     *)
CopyIsTheFile == program = "board" /\ cached => cache = users

(* No two accounts have handles that a login could take for each other,    *)
(* whether they were registered, created or renamed.                       *)
HandlesAreUnique ==
  \A i, j \in Ids :
    IsLive(users[i]) /\ IsLive(users[j]) /\ SameHandle(users[i].handle, users[j].handle)
      => i = j

(* Nothing that callers do takes an account away or changes who it is:     *)
(* numbers are not given twice and a session writes its own record only.   *)
AccountsAreKept ==
  [][program = "board" =>
       \A i \in Ids : users[i].id # 0 =>
         /\ users'[i].id = i
         /\ users'[i].handle = users[i].handle
         /\ users'[i].password = users[i].password]_accountVars

(* A caller in the menus typed the handle and the password of the account  *)
(* that the session writes to at the end, and has its record.              *)
CallerIsOwner ==
  stage = "menu" =>
    /\ userId # 0 /\ user.id = userId /\ users[userId].id = userId
    /\ SameHandle(handle, users[userId].handle)
    /\ password = users[userId].password

(* Whatever order fields are entered and changed in, what is registered is *)
(* a valid handle and a password typed twice.                              *)
RegistrationIsComplete ==
  stage = "register" /\ step >= 11 =>
    /\ handle # Blank /\ ~IsReserved(handle)
    /\ password \in Passwords /\ confirm = password

=============================================================================
