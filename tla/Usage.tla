--------------------------------- MODULE Usage ---------------------------------
(* What the board keeps of a day: the minutes each caller has used (USR.DAY)   *)
(* and the calls and posts of the day (SYSCNT).  Both are stamped with         *)
(* wfc.date, which is set when the board starts and never moves while it runs, *)
(* whatever the time of day does.  The lines of the caller log (CALLERS) are   *)
(* text that only screens show.                                                *)
(* Each definition named ...Bug is the next one with a mistake in it; only     *)
(* the mutants listed in PROJECT.json use them.                                *)
EXTENDS Naturals, FiniteSets, FiniteSetsExt

CONSTANTS
  DayUsers,     \* numbers of the accounts that call
  Exempt,       \* those whose level has the NO_TIME_LIMIT flag
  DayLen,       \* minutes in a day (1440)
  ElapsedMax,   \* longest time clock_elapsed can return (65535 seconds)
  LastDay,      \* bound: days the calendar goes through
  MaxLogged,    \* bound: calls, and posts, counted in a day
  UsageFaults   \* subset of UsageFaultKinds

(* A file cannot be read, or not be written; the power goes.                   *)
UsageFaultKinds == {"read", "write", "power"}

ASSUME UsageAssumption ==
  /\ Exempt \subseteq DayUsers /\ UsageFaults \subseteq UsageFaultKinds
  /\ LastDay \in Nat \ {0} /\ MaxLogged \in Nat
  /\ DayLen \in Nat \ {0} /\ ElapsedMax \in 0..DayLen - 1

Days == 1..LastDay
NoDay == 0
NoCaller == 0

VARIABLES
  now,       \* the real day and the minute the TOD clock shows
  date,      \* wfc.date; NoDay while the board is off
  usrDay,    \* USR.DAY: per caller the day of the record and its minutes
  sysCnt,    \* SYSCNT: day, calls and posts; day NoDay when there is no file
  today,     \* wfc.calls_today and wfc.posts_today
  visit,     \* caller on line, the minute his watch began (DayLen: not armed)
             \* and, history, the minutes that it has really run
  ending,    \* the caller is logged, session_done is still to come
  accrued,   \* history: minutes of the visits that were saved, by board date
  uncounted  \* history: callers and dates with minutes that got lost

history   == <<accrued, uncounted>>
usageVars == <<now, date, usrDay, sysCnt, today, visit, ending, history>>

Nobody == [user |-> NoCaller, start |-> DayLen, online |-> 0]
NoRecord == [day |-> NoDay, mins |-> 0]

UsageTypeOK ==
  /\ now \in [day: Days, minute: 0..DayLen - 1]
  /\ date \in {NoDay} \cup Days
  /\ usrDay \in [DayUsers -> [day: {NoDay} \cup Days, mins: 0..DayLen]]
  /\ sysCnt \in [day: {NoDay} \cup Days, calls: 0..MaxLogged, posts: 0..MaxLogged]
  /\ today \in [calls: 0..MaxLogged, posts: 0..MaxLogged]
  /\ visit \in [user: {NoCaller} \cup DayUsers, start: 0..DayLen,
                online: 0..LastDay * DayLen]
  /\ ending \in BOOLEAN
  /\ accrued \in [DayUsers -> [Days -> 0..LastDay * DayLen]]
  /\ uncounted \subseteq DayUsers \X Days

UsageInit ==
  /\ now = [day |-> 1, minute |-> 0] /\ date = NoDay
  /\ usrDay = [u \in DayUsers |-> NoRecord]
  /\ sysCnt = [day |-> NoDay, calls |-> 0, posts |-> 0]
  /\ today = [calls |-> 0, posts |-> 0]
  /\ visit = Nobody /\ ending = FALSE
  /\ accrued = [u \in DayUsers |-> [d \in Days |-> 0]] /\ uncounted = {}

-------------------------------------------------------------------------------
(* clock_elapsed: the time of day only, so a whole day counts for nothing, and  *)
(* no more than its 16 bits hold.                                              *)
Shown(start) ==
  IF now.minute >= start THEN now.minute - start ELSE now.minute + DayLen - start
ElapsedBug(start) == now.minute - Min({start, now.minute})  \* no midnight
Elapsed(start) == Min({Shown(start), ElapsedMax})

(* usrday_load: a record that cannot be read, or not all of it, is taken for    *)
(* that of a caller who was never on line.                                     *)
DayLoaded(u) == {usrDay[u]} \cup (IF "read" \in UsageFaults THEN {NoRecord} ELSE {})

(* day_apply_reset: a record of another day starts afresh.                     *)
OfDayBug(rec) == [rec EXCEPT !.day = date]  \* stamped, not started afresh
OfDay(rec) == IF rec.day = date THEN rec ELSE [day |-> date, mins |-> 0]

(* syscnt_save: SYSCNT is scratched and written again.  A refused save leaves   *)
(* the old file, one that fails after the scratch leaves none.                 *)
CountSaves(calls, posts) ==
  {[day |-> date', calls |-> calls, posts |-> posts]} \cup
  (IF "write" \in UsageFaults
   THEN {sysCnt, [day |-> NoDay, calls |-> 0, posts |-> 0]} ELSE {})

(* wfc_init: the operator (or the real-time clock) gives the date; the counters *)
(* of that day go on, those of any other day, or that cannot be read, are reset *)
(* and stamped.                                                                *)
Matches == sysCnt.day = date'
StartDay ==
  /\ date = NoDay /\ date' = now.day
  /\ \/ /\ Matches
        /\ today' = [calls |-> sysCnt.calls, posts |-> sysCnt.posts]
        /\ UNCHANGED sysCnt
     \/ /\ Matches => "read" \in UsageFaults
        /\ today' = [calls |-> 0, posts |-> 0]
        /\ sysCnt' \in CountSaves(0, 0)
  /\ visit' = Nobody /\ ending' = FALSE
  /\ UNCHANGED <<now, usrDay, history>>

(* The TOD clock runs through midnight; wfc.date does not.                      *)
Minute ==
  /\ IF now.minute + 1 < DayLen
     THEN now' = [now EXCEPT !.minute = @ + 1]
     ELSE now.day < LastDay /\ now' = [day |-> now.day + 1, minute |-> 0]
  /\ visit' = IF visit.start = DayLen THEN visit ELSE [visit EXCEPT !.online = @ + 1]
  /\ UNCHANGED <<date, usrDay, sysCnt, today, ending, history>>

(* session_time_begin: the watch starts when the caller reaches the menu, unless *)
(* his level is exempt, or his level or his day cannot be read.                *)
TimeBegin(u) ==
  /\ date # NoDay /\ visit = Nobody /\ ~ending
  /\ \E start \in {now.minute, DayLen} :
       /\ start = DayLen => u \in Exempt \/ "read" \in UsageFaults
       /\ u \in Exempt => start = DayLen
       /\ visit' = [user |-> u, start |-> start, online |-> 0]
  /\ UNCHANGED <<now, date, usrDay, sysCnt, today, ending, history>>

(* message_post at its end: one more post of today, and SYSCNT is saved.        *)
CountPost ==
  /\ visit # Nobody /\ ~ending /\ today.posts < MaxLogged
  /\ today' = [today EXCEPT !.posts = @ + 1]
  /\ date' = date /\ sysCnt' \in CountSaves(today.calls, today'.posts)
  /\ UNCHANGED <<now, usrDay, visit, ending, history>>

(* callers_log: when CALLERS can be opened the call is counted, whether or not  *)
(* its line could then be written.                                             *)
CountCall ==
  /\ today' = [today EXCEPT !.calls = @ + 1]
  /\ sysCnt' \in CountSaves(today'.calls, today.posts)

LogCaller ==
  /\ visit # Nobody /\ ~ending /\ date' = date
  /\ today.calls < MaxLogged
  /\ ending' = TRUE
  /\ \/ CountCall
     \/ "write" \in UsageFaults /\ UNCHANGED <<sysCnt, today>>
  /\ UNCHANGED <<now, usrDay, visit, history>>

(* session_done: the visit's minutes are added to what is read of USR.DAY now,  *)
(* never more than a day; a visit whose watch was not armed adds nothing.  It   *)
(* is written over the record, whatever that held.                             *)
Charged(rec, add) == [OfDay(rec) EXCEPT !.mins = Min({@ + add, DayLen})]

Charge(u, rec) ==
  /\ usrDay' = [usrDay EXCEPT ![u] = Charged(rec, Elapsed(visit.start))]
  /\ accrued' = [accrued EXCEPT ![u][date] = @ + visit.online]
  /\ uncounted' = IF visit.online > ElapsedMax \/ OfDay(rec) # OfDay(usrDay[u])
                  THEN uncounted \cup {<<u, date>>} ELSE uncounted

Accrue ==
  /\ ending /\ ending' = FALSE /\ visit' = Nobody
  /\ \/ visit.start # DayLen /\ \E rec \in DayLoaded(visit.user) : Charge(visit.user, rec)
     \/ visit.start = DayLen /\ UNCHANGED <<usrDay, history>>
     \/ UsageFaults \cap {"read", "write"} # {} /\ UNCHANGED <<usrDay, history>>
  /\ UNCHANGED <<now, date, sysCnt, today>>

(* The board is switched off, in the middle of anything.                        *)
LosePower ==
  /\ "power" \in UsageFaults /\ date # NoDay
  /\ date' = NoDay /\ visit' = Nobody /\ ending' = FALSE
  /\ today' = [calls |-> 0, posts |-> 0]
  /\ UNCHANGED <<now, usrDay, sysCnt, history>>

UsageNext == StartDay \/ Minute \/ (\E u \in DayUsers : TimeBegin(u))
             \/ CountPost \/ LogCaller \/ Accrue \/ LosePower

UsageSpec == UsageInit /\ [][UsageNext]_usageVars

-------------------------------------------------------------------------------
(* What USR.DAY charges a caller is never more than his saved visits under that *)
(* very date really took, nor than a day: visits of an earlier date do not use  *)
(* up today's minutes.  It is all of them, each once, unless one lasted longer  *)
(* than the clock can tell or the record could not be read back.               *)
MinutesAreOfTheDay ==
  \A u \in DayUsers : LET d == usrDay[u].day IN
    d # NoDay => /\ usrDay[u].mins <= Min({accrued[u][d], DayLen})
                 /\ <<u, d>> \notin uncounted
                      => usrDay[u].mins = Min({accrued[u][d], DayLen})

===============================================================================
