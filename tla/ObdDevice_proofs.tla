-------------------------- MODULE ObdDevice_proofs --------------------------
(***************************************************************************)
(* Proofs about ObdDevice: DeviceInv is inductive, and its types, the      *)
(* match of commands and answers after connect, what is established when   *)
(* a session streams or polls, and what the end of monitoring leaves, all  *)
(* follow from it.                                                         *)
(*                                                                         *)
(* An answer may come after the host has given it up, and connect of a     *)
(* later session takes it for the answer to its own command; so the host   *)
(* may go on with commands whose answers are wrong.  Why it never gets     *)
(* through: as long as it is behind, an answer that is no OK (that of a    *)
(* reset, an error, an interruption) is still under way (Stray), among the *)
(* answers connect has yet to read (Left), and only an OK is accepted.     *)
(* CountInv bounds the answers under way by the time-outs there have been, *)
(* fewer than the settings; without the bound nothing says that the answer *)
(* of the reset is among those connect reads.  OkInv and QueueInv say what *)
(* the line can hold, PlanInv where the host is in its session, KindInv    *)
(* that an adapter gets the filters of its own kind only, LeavingInv what  *)
(* StopPeriodic may meet when monitoring was not drained.                  *)
(***************************************************************************)
EXTENDS ObdDevice, FiniteSetTheorems, SequenceTheorems, TLAPS

-----------------------------------------------------------------------------
(***************************************************************************)
(* The inductive invariant of a session.  What counts is the answers that  *)
(* are under way: every command on the line, the one the adapter works on  *)
(* and every prompt the host has not read is one.                          *)
(***************************************************************************)

(* What the host reads next; nothing pending survives its session. *)
unread == IF pc \in {"closed", "ended"} THEN toHost ELSE pending \o toHost

(* How many answers end among the first i tokens. *)
Rank(s, i) == Cardinality({j \in 1..i : s[j] = Prompt})

Prompts == Rank(unread, Len(unread))

Occupied == IF adapter.at = "prompt" THEN 0 ELSE 1

(* Commands of connect that are left, and of the whole session, done. *)
Left == Len(plan) - Len(Polling)

Done == Len(Session) - Len(plan)

(* What follows from a command that was accepted for its own answer. *)
Took(a, c) ==
    /\ c.name \in Range(Settings) => c.name \in a.set
    /\ c.name = "ATCF" => a.code = c.arg
    /\ c.name = "ATCM" => a.mask = c.arg
    /\ c.name = "STFPC" => (Filters = {} => a.pass = {})
    /\ c.name = "STFPA" => c.arg \in a.pass
    /\ c.name = "STCMM1" => a.normal
    /\ c.name = "STPPMA" => c.arg \subseteq a.periodic
    /\ c.name = "STCMM0" => ~a.normal

Established(n) == \A i \in 1..n : Took(adapter, Session[i])

(* Where the host is in its session, and where in leaving it. *)
PlanInv ==
    /\ pc \in {"closed", "tick", "ended"} => plan = <<>>
    /\ pc = "tick" => driver.mode = "poll"
    /\ pc \in {"stream", "drain"} =>
         driver.mode # "poll" /\ Len(plan) = 1 /\ plan[1] = Cmd("Monitor", {})
    /\ pc \in {"command", "answer"} /\ ~leaving =>
         Done >= 0 /\ \A i \in 1..Len(plan) : plan[i] = Session[Done + i]
    /\ leaving =>
         /\ driver.mode = "hybrid" /\ pc \in {"command", "answer"}
         /\ \/ Len(plan) = 2 /\ plan[1] = Cmd("STPPMC", {}) /\ plan[2] = Cmd("STCMM0", {})
            \/ Len(plan) = 1 /\ plan[1] = Cmd("STCMM0", {})
    /\ pc = "answer" => plan[1].name # "Monitor"

(* Each kind of adapter gets its own commands. *)
Kindred(c) == c.name \notin (IF driver.kind = "elm327" THEN {"STFPA"} ELSE {"ATCF", "ATCM"})

KindInv ==
    /\ IF driver.kind = "elm327" THEN adapter.pass = {} ELSE adapter.code = {} /\ adapter.mask = {}
    /\ \A i \in 1..Len(toAdapter) : Kindred(toAdapter[i])
    /\ adapter.at = "busy" => Kindred(adapter.cmd)

(* An OK is followed by its prompt. *)
OkInv ==
    /\ \A i \in 1..Len(unread) :
         unread[i] = "ok" => i < Len(unread) /\ unread[i + 1] = Prompt
    /\ pc \in {"answer", "drain"} /\ "ok" \in acc => Len(unread) > 0 /\ unread[1] = Prompt

Monitoring ==
    adapter.at = "monitor" \/ (adapter.at = "busy" /\ adapter.cmd.name = "Monitor")

QueueInv ==
    /\ \A i \in 1..Len(toAdapter) :
         toAdapter[i].name = "CR" => stop /\ (leaving \/ pc \in {"drain", "ended"})
    /\ \A i \in 1..Len(toAdapter) : toAdapter[i].name = "Monitor" =>
         /\ ~Monitoring
         /\ \A j \in 1..Len(toAdapter) : toAdapter[j].name = "Monitor" => i = j

(* An answer under way is one that was given up, or the last one. *)
CountInv ==
    ~stop \/ Configuring =>
        Prompts + Len(toAdapter) + Occupied <= 1 + timeouts + IF pc = "answer" THEN 1 ELSE 0

Quiet == Len(toAdapter) = 0 /\ adapter.at = "prompt" /\ Len(unread) = 0

NoPrompt == \A i \in 1..Len(unread) : unread[i] # Prompt

(* The command is all there is under way. *)
Asked(c) ==
    /\ NoPrompt
    /\ \/ Len(toAdapter) = 1 /\ toAdapter[1] = c /\ adapter.at = "prompt"
       \/ Len(toAdapter) = 0 /\ adapter.at = "busy" /\ adapter.cmd = c

(* A reset may find the adapter in monitor mode, or on its way there. *)
AskedWatcher(c) ==
    /\ c.name = "ATZ"
    /\ NoPrompt
    /\ \/ Len(toAdapter) = 2 /\ toAdapter[1].name = "Monitor" /\ toAdapter[2] = c
            /\ adapter.at = "prompt"
       \/ Len(toAdapter) = 1 /\ toAdapter[1] = c /\ Monitoring

(* All the host has got of an answer when its prompt is there. *)
Heard == acc \cup {unread[i] : i \in 1..Len(unread)}

AnsweredTo(c) ==
    /\ Len(toAdapter) = 0
    /\ adapter.at = "prompt"
    /\ Len(unread) > 0
    /\ \A i \in 1..Len(unread) : unread[i] = Prompt <=> i = Len(unread)
    /\ Accepts(c.name, Heard) => Took(adapter, c)

Aligned(c) == Asked(c) \/ AskedWatcher(c) \/ AnsweredTo(c)

(* An answer that is no OK is among the next n; while the reset waits for  *)
(* its answer, which may be any, another one comes before.                 *)
FirstAnswer == pc = "answer" /\ plan[1].name = "ATZ"

Bare(i) ==
    /\ unread[i] = Prompt
    /\ IF i = 1 THEN "ok" \notin acc ELSE unread[i - 1] # "ok"

StrayRead(n) ==
    \E i \in 1..Len(unread) :
        /\ Bare(i)
        /\ Rank(unread, i) <= n
        /\ FirstAnswer => \E j \in 1..(i - 1) : unread[j] = Prompt

StrayBusy(n) ==
    /\ adapter.at = "busy"
    /\ adapter.cmd.name = "ATZ"
    /\ Prompts + 1 <= n
    /\ FirstAnswer => ~NoPrompt

StrayQueued(n) ==
    \E q \in 1..Len(toAdapter) :
        /\ toAdapter[q].name = "ATZ"
        /\ Prompts + Occupied + q <= n
        /\ FirstAnswer => \/ ~NoPrompt
                          \/ adapter.at = "busy" /\ adapter.cmd.name # "Monitor"
                          \/ \E j \in 1..(q - 1) : toAdapter[j].name # "Monitor"

Stray(n) == StrayRead(n) \/ StrayBusy(n) \/ StrayQueued(n)

(* Nothing but the monitor command and the carriage return that stops it.  *)
NoOk == \A i \in 1..Len(unread) : unread[i] # "ok"

Watching(k) ==
    /\ \A i \in 1..k : toAdapter[i].name \in {"Monitor", "CR"}
    /\ \A i \in 1..k : toAdapter[i].name = "Monitor" => i = 1 /\ adapter.at = "prompt"
    /\ adapter.at = "busy" => adapter.cmd.name = "Monitor"
    /\ NoOk

NoMonitor == ~Monitoring /\ \A i \in 1..Len(toAdapter) : toAdapter[i].name # "Monitor"

Watched == Watching(Len(toAdapter)) /\ (NoPrompt \/ NoMonitor)

(* connect and what follows it. *)
SessionInv ==
    ~leaving =>
        /\ pc = "command" /\ plan[1].name # "ATZ" =>
             Stray(Left) \/ (Quiet /\ Established(Done))
        /\ pc = "answer" =>
             Stray(Left) \/ (Aligned(plan[1]) /\ Established(Done))
        /\ pc = "tick" => Quiet /\ Established(Len(Session))
        /\ pc \in {"stream", "drain"} => Watched /\ Established(Len(Session))

(* StopPeriodic: an OK can only be the answer to its own command. *)
ClearQueued ==
    /\ Len(toAdapter) > 0
    /\ toAdapter[Len(toAdapter)] = Cmd("STPPMC", {})
    /\ Watching(Len(toAdapter) - 1)
    /\ "ok" \notin acc

ClearTaken ==
    /\ Len(toAdapter) = 0
    /\ adapter.at = "prompt" \/ (adapter.at = "busy" /\ adapter.cmd = Cmd("STPPMC", {}))
    /\ NoOk
    /\ "ok" \notin acc

ClearDone ==
    /\ Len(toAdapter) = 0
    /\ adapter.at = "prompt"
    /\ adapter.periodic = {}
    /\ Len(unread) > 0
    /\ unread[Len(unread)] = Prompt
    /\ \A i \in 1..Len(unread) : unread[i] = "ok" => i = Len(unread) - 1
    /\ "ok" \in acc => Len(unread) = 1

LeavingInv ==
    /\ leaving /\ plan[1].name = "STPPMC" =>
        /\ pc = "command" => Watching(Len(toAdapter))
        /\ pc = "answer" => ClearQueued \/ ClearTaken \/ ClearDone
    /\ leaving /\ plan[1].name = "STCMM0" =>
        /\ adapter.periodic = {}
        /\ pc = "command" => Quiet
        /\ pc = "answer" => Aligned(plan[1])

OutcomeInv ==
    /\ outcome = "drained" => NoMonitor /\ (leaving \/ pc = "ended")
    /\ outcome = "silenced" =>
         /\ pc \in {"closed", "ended"}
         /\ Len(toAdapter) = 0
         /\ adapter.at = "prompt"
         /\ adapter.periodic = {}
         /\ ~adapter.normal

DeviceInv ==
    TypeOK /\ PlanInv /\ KindInv /\ OkInv /\ QueueInv /\ CountInv
    /\ SessionInv /\ LeavingInv /\ OutcomeInv

-----------------------------------------------------------------------------
(* Sequences, token by token. *)

LEMMA FunctionIsSeq ==
    ASSUME NEW S, NEW n \in Nat, NEW f, DOMAIN f = 1..n, \A i \in 1..n : f[i] \in S,
           f = [i \in 1..n |-> f[i]]
    PROVE  f \in Seq(S) /\ Len(f) = n
OBVIOUS

LEMMA Joined ==
    ASSUME NEW S, NEW s \in Seq(S), NEW t \in Seq(S)
    PROVE  /\ s \o t \in Seq(S)
           /\ Len(s \o t) = Len(s) + Len(t)
           /\ \A i \in 1..Len(s) : (s \o t)[i] = s[i]
           /\ \A i \in 1..Len(t) : (s \o t)[Len(s) + i] = t[i]
OBVIOUS

LEMMA Added ==
    ASSUME NEW S, NEW s \in Seq(S), NEW x \in S
    PROVE  /\ Append(s, x) \in Seq(S)
           /\ Len(Append(s, x)) = Len(s) + 1
           /\ \A i \in 1..Len(s) : Append(s, x)[i] = s[i]
           /\ Append(s, x)[Len(s) + 1] = x
OBVIOUS

-----------------------------------------------------------------------------
(* Counting prompts. *)

LEMMA RankType ==
    ASSUME NEW s, NEW n \in Nat
    PROVE  Rank(s, n) \in Nat /\ IsFiniteSet({j \in 1..n : s[j] = Prompt})
<1>1. IsFiniteSet(1..n) /\ {j \in 1..n : s[j] = Prompt} \in SUBSET (1..n)
  BY FS_Interval
<1>2. QED
  BY <1>1, FS_Subset, FS_CardinalityType DEF Rank

LEMMA RankStep ==
    ASSUME NEW s, NEW n \in Nat
    PROVE  Rank(s, n + 1) = Rank(s, n) + IF s[n + 1] = Prompt THEN 1 ELSE 0
<1> DEFINE A == {j \in 1..n : s[j] = Prompt}
           B == {j \in 1..(n + 1) : s[j] = Prompt}
<1>1. B = IF s[n + 1] = Prompt THEN A \cup {n + 1} ELSE A
  OBVIOUS
<1>2. IsFiniteSet(A) /\ n + 1 \notin A
  BY RankType
<1>3. Rank(s, n) = Cardinality(A) /\ Rank(s, n + 1) = Cardinality(B)
  BY DEF Rank
<1>4. Cardinality(A) \in Nat
  BY <1>2, FS_CardinalityType
<1>5. Cardinality(A \cup {n + 1}) = Cardinality(A) + 1
  BY <1>2, FS_AddElement, Zenon
<1>6. CASE s[n + 1] = Prompt
  <2>1. B = A \cup {n + 1}
    BY <1>1, <1>6
  <2>2. QED
    BY <1>3, <1>5, <1>6, <2>1
<1>7. CASE s[n + 1] # Prompt
  <2>1. A = B
    BY <1>1, <1>7
  <2>2. QED
    BY <1>3, <1>4, <1>7, <2>1
<1>8. QED
  BY <1>6, <1>7

LEMMA RankNone ==
    ASSUME NEW s, NEW n \in Nat
    PROVE  Rank(s, n) = 0 <=> \A j \in 1..n : s[j] # Prompt
BY RankType, FS_EmptySet DEF Rank

LEMMA RankMonotone ==
    ASSUME NEW s, NEW n \in Nat, NEW m \in Nat, n <= m
    PROVE  Rank(s, n) <= Rank(s, m)
<1>1. {j \in 1..n : s[j] = Prompt} \subseteq {j \in 1..m : s[j] = Prompt}
  OBVIOUS
<1>2. QED
  BY <1>1, RankType, FS_Subset DEF Rank

LEMMA RankAgrees ==
    ASSUME NEW s, NEW t, NEW n \in Nat, \A j \in 1..n : s[j] = t[j]
    PROVE  Rank(s, n) = Rank(t, n)
<1>1. {j \in 1..n : s[j] = Prompt} = {j \in 1..n : t[j] = Prompt}
  OBVIOUS
<1>2. QED
  BY <1>1 DEF Rank

(* What is left when the first k tokens have been read. *)
Shifted(s, t, k, n) == \A j \in 1..n : t[j] = s[j + k]

LEMMA RankShift ==
    ASSUME NEW s, NEW t, NEW k \in Nat, NEW n \in Nat, Shifted(s, t, k, n)
    PROVE  Rank(s, k + n) = Rank(s, k) + Rank(t, n)
<1> DEFINE A == {j \in 1..k : s[j] = Prompt}
           B == {j \in 1..n : t[j] = Prompt}
           C == {j \in (k + 1)..(k + n) : s[j] = Prompt}
           f == [j \in B |-> j + k]
<1> USE DEF Shifted
<1>1. IsFiniteSet(A) /\ IsFiniteSet(B)
  BY RankType
<1>2. f \in Bijection(B, C)
  <2>1. f \in [B -> C]
    OBVIOUS
  <2>2. \A i, j \in B : f[i] = f[j] => i = j
    OBVIOUS
  <2>3. ASSUME NEW j \in C PROVE \E i \in B : f[i] = j
    <3>1. j - k \in B
      OBVIOUS
    <3>2. QED
      BY <3>1
  <2>4. QED
    BY <2>1, <2>2, <2>3, Zenon DEF Bijection, Injection, Surjection, IsInjective
<1>3. IsFiniteSet(C) /\ Cardinality(C) = Cardinality(B)
  BY <1>1, <1>2, FS_Bijection, Zenon DEF ExistsBijection
<1>4. A \cup C = {j \in 1..(k + n) : s[j] = Prompt} /\ A \cap C = {}
  OBVIOUS
<1>5. Cardinality(A \cup C) = Cardinality(A) + Cardinality(C) - Cardinality(A \cap C)
  BY <1>1, <1>3, FS_Union
<1>6. Cardinality(A \cap C) = 0 /\ Cardinality(A) \in Nat /\ Cardinality(B) \in Nat
  BY <1>1, <1>4, FS_EmptySet, FS_CardinalityType
<1>7. Rank(s, k) = Cardinality(A) /\ Rank(t, n) = Cardinality(B)
          /\ Rank(s, k + n) = Cardinality(A \cup C)
  BY <1>4 DEF Rank
<1> QED
  BY <1>3, <1>5, <1>6, <1>7

-----------------------------------------------------------------------------
(* What a session is made of. *)

LEMMA SetToSeqFacts ==
    ASSUME NEW S, IsFiniteSet(S)
    PROVE  /\ SetToSeq(S) \in Seq(S)
           /\ \A x \in S : \E i \in DOMAIN SetToSeq(S) : SetToSeq(S)[i] = x
<1> DEFINE n == Cardinality(S)
           q == SetToSeq(S)
<1>1. n \in Nat /\ \E f : f \in Bijection(1..n, S)
  BY FS_CardinalityType, Zenon DEF ExistsBijection
<1>2. PICK f : f \in [1..n -> S] /\ IsInjective(f)
  BY <1>1, Zenon DEF Bijection, Injection, IsInjective
<1>3. q \in [1..n -> S] /\ IsInjective(q)
  BY <1>2, Zenon DEF SetToSeq
<1> HIDE DEF n, q
<1>4. q \in Injection(1..n, S)
  BY <1>3 DEF Injection
<1>5. Cardinality(1..n) = n
  BY <1>1, FS_Interval
<1>6. q \in Surjection(1..n, S)
  BY <1>4, <1>5, FS_Injection DEF n
<1>7. QED
  BY <1>1, <1>3, <1>6 DEF Surjection, q

(* The identifiers and the requests in the order they are sent. *)
FilterSeq == SetToSeq(Filters)

PidSeq == SetToSeq(PIDs)

LEMMA FiltersType ==
    ASSUME driver \in Drivers
    PROVE  Filters \in SUBSET SUBSET Bits /\ IsFiniteSet(Filters)
<1>1. driver.filters \in FilterLists
  BY DEF Drivers
<1>2. /\ driver.filters \in SUBSET SUBSET Bits /\ IsFiniteSet(driver.filters)
      /\ ResponseIds \in SUBSET SUBSET Bits /\ IsFiniteSet(ResponseIds)
  BY <1>1, DeviceAssumption DEF DeviceAssumption
<1>3. IsFiniteSet(driver.filters \cup ResponseIds)
  BY <1>2, FS_Union
<1>4. QED
  BY <1>2, <1>3 DEF Filters, MergeUnique

LEMMA SettingNames ==
    /\ Len(Settings) = 7
    /\ Range(Settings) = {"ATE0", "ATL0", "ATS0", "ATH1", "ATCAF0", "ATCFC0", "ATSP"}
    /\ \A i \in 1..7 : Settings[i] \in Range(Settings)
    /\ \A name \in Range(Settings) : \E i \in 1..7 : Settings[i] = name
<1>1. Len(Settings) = 7 /\ DOMAIN Settings = 1..7
  BY DEF Settings
<1>2. /\ Settings[1] = "ATE0" /\ Settings[2] = "ATL0" /\ Settings[3] = "ATS0"
      /\ Settings[4] = "ATH1" /\ Settings[5] = "ATCAF0" /\ Settings[6] = "ATCFC0"
      /\ Settings[7] = "ATSP"
  BY DEF Settings
<1>3. 1..7 = {1, 2, 3, 4, 5, 6, 7}
  OBVIOUS
<1>4. Range(Settings) = {Settings[i] : i \in 1..7}
  BY <1>1 DEF Range
<1>5. QED
  BY <1>1, <1>2, <1>3, <1>4

LEMMA RequestsAre ==
    ASSUME NEW name
    PROVE  /\ PidSeq \in Seq(PIDs)
           /\ \A x \in PIDs : \E i \in 1..Len(PidSeq) : PidSeq[i] = x
           /\ Requests(name) \in Seq({Cmd(name, {x}) : x \in PIDs})
           /\ Len(Requests(name)) = Len(PidSeq)
           /\ \A i \in 1..Len(PidSeq) : Requests(name)[i] = Cmd(name, {PidSeq[i]})
<1>1. PidSeq \in Seq(PIDs) /\ \A x \in PIDs : \E i \in DOMAIN PidSeq : PidSeq[i] = x
  BY SetToSeqFacts, DeviceAssumption DEF DeviceAssumption, PidSeq
<1>2. Requests(name) = [i \in DOMAIN PidSeq |-> Cmd(name, {PidSeq[i]})]
  BY DEF Requests, PidSeq
<1>3. DOMAIN PidSeq = 1..Len(PidSeq) /\ Len(PidSeq) \in Nat
  BY <1>1
<1> DEFINE C == {Cmd(name, {x}) : x \in PIDs}
<1>4. \A i \in DOMAIN PidSeq : Cmd(name, {PidSeq[i]}) \in C
  <2>1. \A i \in DOMAIN PidSeq : PidSeq[i] \in PIDs
    BY <1>1
  <2>2. QED
    BY <2>1, Zenon
<1> HIDE DEF C
<1>5. Requests(name) \in [1..Len(PidSeq) -> C]
  BY <1>2, <1>3, <1>4, Zenon
<1>6. Requests(name) \in Seq(C) /\ Len(Requests(name)) = Len(PidSeq)
  BY <1>3, <1>5
<1>7. \A i \in 1..Len(PidSeq) : Requests(name)[i] = Cmd(name, {PidSeq[i]})
  BY <1>2, <1>3, Zenon
<1>8. QED
  BY <1>1, <1>3, <1>6, <1>7, Zenon DEF C

LEMMA InitCommandsAre ==
    ASSUME driver \in Drivers
    PROVE  /\ InitCommands \in Seq(Commands)
           /\ Len(InitCommands) = IF driver.kind = "stn" THEN 9 ELSE 8
           /\ InitCommands[1] = Cmd("ATZ", {})
           /\ \A i \in 2..8 : InitCommands[i] = Cmd(Settings[i - 1], {})
           /\ driver.kind = "stn" => InitCommands[9] = Cmd("STFPC", {})
<1> DEFINE names == <<"ATZ">> \o Settings \o IF driver.kind = "stn" THEN <<"STFPC">> ELSE <<>>
           Name == Range(Settings) \cup {"ATZ", "STFPC"}
<1>1. /\ names \in Seq(Name)
      /\ Len(names) = IF driver.kind = "stn" THEN 9 ELSE 8
      /\ names[1] = "ATZ"
      /\ \A i \in 2..8 : names[i] = Settings[i - 1]
      /\ driver.kind = "stn" => names[9] = "STFPC"
  <2> DEFINE first == <<"ATZ">> \o Settings
  <2>0. Len(Settings) = 7
    BY SettingNames
  <2>1. Settings \in Seq(Name)
    <3>1. DOMAIN Settings = 1..7 /\ \A i \in 1..7 : Settings[i] \in Name
      BY SettingNames DEF Settings
    <3>2. Settings = [i \in 1..7 |-> Settings[i]]
      BY <3>1 DEF Settings
    <3>3. QED
      BY <3>1, <3>2, FunctionIsSeq
  <2>2. "ATZ" \in Name /\ "STFPC" \in Name
    OBVIOUS
  <2> HIDE DEF Name
  <2>3. /\ first \in Seq(Name) /\ Len(first) = 8 /\ first[1] = "ATZ"
        /\ \A i \in 2..8 : first[i] = Settings[i - 1]
    <3>1. first \in Seq(Name) /\ Len(first) = 1 + Len(Settings) /\ first[1] = "ATZ"
          /\ \A i \in 1..Len(Settings) : first[1 + i] = Settings[i]
      <4>1. <<"ATZ">> \in Seq(Name) /\ Len(<<"ATZ">>) = 1 /\ <<"ATZ">>[1] = "ATZ"
        BY <2>2
      <4> DEFINE z == <<"ATZ">>
      <4>0. z \in Seq(Name)
        BY <4>1
      <4> HIDE DEF z
      <4>2. /\ z \o Settings \in Seq(Name)
            /\ Len(z \o Settings) = Len(z) + Len(Settings)
            /\ \A i \in 1..Len(z) : (z \o Settings)[i] = z[i]
            /\ \A i \in 1..Len(Settings) : (z \o Settings)[Len(z) + i] = Settings[i]
        BY <2>1, <4>0, Joined
      <4>3. Len(z) = 1 /\ z[1] = "ATZ" /\ first = z \o Settings
        BY <4>1, Zenon DEF z
      <4> HIDE DEF first
      <4>4. QED
        BY <2>0, <2>1, <4>2, <4>3
    <3>2. \A i \in 2..8 : i - 1 \in 1..Len(Settings) /\ 1 + (i - 1) = i
      BY <2>0
    <3>3. QED
      BY <2>0, <3>1, <3>2
  <2>4. names = first \o IF driver.kind = "stn" THEN <<"STFPC">> ELSE <<>>
    OBVIOUS
  <2> HIDE DEF first, names
  <2>5. CASE driver.kind = "stn"
    <3>1. names = first \o <<"STFPC">>
      BY <2>4, <2>5
    <3>2. <<"STFPC">> \in Seq(Name) /\ Len(<<"STFPC">>) = 1 /\ <<"STFPC">>[1] = "STFPC"
      BY <2>2
    <3>3. /\ names \in Seq(Name) /\ Len(names) = 9 /\ names[9] = "STFPC"
          /\ \A i \in 1..8 : names[i] = first[i]
      <4> DEFINE z == <<"STFPC">>
      <4>0. z \in Seq(Name)
        BY <3>2
      <4> HIDE DEF z
      <4>5. first \in Seq(Name)
        BY <2>3
      <4>1. /\ first \o z \in Seq(Name)
            /\ Len(first \o z) = Len(first) + Len(z)
            /\ \A i \in 1..Len(first) : (first \o z)[i] = first[i]
            /\ \A i \in 1..Len(z) : (first \o z)[Len(first) + i] = z[i]
        BY <4>0, <4>5, Joined
      <4>2. Len(z) = 1 /\ z[1] = "STFPC" /\ names = first \o z
        BY <3>1, <3>2, Zenon DEF z
      <4>3. QED
        BY <2>3, <4>1, <4>2
    <3>4. 1 \in 1..8 /\ 2..8 \subseteq 1..8
      OBVIOUS
    <3>5. QED
      BY <2>3, <2>5, <3>3, <3>4
  <2>6. CASE driver.kind # "stn"
    <3>1. names = first \o << >>
      BY <2>4, <2>6
    <3>2. QED
      BY <2>3, <2>6, <3>1
  <2>7. QED
    BY <2>5, <2>6
<1>2. InitCommands = [i \in DOMAIN names |-> Cmd(names[i], {})]
  BY DEF InitCommands, Plain
<1> HIDE DEF names
<1>3. /\ Len(names) \in {8, 9} /\ DOMAIN names = 1..Len(names)
      /\ 1 \in DOMAIN names /\ 2..8 \subseteq DOMAIN names
      /\ driver.kind = "stn" => 9 \in DOMAIN names
  <2>1. DOMAIN names = 1..Len(names) /\ Len(names) \in {8, 9}
    BY <1>1, LenProperties
  <2>2. QED
    BY <1>1, <2>1
<1>4. \A i \in DOMAIN names : InitCommands[i] = Cmd(names[i], {})
  BY <1>2
<1>5. \A i \in DOMAIN names : InitCommands[i] \in Commands
  <2> SUFFICES ASSUME NEW i \in DOMAIN names PROVE Cmd(names[i], {}) \in Commands
    BY <1>4
  <2>1. names[i] \in Range(Settings) \cup {"ATZ", "STFPC"}
    <3>1. CASE i = 1
      BY <1>1, <3>1
    <3>2. CASE i \in 2..8
      BY <1>1, <3>2, SettingNames
    <3>3. CASE i = 9 /\ driver.kind = "stn"
      BY <1>1, <3>3
    <3>4. QED
      BY <1>1, <1>3, <3>1, <3>2, <3>3
  <2>2. QED
    BY <2>1 DEF Cmd, Commands
<1>6. InitCommands \in [1..Len(names) -> Commands] /\ Len(names) \in Nat
  <2>1. DOMAIN InitCommands = 1..Len(names) /\ InitCommands = [i \in DOMAIN InitCommands |-> InitCommands[i]]
    BY <1>2, <1>3
  <2>2. QED
    BY <1>3, <1>5, <2>1
<1>7. InitCommands \in Seq(Commands) /\ Len(InitCommands) = Len(names)
  BY <1>6
<1>8. QED
  BY <1>1, <1>3, <1>4, <1>7

LEMMA ElmFilterCommandsAre ==
    ASSUME driver \in Drivers
    PROVE  /\ ElmFilterCommands \in Seq(Commands)
           /\ Filters = {} => ElmFilterCommands = <<Cmd("ATCM", {})>>
           /\ Filters # {} =>
                ElmFilterCommands = <<Cmd("ATCF", Code(Filters)), Cmd("ATCM", Mask(Filters))>>
<1>1. Code(Filters) \in SUBSET Bits /\ Mask(Filters) \in SUBSET Bits
  BY DEF Code, Mask
<1>2. /\ Cmd("ATCM", {}) \in Commands
      /\ Cmd("ATCF", Code(Filters)) \in Commands
      /\ Cmd("ATCM", Mask(Filters)) \in Commands
  BY <1>1 DEF Cmd, Commands
<1>3. QED
  BY <1>2 DEF ElmFilterCommands

LEMMA StnFilterCommandsAre ==
    ASSUME driver \in Drivers
    PROVE  /\ FilterSeq \in Seq(Filters)
           /\ \A x \in Filters : \E i \in 1..Len(FilterSeq) : FilterSeq[i] = x
           /\ StnFilterCommands \in Seq(Commands)
           /\ Len(StnFilterCommands) = 1 + Len(FilterSeq)
           /\ StnFilterCommands[1] = Cmd("STFPC", {})
           /\ \A i \in 1..Len(FilterSeq) : StnFilterCommands[1 + i] = Cmd("STFPA", FilterSeq[i])
<1> DEFINE rest == [i \in DOMAIN FilterSeq |-> Cmd("STFPA", FilterSeq[i])]
<1>1. Filters \in SUBSET SUBSET Bits
  BY FiltersType
<1>2. FilterSeq \in Seq(Filters) /\ \A x \in Filters : \E i \in DOMAIN FilterSeq : FilterSeq[i] = x
  BY SetToSeqFacts, FiltersType DEF FilterSeq
<1>3. DOMAIN FilterSeq = 1..Len(FilterSeq) /\ Len(FilterSeq) \in Nat /\ \A i \in DOMAIN FilterSeq : FilterSeq[i] \in SUBSET Bits
  BY <1>1, <1>2
<1>4. \A i \in DOMAIN FilterSeq : Cmd("STFPA", FilterSeq[i]) \in Commands
  BY <1>3 DEF Cmd, Commands
<1>5. rest \in [1..Len(FilterSeq) -> Commands]
  BY <1>3, <1>4
<1>6. rest \in Seq(Commands) /\ Len(rest) = Len(FilterSeq)
  BY <1>3, <1>5
<1>7. \A i \in 1..Len(FilterSeq) : rest[i] = Cmd("STFPA", FilterSeq[i])
  BY <1>3
<1>8. Cmd("STFPC", {}) \in Commands
  BY DEF Cmd, Commands
<1>9. StnFilterCommands = <<Cmd("STFPC", {})>> \o rest
  BY DEF StnFilterCommands, FilterSeq
<1> HIDE DEF rest
<1>10. /\ StnFilterCommands \in Seq(Commands)
       /\ Len(StnFilterCommands) = 1 + Len(FilterSeq)
       /\ StnFilterCommands[1] = Cmd("STFPC", {})
       /\ \A i \in 1..Len(FilterSeq) : StnFilterCommands[1 + i] = rest[i]
  BY <1>3, <1>6, <1>8, <1>9
<1>11. QED
  BY <1>2, <1>3, <1>7, <1>10

LEMMA PollingIs ==
    ASSUME driver \in Drivers
    PROVE  /\ Polling \in Seq(Commands)
           /\ driver.mode = "monitor" => Polling = Monitor
           /\ driver.mode = "poll" => Polling = Requests("Request")
           /\ driver.mode = "hybrid" =>
                /\ Len(Polling) = Len(PidSeq) + 2
                /\ Polling[1] = Cmd("STCMM1", {})
                /\ \A i \in 1..Len(PidSeq) : Polling[1 + i] = Cmd("STPPMA", {PidSeq[i]})
                /\ Polling[Len(PidSeq) + 2] = Cmd("Monitor", {})
<1>1. \A name \in {"Request", "STPPMA"} :
        /\ Requests(name) \in Seq(Commands)
        /\ Len(Requests(name)) = Len(PidSeq)
        /\ \A i \in 1..Len(PidSeq) : Requests(name)[i] = Cmd(name, {PidSeq[i]})
  <2> SUFFICES ASSUME NEW name \in {"Request", "STPPMA"} PROVE Requests(name) \in Seq(Commands)
    BY RequestsAre
  <2> DEFINE C == {Cmd(name, {x}) : x \in PIDs}
  <2>1. \A x \in PIDs : Cmd(name, {x}) \in Commands
    BY DEF Cmd, Commands
  <2>2. C \subseteq Commands
    BY <2>1
  <2>3. Requests(name) \in Seq(C)
    BY RequestsAre
  <2> HIDE DEF C
  <2>4. QED
    BY <2>2, <2>3
<1>2. Len(PidSeq) \in Nat
  BY RequestsAre
<1>3. Cmd("Monitor", {}) \in Commands /\ Cmd("STCMM1", {}) \in Commands
  BY DEF Cmd, Commands
<1>4. driver.mode \in {"monitor", "poll", "hybrid"}
  BY DEF Drivers
<1>5. CASE driver.mode = "monitor"
  <2>1. Polling = Monitor
    BY <1>5 DEF Polling
  <2>2. Monitor \in Seq(Commands)
    BY <1>3 DEF Monitor
  <2>3. QED
    BY <1>5, <2>1, <2>2
<1>6. CASE driver.mode = "poll"
  BY <1>1, <1>6 DEF Polling
<1>7. CASE driver.mode = "hybrid"
  <2> DEFINE r == Requests("STPPMA")
  <2>1. Polling = (<<Cmd("STCMM1", {})>> \o r) \o <<Cmd("Monitor", {})>>
    BY <1>7 DEF Polling, StartPeriodic, Monitor
  <2>2. r \in Seq(Commands) /\ Len(r) = Len(PidSeq) /\ \A i \in 1..Len(PidSeq) : r[i] = Cmd("STPPMA", {PidSeq[i]})
    BY <1>1
  <2> DEFINE s == <<Cmd("STCMM1", {})>> \o r
  <2> HIDE DEF r
  <2>3. s \in Seq(Commands) /\ Len(s) = Len(PidSeq) + 1 /\ s[1] = Cmd("STCMM1", {})
        /\ \A i \in 1..Len(PidSeq) : s[1 + i] = r[i]
    BY <1>2, <1>3, <2>2
  <2>4. Polling = s \o <<Cmd("Monitor", {})>>
    BY <2>1
  <2> HIDE DEF s
  <2>5. Polling \in Seq(Commands) /\ Len(Polling) = Len(PidSeq) + 2 /\ Polling[Len(PidSeq) + 2] = Cmd("Monitor", {})
        /\ \A i \in 1..(Len(PidSeq) + 1) : Polling[i] = s[i]
    BY <1>2, <1>3, <2>3, <2>4
  <2>6. QED
    BY <1>2, <1>7, <2>2, <2>3, <2>5
<1>8. QED
  BY <1>4, <1>5, <1>6, <1>7

LEMMA ConfigurationIs ==
    ASSUME driver \in Drivers
    PROVE  /\ Configuration \in Seq(Commands)
           /\ Len(Configuration) >= 9
           /\ Configuration[1] = Cmd("ATZ", {})
           /\ \A i \in 2..8 : Configuration[i] = Cmd(Settings[i - 1], {})
           /\ driver.kind = "elm327" /\ Filters = {} =>
                Len(Configuration) = 9 /\ Configuration[9] = Cmd("ATCM", {})
           /\ driver.kind = "elm327" /\ Filters # {} =>
                /\ Len(Configuration) = 10
                /\ Configuration[9] = Cmd("ATCF", Code(Filters))
                /\ Configuration[10] = Cmd("ATCM", Mask(Filters))
           /\ driver.kind = "stn" =>
                /\ Len(Configuration) = 10 + Len(FilterSeq)
                /\ Configuration[9] = Cmd("STFPC", {})
                /\ Configuration[10] = Cmd("STFPC", {})
                /\ \A i \in 1..Len(FilterSeq) : Configuration[10 + i] = Cmd("STFPA", FilterSeq[i])
<1> DEFINE first == InitCommands
           last == IF driver.kind = "stn" THEN StnFilterCommands ELSE ElmFilterCommands
<1>1. first \in Seq(Commands) /\ last \in Seq(Commands)
  BY InitCommandsAre, StnFilterCommandsAre, ElmFilterCommandsAre
<1>2. Configuration = first \o last
  BY DEF Configuration
<1> HIDE DEF first, last
<1>3. /\ Configuration \in Seq(Commands)
      /\ Len(Configuration) = Len(first) + Len(last)
      /\ \A i \in 1..Len(first) : Configuration[i] = first[i]
      /\ \A i \in 1..Len(last) : Configuration[Len(first) + i] = last[i]
  BY <1>1, <1>2, Joined
<1>4. Len(first) = (IF driver.kind = "stn" THEN 9 ELSE 8) /\ Len(first) \in {8, 9}
  BY InitCommandsAre DEF first
<1>5. 1 \in 1..Len(first) /\ 2..8 \subseteq 1..Len(first)
  BY <1>4
<1>6. Configuration[1] = Cmd("ATZ", {}) /\ \A i \in 2..8 : Configuration[i] = Cmd(Settings[i - 1], {})
  BY <1>3, <1>5, InitCommandsAre DEF first
<1>7. CASE driver.kind = "stn"
  <2>1. last = StnFilterCommands
    BY <1>7 DEF last
  <2>2. Len(last) = 1 + Len(FilterSeq) /\ last[1] = Cmd("STFPC", {}) /\ Len(FilterSeq) \in Nat
        /\ \A i \in 1..Len(FilterSeq) : last[1 + i] = Cmd("STFPA", FilterSeq[i])
    BY <2>1, StnFilterCommandsAre
  <2>3. Len(first) = 9 /\ first[9] = Cmd("STFPC", {})
    BY <1>4, <1>7, InitCommandsAre DEF first
  <2>4. /\ 9 \in 1..Len(first) /\ 1 \in 1..Len(last)
        /\ \A i \in 1..Len(FilterSeq) : 1 + i \in 1..Len(last)
    BY <2>2, <2>3
  <2>5. /\ Len(Configuration) = 10 + Len(FilterSeq)
        /\ Configuration[9] = Cmd("STFPC", {})
        /\ Configuration[9 + 1] = Cmd("STFPC", {})
        /\ \A i \in 1..Len(FilterSeq) : Configuration[9 + (1 + i)] = Cmd("STFPA", FilterSeq[i])
    BY <1>3, <2>2, <2>3, <2>4
  <2>6. 9 + 1 = 10 /\ \A i \in 1..Len(FilterSeq) : 9 + (1 + i) = 10 + i
    BY <2>2
  <2>7. Configuration[10] = Cmd("STFPC", {}) /\ \A i \in 1..Len(FilterSeq) : Configuration[10 + i] = Cmd("STFPA", FilterSeq[i])
    BY <2>5, <2>6
  <2>8. QED
    BY <1>3, <1>6, <1>7, <2>2, <2>5, <2>7
<1>8. CASE driver.kind # "stn"
  <2>1. last = ElmFilterCommands
    BY <1>8 DEF last
  <2>2. Len(first) = 8
    BY <1>4, <1>8
  <2>3. CASE Filters = {}
    <3>1. Len(last) = 1 /\ last[1] = Cmd("ATCM", {})
      BY <2>1, <2>3, ElmFilterCommandsAre
    <3>2. Len(Configuration) = 9 /\ Configuration[8 + 1] = Cmd("ATCM", {})
      BY <1>3, <2>2, <3>1
    <3>3. Configuration[9] = Cmd("ATCM", {}) /\ Len(Configuration) >= 9
      BY <3>2
    <3>4. Configuration \in Seq(Commands)
      BY <1>3
    <3>5. QED
      BY <1>6, <1>8, <2>3, <3>2, <3>3, <3>4, Zenon
  <2>4. CASE Filters # {}
    <3>1. Len(last) = 2 /\ last[1] = Cmd("ATCF", Code(Filters)) /\ last[2] = Cmd("ATCM", Mask(Filters))
      BY <2>1, <2>4, ElmFilterCommandsAre
    <3>2. Len(Configuration) = 10 /\ Configuration[8 + 1] = Cmd("ATCF", Code(Filters))
          /\ Configuration[8 + 2] = Cmd("ATCM", Mask(Filters))
      BY <1>3, <2>2, <3>1
    <3>3. Configuration[9] = Cmd("ATCF", Code(Filters)) /\ Configuration[10] = Cmd("ATCM", Mask(Filters))
          /\ Len(Configuration) >= 9
      BY <3>2
    <3>4. Configuration \in Seq(Commands)
      BY <1>3
    <3>5. QED
      BY <1>6, <1>8, <2>4, <3>2, <3>3, <3>4, Zenon
  <2>5. QED
    BY <2>3, <2>4
<1>9. QED
  BY <1>7, <1>8

LEMMA SessionIs ==
    ASSUME driver \in Drivers
    PROVE  /\ Session \in Seq(Commands)
           /\ Len(Configuration) \in Nat /\ Len(Configuration) >= 9 /\ Len(Polling) \in Nat
           /\ Len(Session) = Len(Configuration) + Len(Polling)
           /\ \A i \in 1..Len(Configuration) : Session[i] = Configuration[i]
           /\ \A i \in 1..Len(Polling) : Session[Len(Configuration) + i] = Polling[i]
<1>1. Configuration \in Seq(Commands) /\ Polling \in Seq(Commands)
  BY ConfigurationIs, PollingIs
<1>2. /\ Session \in Seq(Commands)
      /\ Len(Session) = Len(Configuration) + Len(Polling)
      /\ \A i \in 1..Len(Configuration) : Session[i] = Configuration[i]
      /\ \A i \in 1..Len(Polling) : Session[Len(Configuration) + i] = Polling[i]
  BY <1>1, Joined DEF Session
<1>3. Len(Configuration) \in Nat /\ Len(Polling) \in Nat
  BY <1>1
<1>4. QED
  BY <1>2, <1>3, ConfigurationIs

(* The names of a session's commands, in their order. *)
LEMMA ConfigurationNames ==
    ASSUME driver \in Drivers, NEW i \in 2..Len(Configuration)
    PROVE  /\ i <= 8 => Configuration[i].name \in Range(Settings)
           /\ driver.kind = "elm327" /\ i > 8 =>
                /\ Configuration[i].name \in {"ATCF", "ATCM"}
                /\ Configuration[i].name = "ATCF" => i = 9 /\ Len(Configuration) = 10
                /\ Configuration[i].name = "ATCM" => i = Len(Configuration)
           /\ driver.kind = "stn" /\ i > 8 =>
                /\ Configuration[i].name \in {"STFPC", "STFPA"}
                /\ Configuration[i].name = "STFPC" <=> i \in {9, 10}
<1> DEFINE n == Len(Configuration)
<1>1. n \in Nat
  BY SessionIs
<1>2. CASE i <= 8
  <2>1. i \in 2..8 /\ i - 1 \in 1..7
    BY <1>1, <1>2
  <2>2. Configuration[i] = Cmd(Settings[i - 1], {}) /\ Settings[i - 1] \in Range(Settings)
    BY <2>1, ConfigurationIs, SettingNames
  <2>3. QED
    BY <1>2, <2>2 DEF Cmd
<1>3. CASE i > 8 /\ driver.kind = "elm327"
  <2>1. CASE Filters = {}
    <3>1. n = 9 /\ Configuration[9] = Cmd("ATCM", {})
      BY <1>3, <2>1, ConfigurationIs
    <3>2. i = 9
      BY <1>3, <3>1
    <3>3. QED
      BY <1>3, <3>1, <3>2 DEF Cmd
  <2>2. CASE Filters # {}
    <3>1. n = 10 /\ Configuration[9] = Cmd("ATCF", Code(Filters)) /\ Configuration[10] = Cmd("ATCM", Mask(Filters))
      BY <1>3, <2>2, ConfigurationIs
    <3>2. i = 9 \/ i = 10
      BY <1>3, <3>1
    <3>3. QED
      BY <1>3, <3>1, <3>2 DEF Cmd
  <2>3. QED
    BY <2>1, <2>2
<1>4. CASE i > 8 /\ driver.kind = "stn"
  <2>1. /\ n = 10 + Len(FilterSeq) /\ Len(FilterSeq) \in Nat
        /\ Configuration[9] = Cmd("STFPC", {}) /\ Configuration[10] = Cmd("STFPC", {})
        /\ \A k \in 1..Len(FilterSeq) : Configuration[10 + k] = Cmd("STFPA", FilterSeq[k])
    BY <1>4, ConfigurationIs, StnFilterCommandsAre
  <2>2. CASE i \in {9, 10}
    BY <1>4, <2>1, <2>2 DEF Cmd
  <2>3. CASE i > 10
    <3>1. i - 10 \in 1..Len(FilterSeq) /\ 10 + (i - 10) = i
      BY <2>1, <2>3
    <3>2. Configuration[10 + (i - 10)] = Cmd("STFPA", FilterSeq[i - 10])
      BY <2>1, <3>1
    <3>3. Configuration[i].name = "STFPA"
      BY <3>1, <3>2 DEF Cmd
    <3>4. QED
      BY <1>4, <2>3, <3>3
  <2>4. QED
    BY <1>4, <2>2, <2>3
<1>5. QED
  BY <1>1, <1>2, <1>3, <1>4 DEF Drivers

LEMMA PollingNames ==
    ASSUME driver \in Drivers, NEW i \in 1..Len(Polling)
    PROVE  /\ driver.mode = "poll" => Polling[i].name = "Request"
           /\ driver.mode # "poll" =>
                IF i = Len(Polling) THEN Polling[i] = Cmd("Monitor", {})
                ELSE Polling[i].name \in {"STCMM1", "STPPMA"}
<1>1. Len(PidSeq) \in Nat
  BY RequestsAre
<1>2. CASE driver.mode = "monitor"
  <2>1. Polling = <<Cmd("Monitor", {})>>
    BY <1>2, PollingIs DEF Monitor
  <2>2. i = 1 /\ Len(Polling) = 1 /\ Polling[1] = Cmd("Monitor", {})
    BY <2>1
  <2>3. QED
    BY <1>2, <2>2
<1>3. CASE driver.mode = "poll"
  <2>1. Polling = Requests("Request")
    BY <1>3, PollingIs
  <2>2. Len(Polling) = Len(PidSeq) /\ \A k \in 1..Len(PidSeq) : Polling[k] = Cmd("Request", {PidSeq[k]})
    BY <2>1, RequestsAre
  <2>3. Polling[i] = Cmd("Request", {PidSeq[i]})
    BY <2>2
  <2>4. QED
    BY <1>3, <2>3 DEF Cmd
<1>4. CASE driver.mode = "hybrid"
  <2>1. /\ Len(Polling) = Len(PidSeq) + 2
        /\ Polling[1] = Cmd("STCMM1", {})
        /\ \A k \in 1..Len(PidSeq) : Polling[1 + k] = Cmd("STPPMA", {PidSeq[k]})
        /\ Polling[Len(PidSeq) + 2] = Cmd("Monitor", {})
    BY <1>4, PollingIs
  <2>2. i = 1 \/ i = Len(PidSeq) + 2 \/ (i - 1 \in 1..Len(PidSeq) /\ 1 + (i - 1) = i)
    BY <1>1, <2>1
  <2>3. CASE i = 1
    BY <1>1, <1>4, <2>1, <2>3 DEF Cmd
  <2>4. CASE i = Len(PidSeq) + 2
    BY <1>1, <1>4, <2>1, <2>4
  <2>5. CASE i - 1 \in 1..Len(PidSeq) /\ 1 + (i - 1) = i
    <3>1. Polling[1 + (i - 1)] = Cmd("STPPMA", {PidSeq[i - 1]})
      BY <2>1, <2>5
    <3>2. Polling[i].name = "STPPMA" /\ i # Len(Polling)
      BY <1>1, <2>1, <2>5, <3>1 DEF Cmd
    <3>3. QED
      BY <1>4, <3>2
  <2>6. QED
    BY <2>2, <2>3, <2>4, <2>5
<1>5. QED
  BY <1>2, <1>3, <1>4 DEF Drivers

LEMMA SessionNames ==
    ASSUME driver \in Drivers, NEW i \in 1..Len(Session)
    PROVE  /\ Session[i] \in Commands
           /\ i <= Len(Configuration) <=> Configures(Session[i])
           /\ Session[i].name = "ATZ" <=> i = 1
           /\ Session[i].name \notin {"CR", "STCMM0", "STPPMC"}
           /\ driver.mode = "poll" => Session[i].name # "Monitor"
           /\ driver.mode # "poll" => Session[i].name # "Request"
           /\ driver.mode # "poll" => (Session[i].name = "Monitor" <=> i = Len(Session))
           /\ driver.mode # "poll" /\ i = Len(Session) => Session[i] = Cmd("Monitor", {})
           /\ driver.kind = "elm327" => Session[i].name # "STFPA"
           /\ driver.kind = "stn" => Session[i].name \notin {"ATCF", "ATCM"}
<1> DEFINE n == Len(Configuration)
<1>1. /\ n \in Nat /\ n >= 9 /\ Len(Polling) \in Nat /\ Len(Session) = n + Len(Polling)
      /\ Session[i] \in Commands
  BY SessionIs
<1>2. driver.mode # "poll" => Len(Polling) >= 1
  BY PollingIs, RequestsAre DEF Monitor, Drivers
<1>3. CASE i = 1
  <2>1. Session[i] = Cmd("ATZ", {})
    BY <1>1, <1>3, SessionIs, ConfigurationIs
  <2>2. QED
    BY <1>1, <1>2, <1>3, <2>1 DEF Cmd, Configures
<1>4. CASE i \in 2..n
  <2>1. Session[i] = Configuration[i]
    BY <1>1, <1>4, SessionIs
  <2>2. Session[i].name \in Range(Settings) \cup {"ATCF", "ATCM", "STFPC", "STFPA"}
    BY <1>1, <1>4, <2>1, ConfigurationNames DEF Drivers
  <2>3. driver.kind = "elm327" => Session[i].name # "STFPA"
    BY <1>1, <1>4, <2>1, ConfigurationNames, SettingNames
  <2>4. driver.kind = "stn" => Session[i].name \notin {"ATCF", "ATCM"}
    BY <1>1, <1>4, <2>1, ConfigurationNames, SettingNames
  <2>5. QED
    BY <1>1, <1>2, <1>4, <2>2, <2>3, <2>4, SettingNames DEF Configures
<1>5. CASE i > n
  <2>1. i - n \in 1..Len(Polling) /\ n + (i - n) = i
    BY <1>1, <1>5
  <2>2. Session[i] = Polling[i - n]
    BY <2>1, SessionIs
  <2>3. Session[i].name \in {"Request", "Monitor", "STCMM1", "STPPMA"}
    BY <2>1, <2>2, PollingNames DEF Cmd
  <2>4. driver.mode = "poll" => Session[i].name = "Request"
    BY <2>1, <2>2, PollingNames
  <2>5. driver.mode # "poll" =>
          IF i = Len(Session) THEN Session[i] = Cmd("Monitor", {})
          ELSE Session[i].name \in {"STCMM1", "STPPMA"}
    BY <1>1, <2>1, <2>2, PollingNames
  <2>6. QED
    BY <1>1, <1>5, <2>3, <2>4, <2>5 DEF Cmd, Configures
<1>6. QED
  BY <1>1, <1>3, <1>4, <1>5

LEMMA SessionOrder ==
    ASSUME driver \in Drivers, NEW i \in 1..Len(Session), NEW j \in 1..Len(Session), i < j
    PROVE  /\ Session[i].name \in {"ATCF", "ATCM"} => Session[j].name # Session[i].name
           /\ Session[i].name = "STFPA" => Session[j].name # "STFPC"
<1> DEFINE n == Len(Configuration)
<1>1. n \in Nat /\ n >= 9 /\ Len(Session) \in Nat
  BY SessionIs
<1>2. CASE j > n
  <2>1. ~Configures(Session[j])
    BY <1>1, <1>2, SessionNames
  <2>2. QED
    BY <2>1 DEF Configures
<1>3. CASE i = 1
  BY <1>3, SessionNames
<1>4. CASE i > 1 /\ j <= n
  <2>1. i \in 2..n /\ j \in 2..n
    BY <1>1, <1>4
  <2>2. Session[i] = Configuration[i] /\ Session[j] = Configuration[j]
    BY <1>1, <2>1, SessionIs
  <2>3. CASE driver.kind = "elm327"
    BY <1>1, <2>1, <2>2, <2>3, ConfigurationNames, SettingNames
  <2>4. CASE driver.kind = "stn"
    BY <1>1, <2>1, <2>2, <2>4, ConfigurationNames, SettingNames
  <2>5. QED
    BY <2>3, <2>4 DEF Drivers
<1>5. QED
  BY <1>1, <1>2, <1>3, <1>4

LEMMA StopPeriodicIs ==
    /\ StopPeriodic = <<Cmd("STPPMC", {}), Cmd("STCMM0", {})>>
    /\ StopPeriodic \in Seq(Commands)
    /\ Tail(StopPeriodic) = <<Cmd("STCMM0", {})>>
    /\ Monitor = <<Cmd("Monitor", {})>> /\ Monitor \in Seq(Commands)
<1>1. StopPeriodic = <<Cmd("STPPMC", {}), Cmd("STCMM0", {})>>
  <2> DEFINE names == <<"STPPMC", "STCMM0">>
  <2>1. DOMAIN names = {1, 2} /\ names[1] = "STPPMC" /\ names[2] = "STCMM0"
    OBVIOUS
  <2>2. StopPeriodic = [i \in DOMAIN names |-> Cmd(names[i], {})]
    BY DEF StopPeriodic, Plain
  <2> HIDE DEF names
  <2>3. /\ DOMAIN StopPeriodic = 1..2
        /\ StopPeriodic[1] = Cmd("STPPMC", {}) /\ StopPeriodic[2] = Cmd("STCMM0", {})
        /\ StopPeriodic = [i \in 1..2 |-> StopPeriodic[i]]
    BY <2>1, <2>2
  <2>4. QED
    BY <2>3
<1>2. Cmd("STPPMC", {}) \in Commands /\ Cmd("STCMM0", {}) \in Commands /\ Cmd("Monitor", {}) \in Commands
  BY DEF Cmd, Commands
<1>3. QED
  BY <1>1, <1>2 DEF Monitor

-----------------------------------------------------------------------------
(* What the operations of the host and of the adapter do. *)

LEMMA CommandParts ==
    ASSUME NEW c \in Commands
    PROVE  /\ c.name \in Range(Settings) \cup {"ATZ", "STFPC", "STCMM1", "STCMM0", "STPPMC", "Monitor",
                                               "CR", "ATCF", "ATCM", "STFPA", "STPPMA", "Request"}
           /\ c.name \in {"ATCF", "ATCM", "STFPA"} => c.arg \in SUBSET Bits
           /\ c.name = "STPPMA" => c.arg \in SUBSET PIDs
           /\ c = Cmd(c.name, c.arg)
           /\ c.name \in {"Monitor", "CR", "STPPMC", "STCMM0"} => c = Cmd(c.name, {})
BY SettingNames DEF Commands, Cmd

(* An executed command, field by field; whatever is no ATZ keeps the rest. *)
LEMMA EffectIs ==
    ASSUME NEW a \in Adapters, NEW c \in Commands, c.name \notin {"CR", "Monitor"}
    PROVE  LET e == Effect(a, c) IN
           /\ e \in Adapters
           /\ c.name # "ATZ" =>
                /\ e.set = a.set \cup (IF c.name \in Range(Settings) THEN {c.name} ELSE {})
                /\ e.code = IF c.name = "ATCF" THEN c.arg ELSE a.code
                /\ e.mask = IF c.name = "ATCM" THEN c.arg ELSE a.mask
                /\ e.pass = IF c.name = "STFPC" THEN {}
                            ELSE IF c.name = "STFPA" THEN a.pass \cup {c.arg} ELSE a.pass
                /\ e.periodic = IF c.name = "STPPMC" THEN {}
                                ELSE IF c.name = "STPPMA" THEN a.periodic \cup c.arg ELSE a.periodic
                /\ e.normal = IF c.name = "STCMM1" THEN TRUE
                              ELSE IF c.name = "STCMM0" THEN FALSE ELSE a.normal
           /\ c.name = "ATZ" => e.pass = {} /\ e.code = {} /\ e.mask = {}
<1>1. CASE c.name = "ATZ"
  <2>1. Effect(a, c) = PowerOn
    BY <1>1, SettingNames DEF Effect
  <2>2. PowerOn \in Adapters
    BY DEF PowerOn, Adapters
  <2>3. PowerOn.pass = {} /\ PowerOn.code = {} /\ PowerOn.mask = {}
    BY DEF PowerOn
  <2>4. QED
    BY <1>1, <2>1, <2>2, <2>3
<1>2. CASE c.name \in Range(Settings)
  <2>1. Effect(a, c) = [a EXCEPT !.set = @ \cup {c.name}]
    BY <1>2, SettingNames DEF Effect
  <2>2. a.set \cup {c.name} \in SUBSET Range(Settings)
    BY <1>2 DEF Adapters
  <2>3. c.name \notin {"ATZ", "ATCF", "ATCM", "STFPC", "STFPA", "STPPMC", "STPPMA", "STCMM1", "STCMM0"}
    BY <1>2, SettingNames
  <2>4. Effect(a, c) \in Adapters
    BY <2>1, <2>2 DEF Adapters
  <2>5. QED
    BY <1>2, <2>1, <2>3, <2>4 DEF Adapters
<1>3. CASE c.name = "ATCF"
  <2>1. Effect(a, c) = [a EXCEPT !.code = c.arg]
    BY <1>3, SettingNames DEF Effect
  <2>2. QED
    BY <1>3, <2>1, SettingNames, CommandParts DEF Adapters
<1>4. CASE c.name = "ATCM"
  <2>1. Effect(a, c) = [a EXCEPT !.mask = c.arg]
    BY <1>4, SettingNames DEF Effect
  <2>2. QED
    BY <1>4, <2>1, SettingNames, CommandParts DEF Adapters
<1>5. CASE c.name = "STFPC"
  <2>1. Effect(a, c) = [a EXCEPT !.pass = {}]
    BY <1>5, SettingNames DEF Effect
  <2>2. QED
    BY <1>5, <2>1, SettingNames DEF Adapters
<1>6. CASE c.name = "STFPA"
  <2>1. Effect(a, c) = [a EXCEPT !.pass = @ \cup {c.arg}]
    BY <1>6, SettingNames DEF Effect
  <2>2. a.pass \cup {c.arg} \in SUBSET SUBSET Bits
    <3>1. c.arg \in SUBSET Bits /\ a.pass \in SUBSET SUBSET Bits
      BY <1>6, CommandParts DEF Adapters
    <3>2. QED
      BY <3>1
  <2>3. Effect(a, c) \in Adapters
    BY <2>1, <2>2 DEF Adapters
  <2>4. QED
    BY <1>6, <2>1, <2>3, SettingNames DEF Adapters
<1>7. CASE c.name = "STCMM1"
  <2>1. Effect(a, c) = [a EXCEPT !.normal = TRUE]
    BY <1>7, SettingNames DEF Effect
  <2>2. QED
    BY <1>7, <2>1, SettingNames DEF Adapters
<1>8. CASE c.name = "STCMM0"
  <2>1. Effect(a, c) = [a EXCEPT !.normal = FALSE]
    BY <1>8, SettingNames DEF Effect
  <2>2. QED
    BY <1>8, <2>1, SettingNames DEF Adapters
<1>9. CASE c.name = "STPPMA"
  <2>1. Effect(a, c) = [a EXCEPT !.periodic = @ \cup c.arg]
    BY <1>9, SettingNames DEF Effect
  <2>2. a.periodic \cup c.arg \in SUBSET PIDs
    BY <1>9, CommandParts DEF Adapters
  <2>3. Effect(a, c) \in Adapters
    BY <2>1, <2>2 DEF Adapters
  <2>4. QED
    BY <1>9, <2>1, <2>3, SettingNames DEF Adapters
<1>10. CASE c.name = "STPPMC"
  <2>1. Effect(a, c) = [a EXCEPT !.periodic = {}]
    BY <1>10, SettingNames DEF Effect
  <2>2. QED
    BY <1>10, <2>1, SettingNames DEF Adapters
<1>11. CASE c.name = "Request"
  <2>1. Effect(a, c) = a
    BY <1>11, SettingNames DEF Effect
  <2>2. QED
    BY <1>11, <2>1, SettingNames DEF Adapters
<1>12. QED
  BY <1>1, <1>2, <1>3, <1>4, <1>5, <1>6, <1>7, <1>8, <1>9, <1>10, <1>11, CommandParts

(* How a command ends for the session it belongs to. *)
Over == plan' = <<>> /\ ~leaving' /\ pc' \in {"closed", "ended"}

LEMMA FailsHow ==
    ASSUME TypeOK, CommandFails
    PROVE  /\ failed' \in BOOLEAN /\ leaving' \in BOOLEAN /\ port' \in BOOLEAN
           /\ stop => pc' # "closed" \/ (~leaving /\ Configuring)
           /\ \/ leaving /\ Over /\ outcome' = "unsilenced"
              \/ ~leaving /\ Over /\ outcome' = outcome
              \/ /\ ~leaving /\ Head(plan).name = "Monitor" /\ driver.mode = "hybrid"
                 /\ leaving' /\ plan' = StopPeriodic /\ pc' = "command" /\ outcome' = outcome
<1>1. CASE leaving
  BY <1>1 DEF CommandFails, Return, Over, TypeOK
<1>2. CASE ~leaving /\ Configuring
  BY <1>2 DEF CommandFails, Configuring, Configures, Over, TypeOK
<1>3. CASE ~leaving /\ ~Configuring /\ Head(plan).name = "Monitor"
  BY <1>3 DEF CommandFails, MonitorReturns, Return, Over, TypeOK
<1>4. CASE ~leaving /\ ~Configuring /\ Head(plan).name # "Monitor"
  BY <1>4 DEF CommandFails, Return, Over, TypeOK
<1>5. QED
  BY <1>1, <1>2, <1>3, <1>4

LEMMA WorksHow ==
    ASSUME TypeOK, CommandWorks
    PROVE  /\ failed' \in BOOLEAN /\ leaving' \in BOOLEAN /\ port' \in BOOLEAN
           /\ stop => pc' # "closed"
           /\ \/ /\ Len(plan) > 1 /\ pc' = "command" /\ plan' = Tail(plan)
                 /\ leaving' = leaving /\ outcome' = outcome
              \/ /\ Len(plan) > 1 /\ Head(plan).name = "Request" /\ pc' = "tick" /\ plan' = <<>>
                 /\ leaving' = leaving /\ outcome' = outcome
              \/ ~(Len(plan) > 1) /\ leaving /\ Over /\ outcome' = "silenced"
              \/ /\ ~(Len(plan) > 1) /\ ~leaving /\ pc' = "tick" /\ plan' = <<>>
                 /\ leaving' = leaving /\ outcome' = outcome
<1>1. CASE Len(plan) > 1 /\ Head(plan).name = "Request" /\ stop
  BY <1>1 DEF CommandWorks, TypeOK
<1>2. CASE Len(plan) > 1 /\ ~(Head(plan).name = "Request" /\ stop)
  BY <1>2 DEF CommandWorks, TypeOK
<1>3. CASE ~(Len(plan) > 1) /\ leaving
  BY <1>3 DEF CommandWorks, Return, Over, TypeOK
<1>4. CASE ~(Len(plan) > 1) /\ ~leaving
  BY <1>4 DEF CommandWorks, TypeOK
<1>5. QED
  BY <1>1, <1>2, <1>3, <1>4

LEMMA MonitorReturnsHow ==
    ASSUME TypeOK, NEW err \in BOOLEAN, MonitorReturns(err)
    PROVE  /\ failed' \in BOOLEAN /\ leaving' \in BOOLEAN /\ port' \in BOOLEAN
           /\ stop => pc' # "closed"
           /\ \/ Over
              \/ /\ driver.mode = "hybrid"
                 /\ leaving' /\ plan' = StopPeriodic /\ pc' = "command"
BY DEF MonitorReturns, Return, Over, TypeOK

-----------------------------------------------------------------------------
(* What a step does to what the host has still to read. *)

Tokens == Texts \cup {Prompt}

(* The first k tokens are gone. *)
Drops(k) ==
    /\ Len(unread') = Len(unread) - k
    /\ \A i \in 1..Len(unread') : unread'[i] = unread[i + k]

Shortens == \E k \in 0..Len(unread) : Drops(k)

(* The tokens s have come. *)
Grows(s) ==
    /\ Len(unread') = Len(unread) + Len(s)
    /\ \A i \in 1..Len(unread) : unread'[i] = unread[i]
    /\ \A i \in 1..Len(s) : unread'[Len(unread) + i] = s[i]

LEMMA UnreadType ==
    ASSUME TypeOK
    PROVE  /\ unread \in Seq(Tokens) /\ Len(unread) \in Nat /\ DOMAIN unread = 1..Len(unread)
           /\ \A i \in 1..Len(unread) : unread[i] \in Tokens
<1>1. pending \in Seq(Tokens) /\ toHost \in Seq(Tokens)
  BY DEF TypeOK, Tokens
<1>2. pending \o toHost \in Seq(Tokens)
  BY <1>1
<1>3. unread \in Seq(Tokens)
  BY <1>1, <1>2 DEF unread
<1>4. QED
  BY <1>3

LEMMA ReadSplit ==
    ASSUME TypeOK, pc \notin {"closed", "ended"}, NEW chunk \in Chunks, Consume(chunk)
    PROVE  /\ chunk \in Seq(Tokens) /\ Len(chunk) \in Nat \ {0}
           /\ toHost' \in Seq(Tokens)
           /\ Len(unread) = Len(chunk) + Len(toHost')
           /\ \A i \in 1..Len(chunk) : unread[i] = chunk[i]
           /\ \A i \in 1..Len(toHost') : unread[Len(chunk) + i] = toHost'[i]
<1>1. pending \in Seq(Tokens) /\ toHost \in Seq(Tokens) /\ unread = pending \o toHost
  BY DEF TypeOK, Tokens, unread
<1>2. CASE pending # <<>>
  <2>1. chunk = pending /\ toHost' = toHost
    BY <1>2 DEF Chunks, Consume
  <2>2. QED
    BY <1>1, <1>2, <2>1, Joined
<1>3. CASE pending = <<>>
  <2>1. unread = toHost
    BY <1>1, <1>3
  <2>2. PICK n \in 1..Len(toHost) : chunk = SubSeq(toHost, 1, n)
    BY <1>3 DEF Chunks
  <2>3. chunk \in Seq(Tokens) /\ Len(chunk) = n /\ \A i \in 1..n : chunk[i] = toHost[i]
    BY <1>1, <2>2
  <2>4. toHost' = SubSeq(toHost, n + 1, Len(toHost))
    BY <1>3, <2>3 DEF Consume
  <2>5. toHost' \in Seq(Tokens) /\ Len(toHost') = Len(toHost) - n
        /\ \A i \in 1..(Len(toHost) - n) : toHost'[i] = toHost[n + i]
    BY <1>1, <2>2, <2>4
  <2>6. QED
    BY <1>1, <2>1, <2>3, <2>5
<1>4. QED
  BY <1>2, <1>3

(* A read that leaves the tokens after the n-th of its chunk pending. *)
Leaves(chunk, n) == Consume(chunk) /\ pending' = SubSeq(chunk, n + 1, Len(chunk))

LEMMA ReadDrops ==
    ASSUME TypeOK, pc \notin {"closed", "ended"}, NEW chunk \in Chunks,
           NEW n \in 0..Len(chunk), Leaves(chunk, n)
    PROVE  /\ pending' \in Seq(Tokens)
           /\ IF pc' \in {"closed", "ended"} THEN Drops(Len(chunk)) ELSE Drops(n)
<1>1. /\ chunk \in Seq(Tokens) /\ Len(chunk) \in Nat \ {0}
      /\ toHost' \in Seq(Tokens)
      /\ Len(unread) = Len(chunk) + Len(toHost')
      /\ \A i \in 1..Len(chunk) : unread[i] = chunk[i]
      /\ \A i \in 1..Len(toHost') : unread[Len(chunk) + i] = toHost'[i]
  BY ReadSplit DEF Leaves
<1>2. /\ pending' \in Seq(Tokens) /\ Len(pending') = Len(chunk) - n
      /\ \A i \in 1..(Len(chunk) - n) : pending'[i] = chunk[n + i]
  <2>1. chunk \in Seq(Tokens)
    BY <1>1
  <2>2. QED
    BY <2>1 DEF Leaves
<1>3. CASE pc' \in {"closed", "ended"}
  <2>1. unread' = toHost'
    BY <1>3 DEF unread
  <2>2. QED
    BY <1>1, <1>2, <1>3, <2>1 DEF Drops
<1>4. CASE pc' \notin {"closed", "ended"}
  <2>1. unread' = pending' \o toHost'
    BY <1>4 DEF unread
  <2>2. pending' \in Seq(Tokens) /\ toHost' \in Seq(Tokens)
    BY <1>1, <1>2
  <2>3. /\ Len(unread') = Len(pending') + Len(toHost')
        /\ \A i \in 1..Len(pending') : unread'[i] = pending'[i]
        /\ \A i \in 1..Len(toHost') : unread'[Len(pending') + i] = toHost'[i]
    BY <2>1, <2>2
  <2>4. Len(toHost') \in Nat
    BY <1>1
  <2> DEFINE k == Len(chunk)
             l == Len(toHost')
             u == unread'
             c == chunk
             t == toHost'
  <2>5. /\ k \in Nat /\ l \in Nat /\ n \in 0..k
        /\ Len(unread) = k + l
        /\ Len(u) = (k - n) + l
        /\ \A i \in 1..k : unread[i] = c[i]
        /\ \A i \in 1..l : unread[k + i] = t[i]
        /\ \A i \in 1..(k - n) : u[i] = c[n + i]
        /\ \A i \in 1..l : u[(k - n) + i] = t[i]
    BY <1>1, <1>2, <2>3, <2>4
  <2> HIDE DEF k, l, u, c, t
  <2>6. ASSUME NEW i \in 1..Len(u) PROVE u[i] = unread[i + n]
    <3>1. CASE i <= k - n
      BY <2>5, <3>1
    <3>2. CASE i > k - n
      <4>1. i - (k - n) \in 1..l /\ (k - n) + (i - (k - n)) = i /\ k + (i - (k - n)) = i + n
        BY <2>5, <3>2
      <4>2. u[(k - n) + (i - (k - n))] = t[i - (k - n)] /\ unread[k + (i - (k - n))] = t[i - (k - n)]
        BY <2>5, <4>1
      <4>3. QED
        BY <4>1, <4>2
    <3>3. QED
      BY <2>5, <3>1, <3>2
  <2>7. Len(u) = Len(unread) - n
    BY <2>5
  <2>8. QED
    BY <1>2, <1>4, <2>6, <2>7 DEF Drops, u
<1>5. QED
  BY <1>3, <1>4

(* Nothing is read; what is pending may be forgotten. *)
LEMMA NotRead ==
    ASSUME TypeOK, toHost' = toHost, pending' \in {pending, <<>>},
           pc \in {"closed", "ended"} => pc' \in {"closed", "ended"} \/ pending' = <<>>
    PROVE  Shortens
<1>1. pending \in Seq(Tokens) /\ toHost \in Seq(Tokens)
  BY DEF TypeOK, Tokens
<1>2. CASE unread' = unread
  <2>1. Drops(0)
    BY <1>2, UnreadType DEF Drops
  <2>2. QED
    BY <2>1, UnreadType DEF Shortens
<1>3. CASE unread = pending \o toHost /\ unread' = toHost
  <2>1. /\ Len(unread) = Len(pending) + Len(toHost)
        /\ \A i \in 1..Len(toHost) : unread[Len(pending) + i] = toHost[i]
    BY <1>1, <1>3
  <2>2. Drops(Len(pending)) /\ Len(pending) \in 0..Len(unread)
    BY <1>1, <1>3, <2>1 DEF Drops
  <2>3. QED
    BY <2>2 DEF Shortens
<1>4. unread' \in {unread, toHost} /\ (unread' # unread => unread = pending \o toHost)
  <2>1. CASE pc \in {"closed", "ended"}
    <3>1. unread = toHost
      BY <2>1 DEF unread
    <3>2. unread' = toHost
      <4>1. <<>> \o toHost = toHost
        BY <1>1
      <4>2. QED
        BY <2>1, <4>1 DEF unread
    <3>3. QED
      BY <3>1, <3>2
  <2>2. CASE pc \notin {"closed", "ended"}
    <3>1. unread = pending \o toHost
      BY <2>2 DEF unread
    <3>2. unread' \in {toHost, pending \o toHost}
      <4>1. <<>> \o toHost = toHost
        BY <1>1
      <4>2. QED
        BY <4>1 DEF unread
    <3>3. QED
      BY <3>1, <3>2
  <2>3. QED
    BY <2>1, <2>2
<1>5. QED
  BY <1>2, <1>3, <1>4

LEMMA Received ==
    ASSUME TypeOK, UNCHANGED host, NEW s \in Seq(Tokens), toHost' = toHost \o s
    PROVE  Grows(s) /\ toHost' \in Seq(Tokens)
<1>1. pending \in Seq(Tokens) /\ toHost \in Seq(Tokens) /\ pc' = pc /\ pending' = pending
  BY DEF TypeOK, Tokens, host
<1>2. toHost' \in Seq(Tokens)
  BY <1>1
<1>3. CASE pc \in {"closed", "ended"}
  <2>1. unread = toHost /\ unread' = toHost \o s
    BY <1>1, <1>3 DEF unread
  <2>2. QED
    BY <1>1, <1>2, <2>1 DEF Grows
<1>4. CASE pc \notin {"closed", "ended"}
  <2>1. unread = pending \o toHost /\ unread' = pending \o (toHost \o s)
    BY <1>1, <1>4 DEF unread
  <2>2. unread \in Seq(Tokens) /\ unread' = unread \o s
    BY <1>1, <2>1, ConcatAssociative
  <2>3. QED
    BY <1>2, <2>2 DEF Grows
<1>5. QED
  BY <1>3, <1>4

-----------------------------------------------------------------------------
(* Type correctness, one group of variables at a time. *)

FlagsTyped ==
    /\ driver \in Drivers
    /\ acc \subseteq Texts
    /\ stop \in BOOLEAN /\ port \in BOOLEAN /\ leaving \in BOOLEAN /\ failed \in BOOLEAN
    /\ outcome \in {"none", "drained", "undrained", "silenced", "unsilenced"}

PlanTyped ==
    /\ pc \in {"closed", "command", "answer", "stream", "drain", "tick", "ended"}
    /\ plan \in Seq(Commands)
    /\ pc \in {"command", "answer"} => plan # <<>>

LineTyped ==
    pending \in Seq(Tokens) /\ toAdapter \in Seq(Commands) /\ toHost \in Seq(Tokens)

SetUpTyped ==
    adapter \in Adapters /\ (adapter.at = "busy" => adapter.cmd.name \notin {"", "CR"})

CountsTyped == sessions \in 0..MaxSessions /\ timeouts \in 0..MaxTimeouts

LEMMA TypeParts ==
    /\ TypeOK <=> FlagsTyped /\ PlanTyped /\ LineTyped /\ SetUpTyped /\ CountsTyped
    /\ TypeOK' <=> FlagsTyped' /\ PlanTyped' /\ LineTyped' /\ SetUpTyped' /\ CountsTyped'
BY DEF TypeOK, FlagsTyped, PlanTyped, LineTyped, SetUpTyped, CountsTyped, Tokens

LEMMA Bounds == MaxSessions \in Nat /\ MaxTimeouts \in Nat /\ MaxTimeouts <= 6
<1>1. Len(Settings) = 7
  BY DEF Settings
<1>2. MaxSessions \in Nat /\ MaxTimeouts \in 0..(Len(Settings) - 1)
  BY DeviceAssumption DEF DeviceAssumption
<1>3. QED
  BY <1>1, <1>2

LEMMA RequestsTyped ==
    /\ Requests("Request") \in Seq(Commands)
    /\ PIDs # {} => Requests("Request") # <<>>
<1> DEFINE C == {Cmd("Request", {x}) : x \in PIDs}
<1>1. \A x \in PIDs : Cmd("Request", {x}) \in Commands
  BY DEF Cmd, Commands
<1>2. C \subseteq Commands
  BY <1>1
<1>3. Requests("Request") \in Seq(C)
  BY RequestsAre
<1> HIDE DEF C
<1>4. Requests("Request") \in Seq(Commands)
  BY <1>2, <1>3
<1>5. ASSUME PIDs # {} PROVE Requests("Request") # <<>>
  <2>1. PICK x \in PIDs : TRUE
    BY <1>5
  <2>2. PICK i \in 1..Len(PidSeq) : PidSeq[i] = x
    BY <2>1, RequestsAre
  <2>3. PidSeq \in Seq(PIDs) /\ Len(Requests("Request")) = Len(PidSeq)
    BY RequestsAre
  <2>4. Len(<<>>) = 0
    OBVIOUS
  <2>5. QED
    BY <2>2, <2>3, <2>4
<1>6. QED
  BY <1>4, <1>5

LEMMA EndsTyped ==
    ASSUME TypeOK,
           \/ CommandFails
           \/ CommandWorks /\ plan # <<>>
           \/ (\E err \in BOOLEAN : MonitorReturns(err)) /\ outcome' \in {outcome, "drained", "undrained"}
    PROVE  /\ PlanTyped'
           /\ port' \in BOOLEAN /\ leaving' \in BOOLEAN /\ failed' \in BOOLEAN
           /\ outcome' \in {"none", "drained", "undrained", "silenced", "unsilenced"}
<1>1. StopPeriodic \in Seq(Commands) /\ StopPeriodic # <<>> /\ <<>> \in Seq(Commands)
  BY StopPeriodicIs
<1>2. outcome \in {"none", "drained", "undrained", "silenced", "unsilenced"} /\ plan \in Seq(Commands)
  BY DEF TypeOK
<1>3. CASE CommandFails
  <2>1. /\ failed' \in BOOLEAN /\ leaving' \in BOOLEAN /\ port' \in BOOLEAN
        /\ \/ Over /\ outcome' \in {"unsilenced", outcome}
           \/ plan' = StopPeriodic /\ pc' = "command" /\ outcome' = outcome
    BY <1>3, FailsHow
  <2>2. QED
    BY <1>1, <1>2, <2>1 DEF Over, PlanTyped
<1>4. CASE CommandWorks /\ plan # <<>>
  <2>1. Len(plan) > 1 => Tail(plan) \in Seq(Commands) /\ Tail(plan) # <<>>
    <3> DEFINE rest == Tail(plan)
    <3>1. Len(plan) > 1 => rest \in Seq(Commands) /\ Len(rest) > 0
      BY <1>2, <1>4, HeadTailProperties
    <3> HIDE DEF rest
    <3>2. Len(plan) > 1 => rest \in Seq(Commands) /\ rest # <<>>
      BY <3>1
    <3>3. QED
      BY <3>2 DEF rest
  <2>2. /\ failed' \in BOOLEAN /\ leaving' \in BOOLEAN /\ port' \in BOOLEAN
        /\ \/ Len(plan) > 1 /\ plan' = Tail(plan) /\ pc' = "command" /\ outcome' = outcome
           \/ plan' = <<>> /\ pc' = "tick" /\ outcome' = outcome
           \/ Over /\ outcome' = "silenced"
    BY <1>4, WorksHow
  <2>3. QED
    BY <1>1, <1>2, <2>1, <2>2 DEF Over, PlanTyped
<1>5. CASE (\E err \in BOOLEAN : MonitorReturns(err)) /\ outcome' \in {outcome, "drained", "undrained"}
  <2>1. /\ failed' \in BOOLEAN /\ leaving' \in BOOLEAN /\ port' \in BOOLEAN
        /\ Over \/ (plan' = StopPeriodic /\ pc' = "command")
    BY <1>5, MonitorReturnsHow
  <2>2. QED
    BY <1>1, <1>2, <1>5, <2>1 DEF Over, PlanTyped
<1>6. QED
  BY <1>3, <1>4, <1>5

(* The reads and the ends of commands do not touch what the others keep.   *)
LEMMA HostTyped ==
    ASSUME TypeOK, Ask \/ Read \/ Watch \/ World
    PROVE  TypeOK'
<1>1. FlagsTyped /\ PlanTyped /\ LineTyped /\ SetUpTyped /\ CountsTyped
  BY TypeParts
<1>2. <<>> \in Seq(Tokens) /\ <<>> \in Seq(Commands)
  OBVIOUS
<1>3. CASE Open
  <2>1. Session \in Seq(Commands) /\ Session # <<>>
    BY <1>1, SessionIs DEF FlagsTyped
  <2>2. PlanTyped'
    BY <1>3, <2>1 DEF Open, PlanTyped
  <2>3. FlagsTyped' /\ SetUpTyped'
    BY <1>1, <1>3 DEF Open, FlagsTyped, SetUpTyped
  <2>4. LineTyped' /\ CountsTyped'
    BY <1>1, <1>2, <1>3, Bounds DEF Open, LineTyped, CountsTyped, line
  <2>5. QED
    BY <2>2, <2>3, <2>4, TypeParts
<1>4. CASE GiveUp \/ Tick \/ EndPoll
  <2>1. PlanTyped'
    BY <1>1, <1>2, <1>4, RequestsTyped DEF GiveUp, Tick, EndPoll, Return, PlanTyped
  <2>2. FlagsTyped' /\ SetUpTyped'
    BY <1>1, <1>4 DEF GiveUp, Tick, EndPoll, Return, FlagsTyped, SetUpTyped
  <2>3. LineTyped' /\ CountsTyped'
    BY <1>1, <1>4 DEF GiveUp, Tick, EndPoll, LineTyped, CountsTyped, line
  <2>4. QED
    BY <2>1, <2>2, <2>3, TypeParts
<1>5. CASE Write
  <2>1. Head(plan) \in Commands
    BY <1>1, <1>5, HeadTailProperties DEF Write, PlanTyped
  <2>2. Append(toAdapter, Head(plan)) \in Seq(Commands)
    BY <1>1, <2>1, AppendProperties DEF LineTyped
  <2>3. LineTyped' /\ CountsTyped'
    BY <1>1, <1>2, <1>5, <2>2 DEF Write, LineTyped, CountsTyped
  <2>4. FlagsTyped' /\ SetUpTyped'
    BY <1>1, <1>5 DEF Write, FlagsTyped, SetUpTyped
  <2>5. PlanTyped'
    BY <1>1, <1>5 DEF Write, PlanTyped
  <2>6. QED
    BY <2>3, <2>4, <2>5, TypeParts
<1>6. CASE Collect
  <2>1. PICK chunk \in Chunks :
          ~Contains(chunk, Prompt) /\ Consume(chunk) /\ acc' = acc \cup Range(chunk)
    BY <1>6 DEF Collect
  <2>2. pc \notin {"closed", "ended"}
    BY <1>6 DEF Collect
  <2>3. chunk \in Seq(Tokens) /\ toHost' \in Seq(Tokens)
    BY <2>1, <2>2, ReadSplit
  <2>4. \A i \in DOMAIN chunk : chunk[i] \in Texts
    BY <2>1, <2>3 DEF Contains, Tokens
  <2>5. acc' \subseteq Texts
    BY <1>1, <2>1, <2>4 DEF Range, FlagsTyped
  <2>6. PlanTyped' /\ FlagsTyped'
    BY <1>1, <1>6, <2>5 DEF Collect, PlanTyped, FlagsTyped
  <2>7. LineTyped' /\ SetUpTyped' /\ CountsTyped'
    BY <1>1, <1>2, <1>6, <2>3 DEF Collect, LineTyped, SetUpTyped, CountsTyped
  <2>8. QED
    BY <2>6, <2>7, TypeParts
<1>7. CASE Answered
  <2>1. PICK chunk \in Chunks : \E n \in Prompted(chunk) :
          /\ Consume(chunk)
          /\ pending' = After(chunk, n)
          /\ CommandWorks \/ CommandFails
    BY <1>7 DEF Answered
  <2>2. PICK n \in Prompted(chunk) : pending' = After(chunk, n)
    BY <2>1
  <2>3. pc \notin {"closed", "ended"} /\ plan # <<>> /\ acc' = {}
    BY <1>1, <1>7 DEF Answered, PlanTyped
  <2>4. chunk \in Seq(Tokens) /\ toHost' \in Seq(Tokens)
    BY <2>1, <2>3, ReadSplit
  <2>5. pending' \in Seq(Tokens)
    <3>1. n \in 1..Len(chunk)
      BY <2>2, <2>4 DEF Prompted
    <3>2. QED
      BY <2>2, <2>4, <3>1 DEF After
  <2>6. /\ PlanTyped'
        /\ port' \in BOOLEAN /\ leaving' \in BOOLEAN /\ failed' \in BOOLEAN
        /\ outcome' \in {"none", "drained", "undrained", "silenced", "unsilenced"}
    BY <2>1, <2>3, EndsTyped
  <2>7. FlagsTyped' /\ SetUpTyped' /\ CountsTyped'
    BY <1>1, <1>7, <2>3, <2>6 DEF Answered, FlagsTyped, SetUpTyped, CountsTyped
  <2>8. LineTyped'
    BY <1>1, <1>7, <2>4, <2>5 DEF Answered, LineTyped
  <2>9. QED
    BY <2>6, <2>7, <2>8, TypeParts
<1>8. CASE TimeOut \/ TransportFails \/ StreamFails \/ Undrained
  <2>1. /\ PlanTyped'
        /\ port' \in BOOLEAN /\ leaving' \in BOOLEAN /\ failed' \in BOOLEAN
        /\ outcome' \in {"none", "drained", "undrained", "silenced", "unsilenced"}
    <3>1. CommandFails \/ ((\E err \in BOOLEAN : MonitorReturns(err))
                           /\ outcome' \in {outcome, "drained", "undrained"})
      BY <1>8 DEF TimeOut, TransportFails, StreamFails, Undrained
    <3>2. QED
      BY <3>1, EndsTyped
  <2>2. FlagsTyped' /\ SetUpTyped'
    BY <1>1, <1>8, <2>1 DEF TimeOut, TransportFails, StreamFails, Undrained, FlagsTyped, SetUpTyped
  <2>3. CountsTyped'
    <3>1. sessions' = sessions /\ (timeouts' = timeouts \/ (timeouts < MaxTimeouts /\ timeouts' = timeouts + 1))
      BY <1>8 DEF TimeOut, TransportFails, StreamFails, Undrained
    <3>2. QED
      BY <1>1, <3>1, Bounds DEF CountsTyped
  <2>4. LineTyped'
    BY <1>1, <1>8 DEF TimeOut, TransportFails, StreamFails, Undrained, LineTyped, line
  <2>5. QED
    BY <2>1, <2>2, <2>3, <2>4, TypeParts
<1>9. CASE Stream
  <2>1. PICK chunk \in Chunks : Consume(chunk)
    BY <1>9 DEF Stream
  <2>2. toHost' \in Seq(Tokens)
    BY <1>9, <2>1, ReadSplit DEF Stream
  <2>3. LineTyped' /\ CountsTyped'
    BY <1>1, <1>9, <2>2 DEF Stream, LineTyped, CountsTyped, host
  <2>4. FlagsTyped' /\ PlanTyped' /\ SetUpTyped'
    BY <1>1, <1>9 DEF Stream, FlagsTyped, PlanTyped, SetUpTyped, host
  <2>5. QED
    BY <2>3, <2>4, TypeParts
<1>10. CASE StopMonitor
  <2>1. Cmd("CR", {}) \in Commands
    BY DEF Cmd, Commands
  <2>2. Append(toAdapter, Cmd("CR", {})) \in Seq(Commands)
    BY <1>1, <2>1, AppendProperties DEF LineTyped
  <2>3. LineTyped' /\ CountsTyped'
    BY <1>1, <1>10, <2>2 DEF StopMonitor, LineTyped, CountsTyped
  <2>4. FlagsTyped' /\ PlanTyped' /\ SetUpTyped'
    BY <1>1, <1>10 DEF StopMonitor, FlagsTyped, PlanTyped, SetUpTyped
  <2>5. QED
    BY <2>3, <2>4, TypeParts
<1>11. CASE Drained
  <2>1. PICK chunk \in Chunks : \E n \in Prompted(chunk) :
          Consume(chunk) /\ pending' = After(chunk, n)
    BY <1>11 DEF Drained
  <2>2. PICK n \in Prompted(chunk) : pending' = After(chunk, n)
    BY <2>1
  <2>3. chunk \in Seq(Tokens) /\ toHost' \in Seq(Tokens)
    BY <1>11, <2>1, ReadSplit DEF Drained
  <2>4. pending' \in Seq(Tokens)
    <3>1. n \in 1..Len(chunk)
      BY <2>2, <2>3 DEF Prompted
    <3>2. QED
      BY <2>2, <2>3, <3>1 DEF After
  <2>5. /\ PlanTyped'
        /\ port' \in BOOLEAN /\ leaving' \in BOOLEAN /\ failed' \in BOOLEAN
        /\ outcome' \in {"none", "drained", "undrained", "silenced", "unsilenced"}
    <3>1. (\E err \in BOOLEAN : MonitorReturns(err)) /\ outcome' \in {outcome, "drained", "undrained"}
      BY <1>11 DEF Drained
    <3>2. QED
      BY <3>1, EndsTyped
  <2>6. FlagsTyped' /\ SetUpTyped' /\ CountsTyped'
    BY <1>1, <1>11, <2>5 DEF Drained, FlagsTyped, SetUpTyped, CountsTyped
  <2>7. LineTyped'
    BY <1>1, <1>11, <2>3, <2>4 DEF Drained, LineTyped
  <2>8. QED
    BY <2>5, <2>6, <2>7, TypeParts
<1>12. CASE World
  <2>1. FlagsTyped' /\ PlanTyped' /\ SetUpTyped' /\ CountsTyped'
    BY <1>1, <1>12 DEF World, Stop, CloseDriver, Lose, FlagsTyped, PlanTyped, SetUpTyped,
                       CountsTyped, host
  <2>2. LineTyped'
    BY <1>1, <1>2, <1>12 DEF World, Stop, CloseDriver, Lose, LineTyped, line, host
  <2>3. QED
    BY <2>1, <2>2, TypeParts
<1>13. QED
  BY <1>3, <1>4, <1>5, <1>6, <1>7, <1>8, <1>9, <1>10, <1>11, <1>12 DEF Ask, Read, Watch, World

(* The adapter says one text and a prompt, and after an interruption maybe *)
(* another answer.                                                         *)
Says == {<<t, Prompt>> : t \in Texts} \cup {<<t>> : t \in {"frame", Prompt}} \cup {<<>>}
            \cup {<<"stopped", Prompt, "error", Prompt>>}

LEMMA SaysTyped == Says \subseteq Seq(Tokens)
<1>1. Texts \subseteq Tokens /\ Prompt \in Tokens /\ {"stopped", "error", "frame"} \subseteq Tokens
  BY DEF Tokens, Texts
<1>2. \A t, r \in Tokens : <<t, r>> \in Seq(Tokens) /\ <<t>> \in Seq(Tokens)
  OBVIOUS
<1>3. \A t, r, u, v \in Tokens : <<t, r, u, v>> \in Seq(Tokens)
  OBVIOUS
<1>4. \A t \in Texts : <<t, Prompt>> \in Seq(Tokens)
  BY <1>1, <1>2
<1>5. \A t \in {"frame", Prompt} : <<t>> \in Seq(Tokens)
  BY <1>1, <1>2
<1>6. <<"stopped", Prompt, "error", Prompt>> \in Seq(Tokens) /\ <<>> \in Seq(Tokens)
  BY <1>1, <1>3
<1>7. QED
  BY <1>4, <1>5, <1>6 DEF Says

LEMMA AnswersAreTexts ==
    ASSUME NEW c \in Commands, c.name \notin {"CR", "Monitor"}
    PROVE  AnswerTexts(c) \subseteq Texts /\ Prompt \notin AnswerTexts(c)
BY DEF AnswerTexts, Texts, Prompt

(* The adapter at its prompt, at work and in monitor mode. *)
At(a, place, c) == [a EXCEPT !.at = place, !.cmd = c]

SetUpOf(a, b) ==
    /\ b.set = a.set /\ b.code = a.code /\ b.mask = a.mask
    /\ b.pass = a.pass /\ b.periodic = a.periodic /\ b.normal = a.normal

LEMMA AtTyped ==
    ASSUME NEW a \in Adapters, NEW place \in {"prompt", "busy", "monitor"},
           NEW c \in Commands \cup {Cmd("", {})}
    PROVE  /\ At(a, place, c) \in Adapters
           /\ At(a, place, c).at = place /\ At(a, place, c).cmd = c
           /\ SetUpOf(a, At(a, place, c))
BY DEF At, Adapters, SetUpOf

LEMMA AtBusy ==
    ASSUME NEW a \in Adapters, NEW c \in Commands
    PROVE  /\ At(a, "busy", c) \in Adapters
           /\ At(a, "busy", c).at = "busy" /\ At(a, "busy", c).cmd = c
           /\ SetUpOf(a, At(a, "busy", c))
BY DEF At, Adapters, SetUpOf

-----------------------------------------------------------------------------
(* Every step, item by item: what it does to the line and to the adapter.  *)

(* The sizes and the members of the sequences. *)
Sized ==
    /\ Len(toAdapter) \in Nat /\ Len(unread) \in Nat /\ Len(plan) \in Nat
    /\ \A i \in 1..Len(toAdapter) : toAdapter[i] \in Commands
    /\ \A i \in 1..Len(plan) : plan[i] \in Commands
    /\ pc \in {"command", "answer"} => Len(plan) > 0 /\ Head(plan) = plan[1]
    /\ pc \notin {"command", "answer"} /\ plan # <<>> => Len(plan) > 0 /\ Head(plan) = plan[1]

LEMMA Sizes ==
    ASSUME TypeOK
    PROVE  Sized
<1>1. /\ toAdapter \in Seq(Commands) /\ plan \in Seq(Commands)
      /\ pc \in {"command", "answer"} => plan # <<>>
  BY DEF TypeOK
<1>2. Len(unread) \in Nat
  BY UnreadType
<1>3. plan # <<>> => Len(plan) > 0 /\ Head(plan) = plan[1]
  BY <1>1
<1>4. /\ Len(toAdapter) \in Nat /\ \A i \in 1..Len(toAdapter) : toAdapter[i] \in Commands
      /\ Len(plan) \in Nat /\ \A i \in 1..Len(plan) : plan[i] \in Commands
  BY <1>1
<1>5. QED
  BY <1>1, <1>2, <1>3, <1>4 DEF Sized

(* The queue loses its head, or gets one more command. *)
Consumed ==
    /\ Len(toAdapter) > 0
    /\ Len(toAdapter') = Len(toAdapter) - 1
    /\ \A i \in 1..Len(toAdapter') : toAdapter'[i] = toAdapter[i + 1]

Queued(c) ==
    /\ Len(toAdapter') = Len(toAdapter) + 1
    /\ \A i \in 1..Len(toAdapter) : toAdapter'[i] = toAdapter[i]
    /\ toAdapter'[Len(toAdapter) + 1] = c

(* The host gets n more tokens; the answer t comes with its prompt. *)
Hears(n) ==
    /\ Len(unread') = Len(unread) + n
    /\ \A i \in 1..Len(unread) : unread'[i] = unread[i]

Answers(t) ==
    Hears(2) /\ unread'[Len(unread) + 1] = t /\ unread'[Len(unread) + 2] = Prompt

SameSetUp == SetUpOf(adapter, adapter')

SameHost ==
    /\ driver' = driver /\ pc' = pc /\ plan' = plan /\ acc' = acc /\ stop' = stop
    /\ leaving' = leaving /\ outcome' = outcome /\ timeouts' = timeouts

Skips ==
    /\ adapter.at = "prompt" /\ Consumed /\ toAdapter[1].name = "CR" /\ adapter' = adapter
    /\ Hears(0) \/ (Hears(1) /\ unread'[Len(unread) + 1] = Prompt)

Takes ==
    /\ adapter.at = "prompt" /\ Consumed /\ toAdapter[1].name # "CR"
    /\ adapter'.at = "busy" /\ adapter'.cmd = toAdapter[1] /\ SameSetUp
    /\ Hears(0)

Watches ==
    /\ adapter.at = "busy" /\ adapter.cmd.name = "Monitor" /\ toAdapter' = toAdapter
    /\ adapter'.at = "monitor" /\ SameSetUp
    /\ Hears(0)

Executes ==
    /\ adapter.at = "busy" /\ adapter.cmd.name # "Monitor" /\ toAdapter' = toAdapter
    /\ adapter'.at = "prompt" /\ SetUpOf(Effect(adapter, adapter.cmd), adapter')
    /\ \E text \in AnswerTexts(adapter.cmd) : Answers(text)

Declines ==
    /\ adapter.at \in {"busy", "monitor"} /\ toAdapter' = toAdapter
    /\ adapter'.at = "prompt" /\ SameSetUp
    /\ Answers("error")

Interrupted ==
    /\ adapter.at = "monitor" /\ Consumed
    /\ adapter'.at = "prompt" /\ SameSetUp
    /\ \/ Answers("stopped")
       \/ /\ toAdapter[1].name # "CR"
          /\ Hears(4) /\ unread'[Len(unread) + 1] = "stopped" /\ unread'[Len(unread) + 2] = Prompt
          /\ unread'[Len(unread) + 3] = "error" /\ unread'[Len(unread) + 4] = Prompt

Emits ==
    /\ adapter.at = "monitor" /\ toAdapter' = toAdapter /\ adapter' = adapter
    /\ Hears(1) /\ unread'[Len(unread) + 1] = "frame"

LEMMA GrowsHow ==
    ASSUME TypeOK
    PROVE  /\ Grows(<<>>) => Hears(0)
           /\ \A t : Grows(<<t>>) => Hears(1) /\ unread'[Len(unread) + 1] = t
           /\ \A t : Grows(<<t, Prompt>>) => Answers(t)
           /\ Grows(<<"stopped", Prompt, "error", Prompt>>) =>
                /\ Hears(4) /\ unread'[Len(unread) + 1] = "stopped" /\ unread'[Len(unread) + 2] = Prompt
                /\ unread'[Len(unread) + 3] = "error" /\ unread'[Len(unread) + 4] = Prompt
<1>1. Len(unread) \in Nat
  BY UnreadType
<1>2. Grows(<<>>) => Hears(0)
  BY <1>1 DEF Grows, Hears
<1>3. ASSUME NEW t, Grows(<<t>>) PROVE Hears(1) /\ unread'[Len(unread) + 1] = t
  BY <1>1, <1>3 DEF Grows, Hears
<1>4. ASSUME NEW t, Grows(<<t, Prompt>>) PROVE Answers(t)
  <2> DEFINE s == <<t, Prompt>>
  <2>1. Len(s) = 2 /\ s[1] = t /\ s[2] = Prompt /\ 1 \in 1..Len(s) /\ 2 \in 1..Len(s)
    OBVIOUS
  <2>2. Grows(s)
    BY <1>4
  <2> HIDE DEF s
  <2>3. QED
    BY <1>1, <2>1, <2>2 DEF Grows, Hears, Answers
<1>5. ASSUME Grows(<<"stopped", Prompt, "error", Prompt>>)
      PROVE  /\ Hears(4) /\ unread'[Len(unread) + 1] = "stopped" /\ unread'[Len(unread) + 2] = Prompt
             /\ unread'[Len(unread) + 3] = "error" /\ unread'[Len(unread) + 4] = Prompt
  <2> DEFINE s == <<"stopped", Prompt, "error", Prompt>>
  <2>1. /\ Len(s) = 4 /\ s[1] = "stopped" /\ s[2] = Prompt /\ s[3] = "error" /\ s[4] = Prompt
        /\ {1, 2, 3, 4} \subseteq 1..Len(s)
    OBVIOUS
  <2>2. Grows(s)
    BY <1>5
  <2> HIDE DEF s
  <2>3. QED
    BY <1>1, <2>1, <2>2 DEF Grows, Hears
<1>6. QED
  BY <1>2, <1>3, <1>4, <1>5

LEMMA Dequeued ==
    ASSUME TypeOK, toAdapter # <<>>, toAdapter' = Tail(toAdapter)
    PROVE  Consumed /\ Head(toAdapter) = toAdapter[1] /\ toAdapter' \in Seq(Commands)
<1>1. toAdapter \in Seq(Commands)
  BY DEF TypeOK
<1>2. QED
  BY <1>1 DEF Consumed

LEMMA AdapterHow ==
    ASSUME TypeOK, Adapter
    PROVE  /\ SameHost
           /\ Skips \/ Takes \/ Watches \/ Executes \/ Declines \/ Interrupted \/ Emits
           /\ TypeOK'
<1>1. FlagsTyped /\ PlanTyped /\ LineTyped /\ SetUpTyped /\ CountsTyped
  BY TypeParts
<1>2. UNCHANGED <<driver, host, stop, port, sessions, timeouts>>
  BY DEF Adapter, Take, Answer, Refuse, Interrupt, Emit, Abort
<1>3. SameHost /\ UNCHANGED host
  BY <1>2 DEF SameHost, host
<1>4. FlagsTyped' /\ PlanTyped' /\ CountsTyped' /\ pending' = pending
  BY <1>1, <1>2 DEF FlagsTyped, PlanTyped, CountsTyped, host
<1>5. adapter \in Adapters /\ pending \in Seq(Tokens) /\ toAdapter \in Seq(Commands)
      /\ toHost \in Seq(Tokens)
  BY <1>1 DEF SetUpTyped, LineTyped
<1>6. ASSUME NEW s \in Says, toHost' = toHost \o s
      PROVE  Grows(s) /\ toHost' \in Seq(Tokens)
  BY <1>3, <1>6, Received, SaysTyped
<1>7. ASSUME toHost' = toHost PROVE Hears(0)
  <2>1. toHost' = toHost \o <<>> /\ <<>> \in Says
    BY <1>5, <1>7 DEF Says
  <2>2. QED
    BY <1>6, <2>1, GrowsHow
<1>8. CASE Take
  <2>1. Consumed /\ Head(toAdapter) = toAdapter[1] /\ toAdapter' \in Seq(Commands)
    BY <1>8, Dequeued DEF Take
  <2>2. toAdapter[1] \in Commands
    BY <1>5, <2>1 DEF Consumed
  <2>3. CASE toAdapter[1].name = "CR"
    <3>1. adapter' = adapter /\ toHost' \in {toHost, Append(toHost, Prompt)} /\ adapter.at = "prompt"
      BY <1>8, <2>1, <2>3 DEF Take
    <3>2. CASE toHost' = toHost
      BY <1>1, <1>3, <1>4, <1>7, <2>1, <2>3, <3>1, <3>2, TypeParts DEF Skips, LineTyped, SetUpTyped
    <3>3. CASE toHost' = Append(toHost, Prompt)
      <4>1. toHost' = toHost \o <<Prompt>> /\ <<Prompt>> \in Says
        BY <1>5, <3>3 DEF Says
      <4>2. Hears(1) /\ unread'[Len(unread) + 1] = Prompt /\ toHost' \in Seq(Tokens)
        BY <1>6, <4>1, GrowsHow
      <4>3. Skips
        BY <2>1, <2>3, <3>1, <4>2 DEF Skips
      <4>4. LineTyped' /\ SetUpTyped'
        BY <1>1, <1>4, <2>1, <3>1, <4>2 DEF LineTyped, SetUpTyped
      <4>5. QED
        BY <1>3, <1>4, <4>3, <4>4, TypeParts
    <3>4. QED
      BY <3>1, <3>2, <3>3
  <2>4. CASE toAdapter[1].name # "CR"
    <3>1. adapter' = At(adapter, "busy", toAdapter[1]) /\ toHost' = toHost /\ adapter.at = "prompt"
      BY <1>8, <2>1, <2>4 DEF Take, At
    <3>2. toAdapter[1].name # ""
      BY <2>2, CommandParts, SettingNames
    <3>3. adapter' \in Adapters /\ adapter'.at = "busy" /\ adapter'.cmd = toAdapter[1] /\ SameSetUp
      <4>1. /\ At(adapter, "busy", toAdapter[1]) \in Adapters
            /\ At(adapter, "busy", toAdapter[1]).at = "busy"
            /\ At(adapter, "busy", toAdapter[1]).cmd = toAdapter[1]
            /\ SetUpOf(adapter, At(adapter, "busy", toAdapter[1]))
        BY <1>5, <2>2, AtBusy
      <4>2. QED
        BY <3>1, <4>1 DEF SameSetUp
    <3>4. Takes
      BY <1>7, <2>1, <2>4, <3>1, <3>3 DEF Takes
    <3>5. LineTyped' /\ SetUpTyped'
      BY <1>1, <1>4, <2>1, <2>4, <3>1, <3>2, <3>3 DEF LineTyped, SetUpTyped
    <3>6. QED
      BY <1>3, <1>4, <3>4, <3>5, TypeParts
  <2>5. QED
    BY <2>3, <2>4
<1>9. CASE Answer
  <2>1. toAdapter' = toAdapter /\ adapter.at = "busy"
    BY <1>9 DEF Answer
  <2>2. adapter.cmd \in Commands /\ adapter.cmd.name # "CR"
    <3>1. adapter.cmd \in Commands \cup {Cmd("", {})} /\ adapter.cmd.name \notin {"", "CR"}
      BY <1>1, <2>1 DEF SetUpTyped, Adapters
    <3>2. Cmd("", {}).name = ""
      BY DEF Cmd
    <3>3. QED
      BY <3>1, <3>2
  <2>3. CASE adapter.cmd.name = "Monitor"
    <3>1. adapter' = [adapter EXCEPT !.at = "monitor"] /\ toHost' = toHost
      BY <1>9, <2>3 DEF Answer
    <3>2. adapter' \in Adapters /\ adapter'.at = "monitor" /\ SameSetUp
      BY <1>5, <3>1 DEF Adapters, SameSetUp, SetUpOf
    <3>3. Watches
      BY <1>7, <2>1, <2>3, <3>1, <3>2 DEF Watches
    <3>4. LineTyped' /\ SetUpTyped'
      BY <1>1, <1>4, <2>1, <3>1, <3>2 DEF LineTyped, SetUpTyped
    <3>5. QED
      BY <1>3, <1>4, <3>3, <3>4, TypeParts
  <2>4. CASE adapter.cmd.name # "Monitor"
    <3>1. Effect(adapter, adapter.cmd) \in Adapters
      BY <1>5, <2>2, <2>4, EffectIs
    <3>2. adapter' = At(Effect(adapter, adapter.cmd), "prompt", Cmd("", {}))
      BY <1>9, <2>4 DEF Answer, At
    <3>3. adapter' \in Adapters /\ adapter'.at = "prompt" /\ SetUpOf(Effect(adapter, adapter.cmd), adapter')
      <4>1. Cmd("", {}) \in Commands \cup {Cmd("", {})}
        OBVIOUS
      <4>2. QED
        BY <3>1, <3>2, <4>1, AtTyped
    <3>4. PICK text \in AnswerTexts(adapter.cmd) : toHost' = toHost \o <<text, Prompt>>
      BY <1>9, <2>4 DEF Answer
    <3>5. <<text, Prompt>> \in Says
      BY <2>2, <2>4, <3>4, AnswersAreTexts DEF Says
    <3>6. Answers(text) /\ toHost' \in Seq(Tokens)
      BY <1>6, <3>4, <3>5, GrowsHow
    <3>7. Executes
      BY <2>1, <2>4, <3>3, <3>4, <3>6 DEF Executes
    <3>8. LineTyped' /\ SetUpTyped'
      BY <1>1, <1>4, <2>1, <3>3, <3>6 DEF LineTyped, SetUpTyped
    <3>9. QED
      BY <1>3, <1>4, <3>7, <3>8, TypeParts
  <2>5. QED
    BY <2>3, <2>4
<1>10. CASE Refuse \/ Abort
  <2>1. /\ adapter' = At(adapter, "prompt", Cmd("", {})) /\ toAdapter' = toAdapter
        /\ toHost' = toHost \o <<"error", Prompt>> /\ adapter.at \in {"busy", "monitor"}
    BY <1>10 DEF Refuse, Abort, At
  <2>2. adapter' \in Adapters /\ adapter'.at = "prompt" /\ SameSetUp
    <3>1. Cmd("", {}) \in Commands \cup {Cmd("", {})}
      OBVIOUS
    <3>2. QED
      BY <1>5, <2>1, <3>1, AtTyped DEF SameSetUp
  <2>3. <<"error", Prompt>> \in Says
    BY DEF Says, Texts
  <2>4. Answers("error") /\ toHost' \in Seq(Tokens)
    BY <1>6, <2>1, <2>3, GrowsHow
  <2>5. Declines
    BY <2>1, <2>2, <2>4 DEF Declines
  <2>6. LineTyped' /\ SetUpTyped'
    BY <1>1, <1>4, <2>1, <2>2, <2>4 DEF LineTyped, SetUpTyped
  <2>7. QED
    BY <1>3, <1>4, <2>5, <2>6, TypeParts
<1>11. CASE Interrupt
  <2>1. Consumed /\ Head(toAdapter) = toAdapter[1] /\ toAdapter' \in Seq(Commands)
    BY <1>11, Dequeued DEF Interrupt
  <2>2. adapter' = At(adapter, "prompt", Cmd("", {})) /\ adapter.at = "monitor"
    BY <1>11 DEF Interrupt, At
  <2>3. adapter' \in Adapters /\ adapter'.at = "prompt" /\ SameSetUp
    <3>1. Cmd("", {}) \in Commands \cup {Cmd("", {})}
      OBVIOUS
    <3>2. QED
      BY <1>5, <2>2, <3>1, AtTyped DEF SameSetUp
  <2>4. SetUpTyped'
    BY <2>3 DEF SetUpTyped
  <2>5. PICK rest \in {<<>>} \cup IF toAdapter[1].name = "CR" THEN {} ELSE {<<"error", Prompt>>} :
          toHost' = (toHost \o <<"stopped", Prompt>>) \o rest
    BY <1>11, <2>1 DEF Interrupt
  <2>6. <<"stopped", Prompt>> \in Says /\ <<"stopped", Prompt, "error", Prompt>> \in Says
    BY DEF Says, Texts
  <2>7. CASE rest = <<>>
    <3>1. toHost \o <<"stopped", Prompt>> \in Seq(Tokens)
      BY <1>5, <2>6, SaysTyped, ConcatProperties
    <3>2. toHost' = toHost \o <<"stopped", Prompt>>
      BY <2>5, <2>7, <3>1, ConcatEmptySeq
    <3>3. Answers("stopped") /\ toHost' \in Seq(Tokens)
      BY <1>6, <2>6, <3>2, GrowsHow
    <3>4. Interrupted
      BY <2>1, <2>2, <2>3, <3>3 DEF Interrupted
    <3>5. LineTyped'
      BY <1>1, <1>4, <2>1, <3>3 DEF LineTyped
    <3>6. QED
      BY <1>3, <1>4, <2>4, <3>4, <3>5, TypeParts
  <2>8. CASE rest = <<"error", Prompt>> /\ toAdapter[1].name # "CR"
    <3>1. <<"stopped", Prompt>> \o <<"error", Prompt>> = <<"stopped", Prompt, "error", Prompt>>
      <4> DEFINE s == <<"stopped", Prompt>>
                 e == <<"error", Prompt>>
                 b == <<"stopped", Prompt, "error", Prompt>>
      <4>1. s \in Seq(Tokens) /\ e \in Seq(Tokens) /\ b \in Seq(Tokens)
        BY SaysTyped DEF Says, Texts
      <4>2. Len(s) = 2 /\ Len(e) = 2 /\ Len(b) = 4
        OBVIOUS
      <4>3. b[1] = s[1] /\ b[2] = s[2] /\ b[3] = e[1] /\ b[4] = e[2]
        OBVIOUS
      <4> HIDE DEF s, e, b
      <4>4. /\ s \o e \in Seq(Tokens) /\ Len(s \o e) = 4
            /\ (s \o e)[1] = s[1] /\ (s \o e)[2] = s[2]
            /\ (s \o e)[2 + 1] = e[1] /\ (s \o e)[2 + 2] = e[2]
        <5>1. /\ s \o e \in Seq(Tokens) /\ Len(s \o e) = Len(s) + Len(e)
              /\ \A i \in 1..Len(s) : (s \o e)[i] = s[i]
              /\ \A i \in 1..Len(e) : (s \o e)[Len(s) + i] = e[i]
          BY <4>1, Joined
        <5>2. 1 \in 1..Len(s) /\ 2 \in 1..Len(s) /\ 1 \in 1..Len(e) /\ 2 \in 1..Len(e)
          BY <4>2
        <5>3. (s \o e)[Len(s) + 1] = e[1] /\ (s \o e)[Len(s) + 2] = e[2]
          BY <5>1, <5>2
        <5>4. QED
          BY <4>2, <5>1, <5>2, <5>3
      <4>5. s \o e = b
        <5>1. \A i \in 1..4 : i = 1 \/ i = 2 \/ i = 2 + 1 \/ i = 2 + 2
          OBVIOUS
        <5>2. \A i \in 1..4 : (s \o e)[i] = b[i]
          BY <4>3, <4>4, <5>1
        <5>3. QED
          BY <4>1, <4>2, <4>4, <5>2, SeqEqual
      <4>6. QED
        BY <4>5 DEF s, e, b
    <3>2. /\ <<"stopped", Prompt>> \in Seq(Tokens) /\ <<"error", Prompt>> \in Seq(Tokens)
      BY SaysTyped DEF Says, Texts
    <3>3. toHost' = toHost \o <<"stopped", Prompt, "error", Prompt>>
      <4> DEFINE s == <<"stopped", Prompt>>
                 e == <<"error", Prompt>>
      <4>1. s \o e = <<"stopped", Prompt, "error", Prompt>>
        BY <3>1
      <4>2. s \in Seq(Tokens) /\ e \in Seq(Tokens) /\ toHost' = (toHost \o s) \o e
        BY <2>5, <2>8, <3>2
      <4> HIDE DEF s, e
      <4>3. toHost' = toHost \o (s \o e)
        BY <1>5, <4>2, ConcatAssociative
      <4>4. QED
        BY <4>1, <4>3
    <3>4. Grows(<<"stopped", Prompt, "error", Prompt>>) /\ toHost' \in Seq(Tokens)
      BY <1>6, <2>6, <3>3
    <3>5. Interrupted
      BY <2>1, <2>2, <2>3, <2>8, <3>4, GrowsHow DEF Interrupted
    <3>6. LineTyped'
      BY <1>1, <1>4, <2>1, <3>4 DEF LineTyped
    <3>7. QED
      BY <1>3, <1>4, <2>4, <3>5, <3>6, TypeParts
  <2>9. QED
    BY <2>5, <2>7, <2>8
<1>12. CASE Emit
  <2>1. toHost' = toHost \o <<"frame">> /\ <<"frame">> \in Says
    BY <1>5, <1>12 DEF Emit, Says
  <2>2. Hears(1) /\ unread'[Len(unread) + 1] = "frame" /\ toHost' \in Seq(Tokens)
    BY <1>6, <2>1, GrowsHow
  <2>3. Emits
    BY <1>12, <2>2 DEF Emit, Emits
  <2>4. LineTyped' /\ SetUpTyped'
    BY <1>1, <1>4, <1>12, <2>2 DEF LineTyped, SetUpTyped, Emit
  <2>5. QED
    BY <1>3, <1>4, <2>3, <2>4, TypeParts
<1>13. QED
  BY <1>8, <1>9, <1>10, <1>11, <1>12 DEF Adapter

LEMMA InitTyped ==
    ASSUME Init
    PROVE  TypeOK
<1>1. adapter \in Adapters /\ adapter.at # "busy"
  <2>1. PowerOn \in Adapters /\ PowerOn.at = "prompt"
    BY DEF PowerOn, Adapters
  <2>2. QED
    BY <2>1 DEF Init, Adapters
<1>2. <<>> \in Seq(Tokens) /\ <<>> \in Seq(Commands)
  OBVIOUS
<1>3. FlagsTyped /\ PlanTyped /\ LineTyped
  BY <1>2 DEF Init, FlagsTyped, PlanTyped, LineTyped
<1>4. SetUpTyped /\ CountsTyped
  <2>1. sessions = 0 /\ timeouts = 0
    BY DEF Init
  <2>2. 0 \in 0..MaxSessions /\ 0 \in 0..MaxTimeouts
    BY Bounds
  <2>3. QED
    BY <1>1, <2>1, <2>2 DEF SetUpTyped, CountsTyped
<1>5. QED
  BY <1>3, <1>4, TypeParts

(* What the host reads, and what it leaves unread. *)
Collects(k) ==
    /\ k \in 1..Len(unread) /\ Drops(k)
    /\ \A i \in 1..k : unread[i] # Prompt
    /\ acc' = acc \cup {unread[i] : i \in 1..k}

(* The first prompt is the n-th token. *)
FirstPrompt(n) ==
    n \in 1..Len(unread) /\ unread[n] = Prompt /\ \A i \in 1..(n - 1) : unread[i] # Prompt

AnswerUpTo(n) == acc \cup {unread[i] : i \in 1..(n - 1)}

Ends(n) ==
    /\ FirstPrompt(n)
    /\ \E k \in n..Len(unread) : Drops(k)
    /\ pc' \notin {"closed", "ended"} => Drops(n)

LEMMA PromptedIs ==
    ASSUME TypeOK, pc \notin {"closed", "ended"}, NEW chunk \in Chunks, Consume(chunk),
           NEW n \in Prompted(chunk)
    PROVE  /\ FirstPrompt(n) /\ n \in 0..Len(chunk)
           /\ acc \cup Range(Before(chunk, n)) = AnswerUpTo(n)
<1>1. /\ chunk \in Seq(Tokens) /\ Len(chunk) \in Nat \ {0}
      /\ Len(unread) = Len(chunk) + Len(toHost')
      /\ \A i \in 1..Len(chunk) : unread[i] = chunk[i]
      /\ toHost' \in Seq(Tokens)
  BY ReadSplit
<1>2. n \in 1..Len(chunk) /\ chunk[n] = Prompt /\ ~Contains(Before(chunk, n), Prompt)
  BY <1>1 DEF Prompted
<1> DEFINE b == Before(chunk, n)
<1>3. DOMAIN b = 1..(n - 1) /\ \A i \in 1..(n - 1) : b[i] = chunk[i]
  BY <1>1, <1>2 DEF Before
<1>4. ~Contains(b, Prompt)
  BY <1>2
<1> HIDE DEF b
<1>5. \A i \in 1..(n - 1) : unread[i] = b[i] /\ b[i] # Prompt
  BY <1>1, <1>2, <1>3, <1>4 DEF Contains
<1>6. Range(b) = {unread[i] : i \in 1..(n - 1)}
  BY <1>3, <1>5 DEF Range
<1>7. Len(toHost') \in Nat
  BY <1>1
<1>8. FirstPrompt(n) /\ n \in 0..Len(chunk)
  BY <1>1, <1>2, <1>5, <1>7 DEF FirstPrompt
<1>9. QED
  BY <1>6, <1>8 DEF b, AnswerUpTo

LEMMA DropsShortens ==
    ASSUME TypeOK, NEW k \in 0..Len(unread), Drops(k)
    PROVE  Shortens
BY DEF Shortens

LEMMA CollectHow ==
    ASSUME TypeOK, Collect
    PROVE  /\ pc \in {"answer", "drain"}
           /\ \E k \in 1..Len(unread) : Collects(k)
           /\ pc' = pc /\ plan' = plan /\ leaving' = leaving /\ stop' = stop /\ outcome' = outcome
           /\ timeouts' = timeouts /\ toAdapter' = toAdapter
           /\ adapter' = adapter /\ driver' = driver
<1>1. PICK chunk \in Chunks :
        ~Contains(chunk, Prompt) /\ Consume(chunk) /\ acc' = acc \cup Range(chunk)
  BY DEF Collect
<1>2. pc \notin {"closed", "ended"} /\ pc' = pc /\ pending' = <<>>
  BY DEF Collect
<1>3. /\ chunk \in Seq(Tokens) /\ Len(chunk) \in Nat \ {0}
      /\ Len(unread) = Len(chunk) + Len(toHost')
      /\ \A i \in 1..Len(chunk) : unread[i] = chunk[i]
      /\ toHost' \in Seq(Tokens)
  BY <1>1, <1>2, ReadSplit
<1>4. pending' = SubSeq(chunk, Len(chunk) + 1, Len(chunk))
  BY <1>2, <1>3
<1>5. Drops(Len(chunk))
  <2>1. Len(chunk) \in 0..Len(chunk)
    BY <1>3
  <2>2. Leaves(chunk, Len(chunk))
    BY <1>1, <1>4 DEF Leaves
  <2>3. QED
    BY <1>2, <2>1, <2>2, ReadDrops
<1>6. \A i \in 1..Len(chunk) : unread[i] # Prompt
  BY <1>1, <1>3 DEF Contains
<1>7. Range(chunk) = {unread[i] : i \in 1..Len(chunk)}
  BY <1>3 DEF Range
<1>8. Len(toHost') \in Nat
  BY <1>3
<1>9. Collects(Len(chunk)) /\ Len(chunk) \in 1..Len(unread)
  BY <1>1, <1>3, <1>5, <1>6, <1>7, <1>8 DEF Collects
<1>10. QED
  BY <1>9 DEF Collect

LEMMA ReadEnds ==
    ASSUME TypeOK, pc \notin {"closed", "ended"}, NEW chunk \in Chunks, Consume(chunk),
           NEW n \in Prompted(chunk), pending' = After(chunk, n)
    PROVE  Ends(n)
<1>1. FirstPrompt(n) /\ n \in 0..Len(chunk)
  BY PromptedIs
<1>2. Leaves(chunk, n)
  BY DEF Leaves, After
<1>3. IF pc' \in {"closed", "ended"} THEN Drops(Len(chunk)) ELSE Drops(n)
  BY <1>1, <1>2, ReadDrops
<1>4. n \in n..Len(unread) /\ Len(chunk) \in n..Len(unread)
  <2>1. /\ Len(chunk) \in Nat /\ Len(unread) = Len(chunk) + Len(toHost')
        /\ toHost' \in Seq(Tokens)
    BY ReadSplit
  <2>2. Len(toHost') \in Nat
    BY <2>1
  <2>3. QED
    BY <1>1, <2>1, <2>2
<1>5. QED
  BY <1>1, <1>3, <1>4 DEF Ends

LEMMA EndsShortens ==
    ASSUME TypeOK, NEW n \in 1..Len(unread), Ends(n)
    PROVE  Shortens
<1>1. PICK k \in n..Len(unread) : Drops(k)
  BY DEF Ends
<1>2. k \in 0..Len(unread)
  BY UnreadType
<1>3. QED
  BY <1>1, <1>2, DropsShortens

LEMMA AnsweredHow ==
    ASSUME TypeOK, Answered
    PROVE  /\ pc = "answer" /\ acc' = {} /\ stop' = stop /\ timeouts' = timeouts
           /\ toAdapter' = toAdapter /\ adapter' = adapter /\ driver' = driver
           /\ \E n \in 1..Len(unread) :
                /\ Ends(n)
                /\ IF Accepts(Head(plan).name, AnswerUpTo(n)) THEN CommandWorks ELSE CommandFails
<1>1. PICK chunk \in Chunks : \E n \in Prompted(chunk) :
        /\ Consume(chunk)
        /\ pending' = After(chunk, n)
        /\ IF Accepts(Head(plan).name, acc \cup Range(Before(chunk, n)))
           THEN CommandWorks ELSE CommandFails
  BY DEF Answered
<1>2. PICK n \in Prompted(chunk) :
        /\ Consume(chunk)
        /\ pending' = After(chunk, n)
        /\ IF Accepts(Head(plan).name, acc \cup Range(Before(chunk, n)))
           THEN CommandWorks ELSE CommandFails
  BY <1>1
<1>3. pc = "answer" /\ acc' = {} /\ UNCHANGED <<driver, stop, toAdapter, adapter, sessions, timeouts>>
  BY DEF Answered
<1>4. acc \cup Range(Before(chunk, n)) = AnswerUpTo(n) /\ FirstPrompt(n)
  BY <1>2, <1>3, PromptedIs
<1>5. Ends(n)
  BY <1>2, <1>3, ReadEnds
<1>6. n \in 1..Len(unread)
  BY <1>4 DEF FirstPrompt
<1>7. IF Accepts(Head(plan).name, AnswerUpTo(n)) THEN CommandWorks ELSE CommandFails
  BY <1>2, <1>4
<1>8. QED
  BY <1>3, <1>5, <1>6, <1>7

LEMMA DrainedHow ==
    ASSUME TypeOK, Drained
    PROVE  /\ pc = "drain" /\ outcome' = "drained" /\ MonitorReturns(FALSE)
           /\ acc' = acc /\ stop' = stop /\ timeouts' = timeouts
           /\ toAdapter' = toAdapter /\ adapter' = adapter /\ driver' = driver
           /\ \E n \in 1..Len(unread) : Ends(n)
<1>1. PICK chunk \in Chunks : \E n \in Prompted(chunk) :
        Consume(chunk) /\ pending' = After(chunk, n)
  BY DEF Drained
<1>2. PICK n \in Prompted(chunk) : Consume(chunk) /\ pending' = After(chunk, n)
  BY <1>1
<1>3. pc = "drain" /\ UNCHANGED <<driver, acc, stop, toAdapter, adapter, sessions, timeouts>>
  BY DEF Drained
<1>4. Ends(n)
  BY <1>2, <1>3, ReadEnds
<1>5. n \in 1..Len(unread)
  BY <1>4 DEF Ends, FirstPrompt
<1>6. QED
  BY <1>3, <1>4, <1>5 DEF Drained

(* Whatever the host does, it goes on with a tail of what it had.          *)
LEMMA HostShortens ==
    ASSUME TypeOK, Ask \/ Read \/ Watch \/ World
    PROVE  Shortens
<1>0. Len(unread) \in Nat
  BY UnreadType
<1>1. CASE Collect
  BY <1>0, <1>1, CollectHow, DropsShortens DEF Collects
<1>2. CASE Answered
  BY <1>2, AnsweredHow, EndsShortens
<1>3. CASE Drained
  BY <1>3, DrainedHow, EndsShortens
<1>4. CASE Stream
  <2>1. PICK chunk \in Chunks : Consume(chunk)
    BY <1>4 DEF Stream
  <2>2. pc = "stream" /\ pc' = "stream" /\ pending' = pending
    BY <1>4 DEF Stream, host
  <2>3. CASE pending = <<>>
    <3>1. /\ chunk \in Seq(Tokens) /\ Len(chunk) \in Nat /\ pending' = <<>>
      BY <2>1, <2>2, <2>3, ReadSplit
    <3>2. Leaves(chunk, Len(chunk)) /\ Len(chunk) \in 0..Len(chunk)
      BY <2>1, <3>1 DEF Leaves
    <3>3. Drops(Len(chunk))
      BY <2>1, <2>2, <3>2, ReadDrops
    <3>4. /\ Len(unread) = Len(chunk) + Len(toHost') /\ toHost' \in Seq(Tokens)
      BY <2>1, <2>2, ReadSplit
    <3>5. Len(toHost') \in Nat
      BY <3>4
    <3>6. Len(chunk) \in 0..Len(unread)
      BY <3>1, <3>4, <3>5
    <3>7. QED
      BY <3>3, <3>6, DropsShortens
  <2>4. CASE pending # <<>>
    <3>1. toHost' = toHost
      BY <2>1, <2>4 DEF Consume
    <3>2. QED
      BY <2>2, <3>1, NotRead
  <2>5. QED
    BY <2>3, <2>4
<1>5. CASE Lose
  <2>1. pc = "closed" /\ pc' = "closed" /\ toHost' = <<>>
    BY <1>5 DEF Lose, host
  <2>2. unread' = <<>>
    BY <2>1 DEF unread
  <2>3. Len(unread') = 0
    BY <2>2
  <2>4. Drops(Len(unread))
    BY <1>0, <2>3 DEF Drops
  <2>5. QED
    BY <1>0, <2>4, DropsShortens
<1>6. CASE Open \/ GiveUp
  <2>1. pc = "closed" /\ toHost' = toHost /\ (pending' = <<>> \/ (pending' = pending /\ pc' = "ended"))
    BY <1>6 DEF Open, GiveUp, line
  <2>2. QED
    BY <2>1, NotRead
<1>7. CASE Write
  <2>1. pc = "command" /\ toHost' = toHost /\ pending' \in {pending, <<>>}
    BY <1>7 DEF Write
  <2>2. QED
    BY <2>1, NotRead
<1>8. CASE Tick \/ EndPoll \/ StopMonitor
  <2>1. pc \notin {"closed", "ended"} /\ toHost' = toHost /\ pending' = pending
    BY <1>8 DEF Tick, EndPoll, StopMonitor, line
  <2>2. QED
    BY <2>1, NotRead
<1>9. CASE TimeOut \/ TransportFails \/ StreamFails \/ Undrained
  <2>1. pc \notin {"closed", "ended"} /\ toHost' = toHost /\ pending' = pending
    BY <1>9 DEF TimeOut, TransportFails, StreamFails, Undrained, line
  <2>2. QED
    BY <2>1, NotRead
<1>10. CASE Stop \/ CloseDriver
  <2>1. pc' = pc /\ toHost' = toHost /\ pending' = pending
    BY <1>10 DEF Stop, CloseDriver, host, line
  <2>2. QED
    BY <2>1, NotRead
<1>11. QED
  BY <1>1, <1>2, <1>3, <1>4, <1>5, <1>6, <1>7, <1>8, <1>9, <1>10 DEF Ask, Read, Watch, World

LEMMA NothingDropped ==
    ASSUME TypeOK, toHost' = toHost, pending' = pending, pc \notin {"closed", "ended"},
           pc' \notin {"closed", "ended"}
    PROVE  unread' = unread /\ Drops(0)
<1>1. unread' = unread
  BY DEF unread
<1>2. QED
  BY <1>1, UnreadType DEF Drops

-----------------------------------------------------------------------------
(* The answers under way. *)

LEMMA CountFacts ==
    ASSUME TypeOK
    PROVE  /\ Prompts \in Nat
           /\ NoPrompt <=> Prompts = 0
           /\ \A i \in 0..Len(unread) : Rank(unread, i) \in Nat /\ Rank(unread, i) <= Prompts
<1>1. Len(unread) \in Nat
  BY UnreadType
<1>2. Prompts \in Nat
  BY <1>1, RankType DEF Prompts
<1>3. NoPrompt <=> Prompts = 0
  BY <1>1, RankNone DEF Prompts, NoPrompt
<1>4. ASSUME NEW i \in 0..Len(unread)
      PROVE  Rank(unread, i) \in Nat /\ Rank(unread, i) <= Prompts
  <2>1. i \in Nat /\ i <= Len(unread)
    BY <1>1
  <2>2. QED
    BY <1>1, <2>1, RankType, RankMonotone DEF Prompts
<1>5. QED
  BY <1>2, <1>3, <1>4

LEMMA HearsRank ==
    ASSUME TypeOK, NEW n \in Nat, Hears(n)
    PROVE  /\ \A i \in 0..Len(unread) : Rank(unread', i) = Rank(unread, i)
           /\ n = 0 => Prompts' = Prompts
           /\ n = 1 => Prompts' = Prompts + IF unread'[Len(unread) + 1] = Prompt THEN 1 ELSE 0
           /\ \A t : Answers(t) /\ t # Prompt => Prompts' = Prompts + 1
           /\ n >= 2 /\ unread'[Len(unread) + 1] # Prompt /\ unread'[Len(unread) + 2] = Prompt =>
                Rank(unread', Len(unread) + 2) = Prompts + 1
           /\ n = 4 /\ unread'[Len(unread) + 2] = Prompt /\ unread'[Len(unread) + 4] = Prompt
                /\ unread'[Len(unread) + 1] # Prompt /\ unread'[Len(unread) + 3] # Prompt =>
                    /\ Rank(unread', Len(unread) + 4) = Prompts + 2
                    /\ Prompts' = Prompts + 2
<1> DEFINE m == Len(unread)
           u == unread'
<1>1. m \in Nat
  BY UnreadType
<1>2. Len(u) = m + n /\ \A i \in 1..m : u[i] = unread[i]
  BY DEF Hears
<1>3. ASSUME NEW i \in 0..m PROVE Rank(u, i) = Rank(unread, i)
  <2>1. i \in Nat /\ \A j \in 1..i : u[j] = unread[j]
    BY <1>1, <1>2
  <2>2. QED
    BY <2>1, RankAgrees
<1>4. Prompts = Rank(unread, m) /\ Prompts' = Rank(u, m + n) /\ Rank(u, m) = Prompts /\ Prompts \in Nat
  BY <1>1, <1>2, <1>3, CountFacts DEF Prompts
<1> HIDE DEF m, u
<1>5. /\ m + 1 \in Nat /\ m + 2 \in Nat /\ m + 3 \in Nat
      /\ (m + 1) + 1 = m + 2 /\ (m + 2) + 1 = m + 3 /\ (m + 3) + 1 = m + 4
  BY <1>1
<1>6. Rank(u, m + 1) = Prompts + IF u[m + 1] = Prompt THEN 1 ELSE 0
  BY <1>1, <1>4, RankStep
<1>7. Rank(u, m + 2) = Rank(u, m + 1) + IF u[m + 2] = Prompt THEN 1 ELSE 0
  BY <1>5, RankStep
<1>8. Rank(u, m + 3) = Rank(u, m + 2) + IF u[m + 3] = Prompt THEN 1 ELSE 0
  BY <1>5, RankStep
<1>9. Rank(u, m + 4) = Rank(u, m + 3) + IF u[m + 4] = Prompt THEN 1 ELSE 0
  BY <1>5, RankStep
<1>10. n = 0 => Prompts' = Prompts
  BY <1>1, <1>4
<1>11. n = 1 => Prompts' = Prompts + IF u[m + 1] = Prompt THEN 1 ELSE 0
  BY <1>1, <1>4, <1>6
<1>12. ASSUME NEW t, Answers(t), t # Prompt PROVE Prompts' = Prompts + 1
  <2>1. Len(u) = m + 2 /\ u[m + 1] = t /\ u[m + 2] = Prompt
    BY <1>12 DEF Answers, Hears, m, u
  <2>2. n = 2
    BY <1>1, <1>2, <2>1
  <2>3. QED
    BY <1>4, <1>6, <1>7, <1>12, <2>1, <2>2
<1>13. ASSUME n = 4, u[m + 2] = Prompt, u[m + 4] = Prompt, u[m + 1] # Prompt, u[m + 3] # Prompt
       PROVE  Rank(u, m + 4) = Prompts + 2 /\ Prompts' = Prompts + 2
  BY <1>4, <1>6, <1>7, <1>8, <1>9, <1>13
<1>14. u[m + 1] # Prompt /\ u[m + 2] = Prompt => Rank(u, m + 2) = Prompts + 1
  BY <1>4, <1>6, <1>7
<1>15. QED
  BY <1>3, <1>10, <1>11, <1>12, <1>13, <1>14 DEF m, u

LEMMA DropsRank ==
    ASSUME TypeOK, NEW k \in 0..Len(unread), Drops(k)
    PROVE  /\ \A i \in 0..Len(unread') : Rank(unread, k + i) = Rank(unread, k) + Rank(unread', i)
           /\ Prompts = Rank(unread, k) + Prompts' /\ Prompts' \in Nat /\ Prompts' <= Prompts
<1>1. Len(unread) \in Nat /\ Len(unread') = Len(unread) - k /\ k \in Nat
  BY UnreadType DEF Drops
<1>2. ASSUME NEW i \in 0..Len(unread')
      PROVE  Rank(unread, k + i) = Rank(unread, k) + Rank(unread', i)
  <2>1. i \in Nat /\ k \in Nat
    BY <1>1
  <2>2. Shifted(unread, unread', k, i)
    BY <1>1 DEF Drops, Shifted
  <2>3. QED
    BY <2>1, <2>2, RankShift
<1>3. k + Len(unread') = Len(unread) /\ Len(unread') \in Nat /\ Len(unread') \in 0..Len(unread')
  BY <1>1
<1>4. Prompts = Rank(unread, k) + Prompts'
  BY <1>2, <1>3 DEF Prompts
<1>5. Rank(unread, k) \in Nat /\ Prompts' \in Nat
  BY <1>1, <1>3, RankType DEF Prompts
<1>6. QED
  BY <1>2, <1>4, <1>5

LEMMA FirstPromptRank ==
    ASSUME TypeOK, NEW n, FirstPrompt(n)
    PROVE  Rank(unread, n) = 1 /\ \A i \in 1..n : i # n => Rank(unread, i) = 0
<1>1. Len(unread) \in Nat /\ n \in 1..Len(unread) /\ n - 1 \in Nat /\ (n - 1) + 1 = n
  BY UnreadType DEF FirstPrompt
<1>2. Rank(unread, n - 1) = 0
  BY <1>1, RankNone DEF FirstPrompt
<1>3. Rank(unread, n) = 1
  BY <1>1, <1>2, RankStep DEF FirstPrompt
<1>4. ASSUME NEW i \in 1..n, i # n PROVE Rank(unread, i) = 0
  <2>1. i \in Nat /\ \A j \in 1..i : unread[j] # Prompt
    BY <1>1, <1>4 DEF FirstPrompt
  <2>2. QED
    BY <2>1, RankNone
<1>5. QED
  BY <1>3, <1>4

LEMMA ShortensKeeps ==
    ASSUME TypeOK, Shortens
    PROVE  /\ Prompts' \in Nat /\ Prompts' <= Prompts
           /\ Len(unread') \in Nat /\ Len(unread') <= Len(unread)
           /\ NoPrompt => NoPrompt'
           /\ NoOk => NoOk'
<1>1. PICK k \in 0..Len(unread) : Drops(k)
  BY DEF Shortens
<1>2. Prompts' \in Nat /\ Prompts' <= Prompts
  BY <1>1, DropsRank
<1>3. Len(unread) \in Nat
  BY UnreadType
<1>4. Len(unread') = Len(unread) - k /\ \A i \in 1..Len(unread') : unread'[i] = unread[i + k]
  BY <1>1 DEF Drops
<1>5. Len(unread') \in Nat /\ Len(unread') <= Len(unread)
  BY <1>3, <1>4
<1>6. \A i \in 1..Len(unread') : i + k \in 1..Len(unread)
  BY <1>3, <1>4
<1>7. QED
  BY <1>2, <1>4, <1>5, <1>6 DEF NoPrompt, NoOk

-----------------------------------------------------------------------------
(* An OK is followed by its prompt. *)

OkThenPrompt ==
    \A i \in 1..Len(unread) : unread[i] = "ok" => i < Len(unread) /\ unread[i + 1] = Prompt

LEMMA OkAdapter ==
    ASSUME TypeOK, OkInv, Adapter
    PROVE  OkInv'
<1>1. SameHost /\ (Skips \/ Takes \/ Watches \/ Executes \/ Declines \/ Interrupted \/ Emits)
  BY AdapterHow
<1>2. Len(unread) \in Nat /\ "ok" # Prompt
  BY UnreadType DEF Prompt
<1>3. \/ Hears(0)
      \/ Hears(1) /\ unread'[Len(unread) + 1] # "ok"
      \/ \E t : Answers(t)
      \/ /\ Hears(4) /\ unread'[Len(unread) + 1] = "stopped" /\ unread'[Len(unread) + 2] = Prompt
         /\ unread'[Len(unread) + 3] = "error" /\ unread'[Len(unread) + 4] = Prompt
  BY <1>1, <1>2 DEF Skips, Takes, Watches, Executes, Declines, Interrupted, Emits
<1>4. ASSUME NEW n \in Nat, Hears(n),
             \A i \in (Len(unread) + 1)..(Len(unread) + n) :
               unread'[i] = "ok" => i < Len(unread) + n /\ unread'[i + 1] = Prompt
      PROVE  OkInv'
  <2>1. Len(unread') = Len(unread) + n /\ \A i \in 1..Len(unread) : unread'[i] = unread[i]
    BY <1>4 DEF Hears
  <2>2. ASSUME NEW i \in 1..Len(unread'), unread'[i] = "ok"
        PROVE  i < Len(unread') /\ unread'[i + 1] = Prompt
    <3>1. CASE i <= Len(unread)
      <4>1. i \in 1..Len(unread) /\ unread[i] = "ok"
        BY <1>2, <2>1, <2>2, <3>1
      <4>2. i < Len(unread) /\ unread[i + 1] = Prompt /\ i + 1 \in 1..Len(unread)
        BY <1>2, <4>1 DEF OkInv
      <4>3. QED
        BY <1>2, <2>1, <4>2
    <3>2. CASE i > Len(unread)
      <4>1. i \in (Len(unread) + 1)..(Len(unread) + n)
        BY <1>2, <2>1, <3>2
      <4>2. QED
        BY <1>4, <2>1, <2>2, <4>1
    <3>3. QED
      BY <1>2, <3>1, <3>2
  <2>3. pc' \in {"answer", "drain"} /\ "ok" \in acc' => Len(unread') > 0 /\ unread'[1] = Prompt
    BY <1>1, <1>2, <2>1 DEF OkInv, SameHost
  <2>4. QED
    BY <2>2, <2>3 DEF OkInv
<1>5. CASE Hears(0)
  BY <1>2, <1>4, <1>5
<1>6. CASE Hears(1) /\ unread'[Len(unread) + 1] # "ok"
  BY <1>2, <1>4, <1>6
<1>7. ASSUME NEW t, Answers(t) PROVE OkInv'
  <2>1. \A i \in (Len(unread) + 1)..(Len(unread) + 2) :
          unread'[i] = "ok" => i < Len(unread) + 2 /\ unread'[i + 1] = Prompt
    BY <1>2, <1>7 DEF Answers
  <2>2. QED
    BY <1>4, <1>7, <2>1 DEF Answers
<1>8. CASE /\ Hears(4) /\ unread'[Len(unread) + 1] = "stopped" /\ unread'[Len(unread) + 2] = Prompt
           /\ unread'[Len(unread) + 3] = "error" /\ unread'[Len(unread) + 4] = Prompt
  <2>1. \A i \in (Len(unread) + 1)..(Len(unread) + 4) :
          i \in {Len(unread) + 1, Len(unread) + 2, Len(unread) + 3, Len(unread) + 4}
    BY <1>2
  <2>2. \A i \in (Len(unread) + 1)..(Len(unread) + 4) : unread'[i] # "ok"
    BY <1>2, <1>8, <2>1
  <2>3. QED
    BY <1>4, <1>8, <2>2
<1>9. QED
  BY <1>3, <1>5, <1>6, <1>7, <1>8

(* Nothing of an answer is an OK before the prompt is there but what comes *)
(* right before it.                                                        *)
LEMMA OkBeforePrompt ==
    ASSUME TypeOK, OkInv, pc \in {"answer", "drain"}, NEW k \in 1..Len(unread),
           \A i \in 1..(k - 1) : unread[i] # Prompt
    PROVE  /\ "ok" \in acc => k = 1 /\ unread[k] = Prompt
           /\ \A i \in 1..(k - 1) : unread[i] = "ok" => i = k - 1 /\ unread[k] = Prompt
<1>1. Len(unread) \in Nat
  BY UnreadType
<1>2. ASSUME "ok" \in acc PROVE k = 1 /\ unread[k] = Prompt
  <2>1. unread[1] = Prompt
    BY <1>2 DEF OkInv
  <2>2. QED
    BY <1>1, <2>1
<1>3. ASSUME NEW i \in 1..(k - 1), unread[i] = "ok" PROVE i = k - 1 /\ unread[k] = Prompt
  <2>1. i \in 1..Len(unread)
    BY <1>1
  <2>2. unread[i + 1] = Prompt
    BY <1>3, <2>1 DEF OkInv
  <2>3. i + 1 \in 1..k
    BY <1>1
  <2>4. QED
    BY <1>1, <2>2, <2>3
<1>4. QED
  BY <1>2, <1>3

LEMMA OkHost ==
    ASSUME TypeOK, OkInv, Ask \/ Read \/ Watch \/ World
    PROVE  OkInv'
<1>1. Len(unread) \in Nat
  BY UnreadType
<1>2. OkThenPrompt'
  <2>1. PICK k \in 0..Len(unread) : Drops(k)
    BY HostShortens DEF Shortens
  <2>2. Len(unread') = Len(unread) - k /\ \A i \in 1..Len(unread') : unread'[i] = unread[i + k]
    BY <2>1 DEF Drops
  <2>3. ASSUME NEW i \in 1..Len(unread'), unread'[i] = "ok"
        PROVE  i < Len(unread') /\ unread'[i + 1] = Prompt
    <3>1. i + k \in 1..Len(unread) /\ unread[i + k] = "ok"
      BY <1>1, <2>2, <2>3
    <3>2. i + k < Len(unread) /\ unread[(i + k) + 1] = Prompt
      BY <3>1 DEF OkInv
    <3>3. i + 1 \in 1..Len(unread') /\ (i + 1) + k = (i + k) + 1
      BY <1>1, <2>2, <3>1, <3>2
    <3>4. QED
      BY <1>1, <2>2, <3>2, <3>3
  <2>4. QED
    BY <2>3 DEF OkThenPrompt
<1>3. ASSUME pc' \in {"answer", "drain"}, "ok" \in acc'
      PROVE  Len(unread') > 0 /\ unread'[1] = Prompt
  <2>1. CASE Collect
    <3>1. PICK k \in 1..Len(unread) : Collects(k)
      BY <2>1, CollectHow
    <3>2. /\ Len(unread') = Len(unread) - k /\ \A i \in 1..Len(unread') : unread'[i] = unread[i + k]
          /\ \A i \in 1..k : unread[i] # Prompt
          /\ acc' = acc \cup {unread[i] : i \in 1..k} /\ pc \in {"answer", "drain"}
      BY <2>1, <3>1, CollectHow DEF Collects, Drops
    <3>3. "ok" \notin acc
      BY <1>1, <3>2 DEF OkInv
    <3>4. PICK i \in 1..k : unread[i] = "ok"
      BY <1>3, <3>2, <3>3
    <3>5. i \in 1..Len(unread)
      BY <1>1
    <3>6. i < Len(unread) /\ unread[i + 1] = Prompt
      BY <3>4, <3>5 DEF OkInv
    <3>7. i = k
      <4>1. i + 1 \notin 1..k
        BY <3>2, <3>6
      <4>2. QED
        BY <1>1, <4>1
    <3>8. 1 \in 1..Len(unread') /\ unread'[1] = unread[1 + k]
      BY <1>1, <3>2, <3>6, <3>7
    <3>9. QED
      BY <1>1, <3>6, <3>7, <3>8
  <2>2. CASE Answered
    BY <1>3, <2>2, AnsweredHow
  <2>3. CASE Write \/ StopMonitor
    BY <1>3, <2>3 DEF Write, StopMonitor
  <2>4. CASE Drained \/ Undrained \/ StreamFails
    <3>1. \E err \in BOOLEAN : MonitorReturns(err)
      BY <2>4 DEF Drained, Undrained, StreamFails
    <3>2. pc' \in {"closed", "ended", "command"}
      BY <3>1, MonitorReturnsHow DEF Over
    <3>3. QED
      BY <1>3, <3>2
  <2>5. CASE TimeOut \/ TransportFails
    <3>1. CommandFails
      BY <2>5 DEF TimeOut, TransportFails
    <3>2. pc' \in {"closed", "ended", "command"}
      BY <3>1, FailsHow DEF Over
    <3>3. QED
      BY <1>3, <3>2
  <2>6. CASE Open \/ GiveUp \/ Tick \/ EndPoll
    BY <1>3, <2>6 DEF Open, GiveUp, Tick, EndPoll, Return
  <2>7. CASE Stream \/ Lose
    BY <1>3, <2>7 DEF Stream, Lose, host
  <2>8. CASE Stop \/ CloseDriver
    <3>1. /\ pc' = pc /\ acc' = acc /\ toHost' = toHost /\ pending' = pending
      BY <2>8 DEF Stop, CloseDriver, host, line
    <3>2. unread' = unread
      BY <3>1 DEF unread
    <3>3. QED
      BY <1>3, <3>1, <3>2 DEF OkInv
  <2>9. QED
    BY <2>1, <2>2, <2>3, <2>4, <2>5, <2>6, <2>7, <2>8 DEF Ask, Read, Watch, World
<1>4. QED
  BY <1>2, <1>3 DEF OkInv, OkThenPrompt

-----------------------------------------------------------------------------
(* Where the host is in its session. *)

LEMMA SameSession ==
    ASSUME driver' = driver
    PROVE  /\ Session' = Session /\ Polling' = Polling /\ Configuration' = Configuration
           /\ Filters' = Filters
<1>1. Filters' = Filters
  BY DEF Filters
<1>2. StnFilterCommands' = StnFilterCommands
  BY <1>1 DEF StnFilterCommands
<1>3. ElmFilterCommands' = ElmFilterCommands
  BY <1>1 DEF ElmFilterCommands
<1>4. InitCommands' = InitCommands
  BY DEF InitCommands
<1>5. Configuration' = Configuration
  BY <1>2, <1>3, <1>4 DEF Configuration
<1>6. Polling' = Polling
  BY DEF Polling
<1>7. QED
  BY <1>1, <1>5, <1>6 DEF Session

LEMMA ClearingIs ==
    ASSUME NEW p, p = StopPeriodic
    PROVE  Len(p) = 2 /\ p[1] = Cmd("STPPMC", {}) /\ p[2] = Cmd("STCMM0", {})
BY StopPeriodicIs

LEMMA RestIs ==
    ASSUME TypeOK, Len(plan) > 1, plan' = Tail(plan)
    PROVE  Len(plan') = Len(plan) - 1 /\ \A i \in 1..Len(plan') : plan'[i] = plan[i + 1]
<1>1. plan \in Seq(Commands)
  BY DEF TypeOK
<1>2. \A s \in Seq(Commands) : Len(s) > 1 =>
        Len(Tail(s)) = Len(s) - 1 /\ \A i \in 1..Len(Tail(s)) : Tail(s)[i] = s[i + 1]
  OBVIOUS
<1>3. QED
  BY <1>1, <1>2

(* The command the host is at, as one of its session. *)
LEMMA CurrentIs ==
    ASSUME TypeOK, PlanInv, pc \in {"command", "answer"}, ~leaving
    PROVE  /\ Len(plan) \in Nat /\ Len(plan) > 0 /\ Head(plan) = plan[1] /\ plan[1] \in Commands
           /\ Done \in Nat /\ Done + 1 \in 1..Len(Session) /\ plan[1] = Session[Done + 1]
           /\ Len(Session) = Done + Len(plan)
           /\ Len(Polling) \in Nat /\ Len(Configuration) \in Nat /\ Len(Configuration) >= 9
           /\ Len(Session) = Len(Configuration) + Len(Polling)
           /\ Left = Len(plan) - Len(Polling)
           /\ Configuring <=> Left >= 1
           /\ plan[1].name = "ATZ" <=> Done = 0
           /\ driver \in Drivers
<1>1. driver \in Drivers
  BY DEF TypeOK
<1>2. /\ Len(plan) \in Nat /\ Len(plan) > 0 /\ Head(plan) = plan[1] /\ plan[1] \in Commands
  BY Sizes DEF Sized
<1>3. /\ Len(Session) = Len(Configuration) + Len(Polling) /\ Len(Configuration) \in Nat
      /\ Len(Polling) \in Nat /\ Len(Configuration) >= 9
  BY <1>1, SessionIs
<1>4. Done \in Nat /\ Len(Session) = Done + Len(plan)
  BY <1>2, <1>3 DEF PlanInv, Done
<1>5. Done + 1 \in 1..Len(Session) /\ plan[1] = Session[Done + 1]
  BY <1>2, <1>3, <1>4 DEF PlanInv
<1>6. plan[1].name = "ATZ" <=> Done = 0
  BY <1>1, <1>4, <1>5, SessionNames
<1>7. Configures(plan[1]) <=> Done + 1 <= Len(Configuration)
  BY <1>1, <1>5, SessionNames
<1>8. Configuring <=> Configures(plan[1])
  BY <1>2 DEF Configuring, TypeOK
<1>9. Left = Len(plan) - Len(Polling)
  BY DEF Left
<1>10. Configuring <=> Left >= 1
  BY <1>2, <1>3, <1>4, <1>7, <1>8, <1>9
<1>11. QED
  BY <1>1, <1>2, <1>3, <1>4, <1>5, <1>6, <1>9, <1>10

LEMMA PlanAdapter ==
    ASSUME TypeOK, PlanInv, Adapter
    PROVE  PlanInv'
<1>1. SameHost
  BY AdapterHow
<1>2. Session' = Session
  BY <1>1, SameSession DEF SameHost
<1>3. QED
  BY <1>1, <1>2 DEF PlanInv, SameHost, Done

(* The parts of PlanInv. *)
InSession ==
    Done >= 0 /\ \A i \in 1..Len(plan) : plan[i] = Session[Done + i]

LeavingPlan ==
    /\ driver.mode = "hybrid" /\ pc \in {"command", "answer"}
    /\ \/ Len(plan) = 2 /\ plan[1] = Cmd("STPPMC", {}) /\ plan[2] = Cmd("STCMM0", {})
       \/ Len(plan) = 1 /\ plan[1] = Cmd("STCMM0", {})

MonitorPlan == driver.mode # "poll" /\ Len(plan) = 1 /\ plan[1] = Cmd("Monitor", {})

LEMMA PlanParts ==
    /\ PlanInv <=> /\ pc \in {"closed", "tick", "ended"} => plan = <<>>
                   /\ pc = "tick" => driver.mode = "poll"
                   /\ pc \in {"stream", "drain"} => MonitorPlan
                   /\ pc \in {"command", "answer"} /\ ~leaving => InSession
                   /\ leaving => LeavingPlan
                   /\ pc = "answer" => plan[1].name # "Monitor"
    /\ PlanInv' <=> /\ pc' \in {"closed", "tick", "ended"} => plan' = <<>>
                    /\ pc' = "tick" => driver'.mode = "poll"
                    /\ pc' \in {"stream", "drain"} => MonitorPlan'
                    /\ pc' \in {"command", "answer"} /\ ~leaving' => InSession'
                    /\ leaving' => LeavingPlan'
                    /\ pc' = "answer" => plan'[1].name # "Monitor"
BY DEF PlanInv, MonitorPlan, InSession, LeavingPlan

LEMMA PlanOver ==
    ASSUME Over
    PROVE  PlanInv'
BY PlanParts DEF Over

LEMMA PlanLeaves ==
    ASSUME driver' = driver, driver.mode = "hybrid", leaving', plan' = StopPeriodic, pc' = "command"
    PROVE  PlanInv' /\ plan'[1].name = "STPPMC"
<1>1. Len(plan') = 2 /\ plan'[1] = Cmd("STPPMC", {}) /\ plan'[2] = Cmd("STCMM0", {})
  BY ClearingIs
<1>2. LeavingPlan' /\ plan'[1].name = "STPPMC"
  BY <1>1 DEF LeavingPlan, Cmd
<1>3. QED
  BY <1>2, PlanParts

LEMMA PlanWorks ==
    ASSUME TypeOK, PlanInv, pc = "answer", CommandWorks, driver' = driver
    PROVE  PlanInv'
<1>1. pc \in {"command", "answer"} /\ plan[1].name # "Monitor"
  BY DEF PlanInv
<1>2. Session' = Session
  BY SameSession
<1>3. Len(plan) \in Nat /\ Len(plan) > 0 /\ Head(plan) = plan[1]
  BY Sizes DEF Sized
<1>4. CASE Len(plan) > 1 /\ pc' = "command" /\ plan' = Tail(plan) /\ leaving' = leaving
  <2>1. Len(plan') = Len(plan) - 1 /\ \A i \in 1..Len(plan') : plan'[i] = plan[i + 1]
    BY <1>4, RestIs
  <2>2. CASE leaving
    <3>1. Len(plan) = 2 /\ plan[2] = Cmd("STCMM0", {}) /\ driver.mode = "hybrid"
      BY <1>4, <2>2 DEF PlanInv
    <3>2. Len(plan') = 1 /\ plan'[1] = Cmd("STCMM0", {})
      BY <2>1, <3>1
    <3>3. LeavingPlan'
      BY <1>4, <3>1, <3>2 DEF LeavingPlan
    <3>4. QED
      BY <1>4, <2>2, <3>3, PlanParts
  <2>3. CASE ~leaving
    <3>1. Done \in Nat /\ Len(Session) = Done + Len(plan)
      BY <1>1, <2>3, CurrentIs
    <3>2. Done' = Done + 1
      BY <1>2, <1>3, <2>1, <3>1 DEF Done
    <3>3. \A i \in 1..Len(plan') : plan'[i] = Session[Done + (i + 1)]
      <4>1. \A i \in 1..Len(plan') : i + 1 \in 1..Len(plan)
        BY <1>3, <2>1
      <4>2. QED
        BY <1>1, <2>1, <2>3, <4>1 DEF PlanInv
    <3>4. \A i \in 1..Len(plan') : Done + (i + 1) = Done' + i
      BY <1>3, <2>1, <3>1, <3>2
    <3>5. InSession'
      BY <1>2, <3>1, <3>2, <3>3, <3>4 DEF InSession
    <3>6. QED
      BY <1>4, <2>3, <3>5, PlanParts
  <2>4. QED
    BY <2>2, <2>3
<1>5. CASE Head(plan).name = "Request" /\ pc' = "tick" /\ plan' = <<>> /\ leaving' = leaving
  <2>1. ~leaving
    BY <1>3, <1>5 DEF PlanInv, Cmd
  <2>2. driver.mode = "poll"
    <3>1. Done + 1 \in 1..Len(Session) /\ plan[1] = Session[Done + 1] /\ driver \in Drivers
      BY <1>1, <2>1, CurrentIs
    <3>2. QED
      BY <1>3, <1>5, <3>1, SessionNames
  <2>3. QED
    BY <1>5, <2>1, <2>2, PlanParts
<1>6. CASE Over
  BY <1>6, PlanOver
<1>7. CASE ~(Len(plan) > 1) /\ ~leaving /\ pc' = "tick" /\ plan' = <<>> /\ leaving' = leaving
  <2>1. /\ Done + 1 \in 1..Len(Session) /\ plan[1] = Session[Done + 1] /\ driver \in Drivers
        /\ Len(Session) = Done + Len(plan) /\ Done \in Nat
    BY <1>1, <1>7, CurrentIs
  <2>2. Done + 1 = Len(Session)
    BY <1>3, <1>7, <2>1
  <2>3. driver.mode = "poll"
    BY <1>1, <2>1, <2>2, SessionNames
  <2>4. QED
    BY <1>7, <2>3, PlanParts
<1>8. QED
  BY <1>4, <1>5, <1>6, <1>7, WorksHow

LEMMA PlanFails ==
    ASSUME TypeOK, CommandFails, driver' = driver
    PROVE  PlanInv'
BY FailsHow, PlanOver, PlanLeaves

LEMMA PlanReturns ==
    ASSUME TypeOK, NEW err \in BOOLEAN, MonitorReturns(err), driver' = driver
    PROVE  PlanInv'
BY MonitorReturnsHow, PlanOver, PlanLeaves

LEMMA PlanHost ==
    ASSUME TypeOK, PlanInv, Ask \/ Read \/ Watch \/ World
    PROVE  PlanInv'
<1>1. CASE Open
  <2>1. /\ pc' = "command" /\ plan' = Session /\ leaving' = leaving /\ driver' = driver
        /\ pc = "closed"
    BY <1>1 DEF Open
  <2>2. ~leaving
    BY <2>1 DEF PlanInv
  <2>3. Session' = Session /\ Len(Session) \in Nat
    <3>1. driver \in Drivers
      BY DEF TypeOK
    <3>2. Session \in Seq(Commands)
      BY <3>1, SessionIs
    <3>3. QED
      BY <2>1, <3>2, SameSession
  <2>4. Done' = 0 /\ \A i \in 1..Len(plan') : 0 + i = i
    BY <2>1, <2>3 DEF Done
  <2>5. InSession'
    BY <2>1, <2>3, <2>4 DEF InSession
  <2>6. QED
    BY <2>1, <2>2, <2>5, PlanParts
<1>2. CASE Write
  <2>1. /\ pc = "command" /\ plan' = plan /\ leaving' = leaving /\ driver' = driver
        /\ IF Head(plan).name = "Monitor" THEN pc' = "stream" ELSE pc' = "answer"
    BY <1>2 DEF Write
  <2>2. Session' = Session /\ Done' = Done
    BY <2>1, SameSession DEF Done
  <2>3. Head(plan) = plan[1]
    BY <2>1, Sizes DEF Sized
  <2>4. CASE Head(plan).name = "Monitor"
    <3>1. ~leaving
      BY <2>3, <2>4 DEF PlanInv, Cmd
    <3>2. /\ Done + 1 \in 1..Len(Session) /\ plan[1] = Session[Done + 1] /\ driver \in Drivers
          /\ Len(Session) = Done + Len(plan) /\ Done \in Nat /\ Len(plan) \in Nat
      BY <2>1, <3>1, CurrentIs
    <3>3. driver.mode # "poll" /\ Done + 1 = Len(Session) /\ plan[1] = Cmd("Monitor", {})
      BY <2>3, <2>4, <3>2, SessionNames
    <3>4. Len(plan) = 1
      <4> DEFINE n == Len(plan)
                 d == Done
      <4>1. d \in Nat /\ n \in Nat /\ d + 1 = d + n
        BY <3>2, <3>3
      <4> HIDE DEF n, d
      <4>2. n = 1
        BY <4>1
      <4>3. QED
        BY <4>2 DEF n
    <3>5. MonitorPlan'
      BY <2>1, <3>3, <3>4 DEF MonitorPlan
    <3>6. QED
      BY <2>1, <2>4, <3>1, <3>5, PlanParts
  <2>5. CASE Head(plan).name # "Monitor"
    BY <2>1, <2>2, <2>3, <2>5 DEF PlanInv
  <2>6. QED
    BY <2>4, <2>5
<1>3. CASE Tick
  <2>1. /\ pc = "tick" /\ plan' = Requests("Request") /\ leaving' = leaving /\ driver' = driver
        /\ pc' = IF PIDs = {} THEN "tick" ELSE "command"
    BY <1>3 DEF Tick
  <2>2. ~leaving /\ driver.mode = "poll" /\ driver \in Drivers
    BY <2>1 DEF PlanInv, TypeOK
  <2>3. plan' = Polling /\ Polling' = Polling /\ Session' = Session
    BY <2>1, <2>2, PollingIs, SameSession
  <2>4. /\ Len(Session) = Len(Configuration) + Len(Polling)
        /\ Len(Configuration) \in Nat /\ Len(Polling) \in Nat
        /\ \A i \in 1..Len(Polling) : Session[Len(Configuration) + i] = Polling[i]
    BY <2>2, SessionIs
  <2>5. Done' = Len(Configuration)
    BY <2>3, <2>4 DEF Done
  <2>6. InSession'
    BY <2>3, <2>4, <2>5 DEF InSession
  <2>7. pc' = "tick" => plan' = <<>>
    <3>1. ASSUME PIDs = {} PROVE plan' = <<>>
      <4>1. PidSeq \in Seq(PIDs) /\ Len(Requests("Request")) = Len(PidSeq)
        BY RequestsAre
      <4>2. Len(PidSeq) = 0
        BY <3>1, <4>1
      <4>3. plan' \in Seq(Commands)
        BY HostTyped DEF TypeOK
      <4>4. Len(plan') = 0
        BY <2>1, <4>1, <4>2
      <4>5. QED
        BY <4>3, <4>4, EmptySeq
    <3>2. QED
      BY <2>1, <3>1
  <2>8. QED
    BY <2>1, <2>2, <2>6, <2>7, PlanParts
<1>4. CASE EndPoll
  BY <1>4, PlanOver DEF EndPoll, Return, Over
<1>5. CASE GiveUp
  BY <1>5 DEF GiveUp, PlanInv
<1>6. CASE Answered
  BY <1>6, AnsweredHow, PlanWorks, PlanFails
<1>7. CASE TimeOut \/ TransportFails
  BY <1>7, PlanFails DEF TimeOut, TransportFails
<1>8. CASE StreamFails \/ Drained \/ Undrained
  BY <1>8, PlanReturns DEF StreamFails, Drained, Undrained
<1>9. CASE Collect \/ Stream \/ World
  <2>1. pc' = pc /\ plan' = plan /\ leaving' = leaving /\ driver' = driver
    BY <1>9 DEF Collect, Stream, World, Stop, CloseDriver, Lose, host
  <2>2. Session' = Session /\ Done' = Done
    BY <2>1, SameSession DEF Done
  <2>3. QED
    BY <2>1, <2>2 DEF PlanInv
<1>10. CASE StopMonitor
  <2>1. pc = "stream" /\ pc' = "drain" /\ plan' = plan /\ leaving' = leaving /\ driver' = driver
    BY <1>10 DEF StopMonitor
  <2>2. ~leaving
    BY <2>1 DEF PlanInv
  <2>3. MonitorPlan'
    BY <2>1 DEF PlanInv, MonitorPlan
  <2>4. QED
    BY <2>1, <2>2, <2>3, PlanParts
<1>11. QED
  BY <1>1, <1>2, <1>3, <1>4, <1>5, <1>6, <1>7, <1>8, <1>9, <1>10 DEF Ask, Read, Watch

-----------------------------------------------------------------------------
(* The commands on the line. *)

(* The host writes a command of its plan, or the carriage return. *)
LEMMA WriteHow ==
    ASSUME TypeOK, Write
    PROVE  /\ Queued(plan[1]) /\ Head(plan) = plan[1] /\ Len(plan) > 0
           /\ pc = "command" /\ plan' = plan /\ acc' = {} /\ stop' = stop /\ leaving' = leaving
           /\ outcome' = outcome /\ adapter' = adapter /\ timeouts' = timeouts /\ driver' = driver
           /\ IF plan[1].name = "Monitor" THEN pc' = "stream" /\ Shortens
              ELSE pc' = "answer" /\ unread' = unread
<1>1. pc = "command" /\ toAdapter' = Append(toAdapter, Head(plan)) /\ toHost' = toHost
  BY DEF Write
<1>2. Head(plan) = plan[1] /\ Len(plan) > 0 /\ plan[1] \in Commands
  BY <1>1, Sizes DEF Sized
<1>3. toAdapter \in Seq(Commands)
  BY DEF TypeOK
<1>4. Queued(plan[1])
  <2>1. toAdapter' = Append(toAdapter, plan[1])
    BY <1>1, <1>2
  <2>2. QED
    BY <1>2, <1>3, <2>1, Added DEF Queued
<1>5. Shortens
  BY HostShortens DEF Ask
<1>6. CASE Head(plan).name # "Monitor"
  <2>1. pending' = pending /\ pc' = "answer"
    BY <1>6 DEF Write
  <2>2. unread' = unread
    BY <1>1, <2>1, NothingDropped
  <2>3. QED
    BY <1>2, <1>4, <1>6, <2>1, <2>2 DEF Write
<1>7. CASE Head(plan).name = "Monitor"
  BY <1>2, <1>4, <1>5, <1>7 DEF Write
<1>8. QED
  BY <1>6, <1>7

LEMMA StopMonitorHow ==
    ASSUME TypeOK, StopMonitor
    PROVE  /\ Queued(Cmd("CR", {})) /\ unread' = unread
           /\ pc = "stream" /\ pc' = "drain" /\ plan' = plan /\ acc' = {} /\ stop' = stop /\ stop
           /\ leaving' = leaving /\ outcome' = outcome /\ adapter' = adapter
           /\ timeouts' = timeouts /\ driver' = driver
<1>1. /\ pc = "stream" /\ pc' = "drain" /\ toAdapter' = Append(toAdapter, Cmd("CR", {}))
      /\ toHost' = toHost /\ pending' = pending
  BY DEF StopMonitor
<1>2. toAdapter \in Seq(Commands)
  BY DEF TypeOK
<1>3. Cmd("CR", {}) \in Commands
  BY DEF Cmd, Commands
<1>4. Queued(Cmd("CR", {}))
  BY <1>1, <1>2, <1>3, Added DEF Queued
<1>5. unread' = unread
  BY <1>1, NothingDropped
<1>6. QED
  BY <1>4, <1>5 DEF StopMonitor

(* All that the other operations of the host leave alone. *)
LEMMA HostLine ==
    ASSUME TypeOK, Ask \/ Read \/ Watch \/ World
    PROVE  /\ adapter' = adapter /\ driver' = driver
           /\ Write \/ StopMonitor \/ toAdapter' = toAdapter
                \/ (pc = "closed" /\ Len(toAdapter') = 0)
           /\ stop => stop'
           /\ ~stop /\ stop' => pc' = pc /\ plan' = plan
<1>1. CASE Ask
  <2>1. CASE Write
    BY <2>1 DEF Write
  <2>2. CASE Open \/ GiveUp \/ Tick \/ EndPoll
    <3>1. adapter' = adapter /\ driver' = driver /\ toAdapter' = toAdapter /\ stop' = stop
      BY <2>2 DEF Open, GiveUp, Tick, EndPoll, line
    <3>2. QED
      BY <3>1
  <2>3. QED
    BY <1>1, <2>1, <2>2 DEF Ask
<1>2. CASE Read
  BY <1>2 DEF Read, Collect, Answered, TimeOut, TransportFails, line
<1>3. CASE Watch
  <2>1. CASE StopMonitor
    BY <2>1 DEF StopMonitor
  <2>2. CASE Stream \/ StreamFails \/ Drained \/ Undrained
    <3>1. adapter' = adapter /\ driver' = driver /\ toAdapter' = toAdapter /\ stop' = stop
      BY <2>2 DEF Stream, StreamFails, Drained, Undrained, line, host
    <3>2. QED
      BY <3>1
  <2>3. QED
    BY <1>3, <2>1, <2>2 DEF Watch
<1>4. CASE World
  <2>1. CASE Lose
    <3>1. toAdapter' = toAdapter \/ Len(toAdapter') = 0
      BY <2>1 DEF Lose
    <3>2. QED
      BY <2>1, <3>1 DEF Lose, host
  <2>2. CASE Stop \/ CloseDriver
    BY <2>2 DEF Stop, CloseDriver, host, line
  <2>3. QED
    BY <1>4, <2>1, <2>2 DEF World
<1>5. QED
  BY <1>1, <1>2, <1>3, <1>4

(* Commands still on the line after a step of the adapter were there before. *)
LEMMA QueueHow ==
    ASSUME TypeOK, Adapter
    PROVE  /\ Len(toAdapter') \in Nat
           /\ Consumed \/ toAdapter' = toAdapter
           /\ \A i \in 1..Len(toAdapter') : \E j \in 1..Len(toAdapter) : toAdapter'[i] = toAdapter[j]
<1>1. Skips \/ Takes \/ Watches \/ Executes \/ Declines \/ Interrupted \/ Emits
  BY AdapterHow
<1>2. Len(toAdapter) \in Nat
  BY Sizes DEF Sized
<1>3. Consumed \/ toAdapter' = toAdapter
  BY <1>1 DEF Skips, Takes, Watches, Executes, Declines, Interrupted, Emits
<1>4. CASE Consumed
  <2>1. \A i \in 1..Len(toAdapter') : i + 1 \in 1..Len(toAdapter)
    BY <1>2, <1>4 DEF Consumed
  <2>2. QED
    BY <1>2, <1>4, <2>1 DEF Consumed
<1>5. CASE toAdapter' = toAdapter
  BY <1>2, <1>5
<1>6. QED
  BY <1>3, <1>4, <1>5

LEMMA KindAdapter ==
    ASSUME TypeOK, KindInv, Adapter
    PROVE  KindInv'
<1>1. SameHost /\ (Skips \/ Takes \/ Watches \/ Executes \/ Declines \/ Interrupted \/ Emits)
  BY AdapterHow
<1>2. \A c : Kindred(c)' <=> Kindred(c)
  BY <1>1 DEF SameHost, Kindred
<1>3. \A i \in 1..Len(toAdapter') : Kindred(toAdapter'[i])
  BY QueueHow DEF KindInv
<1>4. adapter'.at = "busy" => Kindred(adapter'.cmd)
  <2>1. adapter'.at = "busy" => Takes
    BY <1>1 DEF Skips, Takes, Watches, Executes, Declines, Interrupted, Emits
  <2>2. Takes => adapter'.cmd = toAdapter[1] /\ 1 \in 1..Len(toAdapter)
    BY Sizes DEF Takes, Consumed, Sized
  <2>3. QED
    BY <2>1, <2>2 DEF KindInv
<1>5. IF driver.kind = "elm327" THEN adapter'.pass = {} ELSE adapter'.code = {} /\ adapter'.mask = {}
  <2>1. CASE Executes
    <3>1. adapter.cmd \in Commands /\ adapter.cmd.name \notin {"CR", "Monitor"} /\ adapter \in Adapters
      <4>1. adapter \in Adapters /\ adapter.cmd.name \notin {"", "CR"}
        BY <2>1 DEF Executes, TypeOK
      <4>2. adapter.cmd \in Commands \cup {Cmd("", {})} /\ Cmd("", {}).name = ""
        BY <4>1 DEF Adapters, Cmd
      <4>3. QED
        BY <2>1, <4>1, <4>2 DEF Executes
    <3>2. Kindred(adapter.cmd)
      BY <2>1 DEF Executes, KindInv
    <3> DEFINE e == Effect(adapter, adapter.cmd)
               n == adapter.cmd.name
    <3>3. /\ n = "ATZ" => e.pass = {} /\ e.code = {} /\ e.mask = {}
          /\ n # "ATZ" =>
               /\ e.code = IF n = "ATCF" THEN adapter.cmd.arg ELSE adapter.code
               /\ e.mask = IF n = "ATCM" THEN adapter.cmd.arg ELSE adapter.mask
               /\ e.pass = IF n = "STFPC" THEN {}
                           ELSE IF n = "STFPA" THEN adapter.pass \cup {adapter.cmd.arg} ELSE adapter.pass
      BY <3>1, EffectIs
    <3>4. n \notin (IF driver.kind = "elm327" THEN {"STFPA"} ELSE {"ATCF", "ATCM"})
      BY <3>2 DEF Kindred
    <3> HIDE DEF e, n
    <3>5. IF driver.kind = "elm327" THEN e.pass = {} ELSE e.code = {} /\ e.mask = {}
      BY <3>3, <3>4 DEF KindInv
    <3>6. SetUpOf(e, adapter')
      BY <2>1 DEF Executes, e
    <3>7. QED
      BY <3>5, <3>6 DEF SetUpOf
  <2>2. CASE SameSetUp \/ adapter' = adapter
    BY <2>2 DEF SameSetUp, SetUpOf, KindInv
  <2>3. QED
    BY <1>1, <2>1, <2>2 DEF Skips, Takes, Watches, Declines, Interrupted, Emits
<1>6. QED
  BY <1>1, <1>2, <1>3, <1>4, <1>5 DEF KindInv, SameHost, Kindred

(* The names of what is written. *)
LEMMA WrittenIs ==
    ASSUME TypeOK, PlanInv, Write
    PROVE  Kindred(plan[1]) /\ plan[1].name # "CR" /\ (leaving => plan[1].name # "Monitor")
<1>1. pc = "command"
  BY WriteHow
<1>2. CASE leaving
  BY <1>2 DEF PlanInv, Kindred, Cmd
<1>3. CASE ~leaving
  <2>1. Done + 1 \in 1..Len(Session) /\ plan[1] = Session[Done + 1] /\ driver \in Drivers
    BY <1>1, <1>3, CurrentIs
  <2>2. driver.kind \in {"elm327", "stn"}
    BY <2>1 DEF Drivers
  <2>3. QED
    BY <1>3, <2>1, <2>2, SessionNames DEF Kindred
<1>4. QED
  BY <1>2, <1>3

LEMMA KindHost ==
    ASSUME TypeOK, PlanInv, KindInv, Ask \/ Read \/ Watch \/ World
    PROVE  KindInv'
<1>1. adapter' = adapter /\ driver' = driver
  BY HostLine
<1>2. \A c : Kindred(c)' <=> Kindred(c)
  BY <1>1 DEF Kindred
<1>3. ASSUME NEW c, Queued(c), Kindred(c)
      PROVE  \A i \in 1..Len(toAdapter') : Kindred(toAdapter'[i])
  <2>1. Len(toAdapter) \in Nat
    BY Sizes DEF Sized
  <2>2. QED
    BY <1>3, <2>1 DEF Queued, KindInv
<1>4. \A i \in 1..Len(toAdapter') : Kindred(toAdapter'[i])
  <2>1. CASE Write
    BY <1>3, <2>1, WriteHow, WrittenIs
  <2>2. CASE StopMonitor
    <3>1. Kindred(Cmd("CR", {}))
      BY DEF Kindred, Cmd
    <3>2. QED
      BY <1>3, <2>2, <3>1, StopMonitorHow
  <2>3. CASE toAdapter' = toAdapter \/ Len(toAdapter') = 0
    BY <2>3 DEF KindInv
  <2>4. QED
    BY <2>1, <2>2, <2>3, HostLine
<1>5. QED
  BY <1>1, <1>2, <1>4 DEF KindInv, Kindred

-----------------------------------------------------------------------------
(* Before the last command of connect is answered, and after it.           *)

LEMMA StrayNone ==
    ASSUME TypeOK, NEW n \in Int, n < 1
    PROVE  ~Stray(n)
<1>1. Len(unread) \in Nat /\ Len(toAdapter) \in Nat /\ Prompts \in Nat
  BY Sizes, CountFacts DEF Sized
<1>2. ~StrayRead(n)
  <2> SUFFICES ASSUME NEW i \in 1..Len(unread), unread[i] = Prompt, Rank(unread, i) <= n
               PROVE  FALSE
    BY DEF StrayRead, Bare
  <2>1. i \in Nat /\ i \in 1..i
    BY <1>1
  <2>2. Rank(unread, i) # 0 /\ Rank(unread, i) \in Nat
    BY <2>1, RankNone, RankType
  <2>3. QED
    BY <2>2
<1>3. ~StrayBusy(n)
  BY <1>1 DEF StrayBusy
<1>4. ~StrayQueued(n)
  <2> SUFFICES ASSUME NEW q \in 1..Len(toAdapter), Prompts + Occupied + q <= n
               PROVE  FALSE
    BY DEF StrayQueued
  <2>1. Occupied \in Nat
    BY DEF Occupied
  <2>2. QED
    BY <1>1, <2>1
<1>5. QED
  BY <1>2, <1>3, <1>4 DEF Stray

LEMMA QuietFirst ==
    ASSUME TypeOK, PlanInv, SessionInv, pc = "command", ~leaving, ~Configuring
    PROVE  Quiet /\ Established(Done)
<1>1. /\ Len(plan) \in Nat /\ Len(Polling) \in Nat /\ Left = Len(plan) - Len(Polling)
      /\ Configuring <=> Left >= 1
      /\ Done + 1 \in 1..Len(Session) /\ plan[1] = Session[Done + 1] /\ driver \in Drivers
      /\ Head(plan) = plan[1]
  BY CurrentIs
<1>2. Left \in Int /\ Left < 1
  BY <1>1
<1>3. plan[1].name # "ATZ"
  BY <1>1, SessionNames DEF Configuring, Configures, TypeOK
<1>4. QED
  BY <1>2, <1>3, StrayNone DEF SessionInv

(* The monitor command is written when nothing else is under way. *)
LEMMA MonitorAlone ==
    ASSUME TypeOK, PlanInv, SessionInv, pc = "command", plan[1].name = "Monitor"
    PROVE  Quiet /\ Established(Done) /\ ~leaving /\ ~Configuring
<1>1. ~leaving
  BY DEF PlanInv, Cmd
<1>2. Head(plan) = plan[1]
  BY Sizes DEF Sized
<1>3. ~Configuring
  BY <1>2 DEF Configuring, Configures
<1>4. QED
  BY <1>1, <1>3, QuietFirst

LEMMA QueueAdapter ==
    ASSUME TypeOK, QueueInv, Adapter
    PROVE  QueueInv'
<1>1. SameHost /\ (Skips \/ Takes \/ Watches \/ Executes \/ Declines \/ Interrupted \/ Emits)
  BY AdapterHow
<1>2. Len(toAdapter) \in Nat
  BY Sizes DEF Sized
<1>3. \A i \in 1..Len(toAdapter') :
        toAdapter'[i].name = "CR" => stop' /\ (leaving' \/ pc' \in {"drain", "ended"})
  BY <1>1, QueueHow DEF QueueInv, SameHost
<1>4. CASE Consumed
  <2>1. \A i \in 1..Len(toAdapter') : i + 1 \in 1..Len(toAdapter) /\ toAdapter'[i] = toAdapter[i + 1]
    BY <1>2, <1>4 DEF Consumed
  <2>2. \A i, j \in 1..Len(toAdapter') :
          toAdapter'[i].name = "Monitor" /\ toAdapter'[j].name = "Monitor" => i = j
    <3>1. ASSUME NEW i \in 1..Len(toAdapter'), NEW j \in 1..Len(toAdapter'),
                 toAdapter'[i].name = "Monitor", toAdapter'[j].name = "Monitor"
          PROVE  i = j
      <4>1. i + 1 = j + 1
        BY <2>1, <3>1 DEF QueueInv
      <4>2. i \in Int /\ j \in Int
        OBVIOUS
      <4>3. QED
        BY <4>1, <4>2
    <3>2. QED
      BY <3>1
  <2>3. ASSUME NEW i \in 1..Len(toAdapter'), toAdapter'[i].name = "Monitor"
        PROVE  ~Monitoring'
    <3>1. i + 1 \in 1..Len(toAdapter) /\ toAdapter[i + 1].name = "Monitor" /\ i + 1 # 1
      BY <2>1, <2>3
    <3>2. ~Monitoring
      BY <3>1 DEF QueueInv
    <3>3. 1 \in 1..Len(toAdapter) /\ toAdapter[1].name # "Monitor"
      <4>1. 1 \in 1..Len(toAdapter)
        BY <1>2, <1>4 DEF Consumed
      <4>2. toAdapter[1].name = "Monitor" => 1 = i + 1
        BY <3>1, <4>1 DEF QueueInv
      <4>3. QED
        BY <3>1, <4>1, <4>2
    <3>4. QED
      BY <1>1, <3>2, <3>3 DEF Monitoring, Skips, Takes, Watches, Executes, Declines, Interrupted, Emits
  <2>4. QED
    BY <1>3, <2>2, <2>3 DEF QueueInv
<1>5. CASE toAdapter' = toAdapter /\ (Monitoring' => Monitoring)
  BY <1>3, <1>5 DEF QueueInv
<1>6. Consumed \/ (toAdapter' = toAdapter /\ (Monitoring' => Monitoring))
  BY <1>1 DEF Monitoring, Skips, Takes, Watches, Executes, Declines, Interrupted, Emits
<1>7. QED
  BY <1>4, <1>5, <1>6

LEMMA QueueHost ==
    ASSUME TypeOK, PlanInv, QueueInv, SessionInv, Ask \/ Read \/ Watch \/ World
    PROVE  QueueInv'
<1>1. adapter' = adapter
  BY HostLine
<1>2. Monitoring' <=> Monitoring
  BY <1>1 DEF Monitoring
<1>3. Len(toAdapter) \in Nat
  BY Sizes DEF Sized
<1>4. ASSUME stop, leaving \/ pc \in {"drain", "ended"}
      PROVE  stop' /\ (leaving' \/ pc' \in {"drain", "ended"})
  <2>1. stop'
    BY <1>4, HostLine
  <2>2. CASE Answered \/ TimeOut \/ TransportFails
    <3>1. leaving /\ ~Configuring /\ Head(plan) = plan[1] /\ plan[1].name # "Request"
      <4>1. pc \in {"answer", "command"}
        BY <2>2 DEF Answered, TimeOut, TransportFails
      <4>2. Head(plan) = plan[1] /\ leaving
        BY <1>4, <4>1, Sizes DEF Sized
      <4>3. QED
        BY <4>2 DEF PlanInv, Configuring, Configures, Cmd
    <3>2. CASE CommandFails
      BY <1>4, <2>1, <3>1, <3>2, FailsHow DEF Over
    <3>3. CASE CommandWorks
      BY <1>4, <2>1, <3>1, <3>3, WorksHow DEF Over
    <3>4. QED
      BY <2>2, <3>2, <3>3, AnsweredHow DEF TimeOut, TransportFails
  <2>3. CASE Drained \/ Undrained
    <3>1. MonitorReturns(FALSE)
      BY <2>3 DEF Drained, Undrained
    <3>2. QED
      BY <1>4, <2>1, <3>1, MonitorReturnsHow DEF Over
  <2>4. CASE Collect \/ Write \/ World
    <3>1. leaving' = leaving /\ (pc' = pc \/ leaving)
      BY <1>4, <2>4 DEF Collect, Write, World, Stop, CloseDriver, Lose, host
    <3>2. QED
      BY <1>4, <2>1, <3>1
  <2>5. CASE Open \/ GiveUp \/ Tick \/ EndPoll \/ Stream \/ StreamFails \/ StopMonitor
    BY <1>4, <2>5 DEF PlanInv, Open, GiveUp, Tick, EndPoll, Stream, StreamFails, StopMonitor
  <2>6. QED
    BY <2>2, <2>3, <2>4, <2>5 DEF Ask, Read, Watch
<1>5. CASE Write
  <2>1. Queued(plan[1]) /\ pc = "command" /\ stop' = stop /\ leaving' = leaving
    BY <1>5, WriteHow
  <2>2. plan[1].name # "CR"
    BY <1>5, WrittenIs
  <2>3. plan[1].name = "Monitor" => Len(toAdapter) = 0 /\ ~Monitoring
    BY <2>1, MonitorAlone DEF Quiet, Monitoring
  <2>4. QED
    BY <1>2, <1>3, <1>4, <2>1, <2>2, <2>3 DEF QueueInv, Queued
<1>6. CASE StopMonitor
  <2>1. Queued(Cmd("CR", {})) /\ stop /\ stop' = stop /\ pc' = "drain"
    BY <1>6, StopMonitorHow
  <2>2. Cmd("CR", {}).name # "Monitor"
    BY DEF Cmd
  <2>3. QED
    BY <1>2, <1>3, <2>1, <2>2 DEF QueueInv, Queued
<1>7. CASE toAdapter' = toAdapter
  BY <1>2, <1>4, <1>7 DEF QueueInv
<1>8. CASE Len(toAdapter') = 0
  BY <1>8 DEF QueueInv
<1>9. QED
  BY <1>5, <1>6, <1>7, <1>8, HostLine

-----------------------------------------------------------------------------
(* The answers under way are those that were given up, and one.            *)

Sum == Prompts + Len(toAdapter) + Occupied

LEMMA SumTypes ==
    ASSUME TypeOK
    PROVE  /\ Prompts \in Nat /\ Len(toAdapter) \in Nat /\ Occupied \in 0..1
           /\ timeouts \in Nat /\ timeouts <= 6
<1>1. timeouts \in 0..MaxTimeouts
  BY DEF TypeOK
<1>2. QED
  BY <1>1, Bounds, CountFacts, Sizes DEF Occupied, Sized

(* A step of the adapter makes no answer more. *)
LEMMA SumAdapter ==
    ASSUME TypeOK, Adapter
    PROVE  Sum' <= Sum \/ (Skips /\ 1 \in 1..Len(toAdapter) /\ toAdapter[1].name = "CR")
<1>1. Skips \/ Takes \/ Watches \/ Executes \/ Declines \/ Interrupted \/ Emits
  BY AdapterHow
<1>2. Prompts \in Nat /\ Len(toAdapter) \in Nat
  BY SumTypes
<1>3. CASE Skips
  BY <1>2, <1>3 DEF Skips, Consumed
<1>4. CASE Takes \/ Watches
  <2>1. Prompts' = Prompts
    BY <1>4, HearsRank DEF Takes, Watches
  <2>2. CASE Takes
    BY <1>2, <2>1, <2>2 DEF Takes, Consumed, Sum, Occupied
  <2>3. CASE Watches
    BY <1>2, <2>1, <2>3 DEF Watches, Sum, Occupied
  <2>4. QED
    BY <1>4, <2>2, <2>3
<1>5. CASE Executes
  <2>1. PICK t \in AnswerTexts(adapter.cmd) : Answers(t)
    BY <1>5 DEF Executes
  <2>2. t # Prompt
    BY <2>1 DEF AnswerTexts, Prompt
  <2>3. Prompts' = Prompts + 1
    BY <2>1, <2>2, HearsRank DEF Answers
  <2>4. QED
    BY <1>2, <1>5, <2>3 DEF Executes, Sum, Occupied
<1>6. CASE Declines
  <2>1. Prompts' = Prompts + 1
    BY <1>6, HearsRank DEF Declines, Answers, Prompt
  <2>2. QED
    BY <1>2, <1>6, <2>1 DEF Declines, Sum, Occupied
<1>7. CASE Interrupted
  <2>1. Prompts' <= Prompts + 2 /\ Prompts' \in Nat
    <3>1. CASE Answers("stopped")
      <4>1. Hears(2) /\ "stopped" # Prompt
        BY <3>1 DEF Answers, Prompt
      <4>2. Prompts' = Prompts + 1
        BY <3>1, <4>1, HearsRank
      <4>3. QED
        BY <1>2, <4>2
    <3>2. CASE /\ Hears(4) /\ unread'[Len(unread) + 1] = "stopped" /\ unread'[Len(unread) + 2] = Prompt
               /\ unread'[Len(unread) + 3] = "error" /\ unread'[Len(unread) + 4] = Prompt
      <4>1. Prompts' = Prompts + 2
        BY <3>2, HearsRank DEF Prompt
      <4>2. QED
        BY <1>2, <4>1
    <3>3. QED
      BY <1>7, <3>1, <3>2 DEF Interrupted
  <2>2. Len(toAdapter') = Len(toAdapter) - 1 /\ Occupied = 1 /\ Occupied' = 0
    BY <1>7 DEF Interrupted, Consumed, Occupied
  <2>3. QED
    BY <1>2, <2>1, <2>2 DEF Sum
<1>8. CASE Emits
  <2>1. Prompts' = Prompts
    BY <1>2, <1>8, HearsRank DEF Emits, Prompt
  <2>2. QED
    BY <1>2, <1>8, <2>1 DEF Emits, Sum, Occupied
<1>9. QED
  BY <1>1, <1>3, <1>4, <1>5, <1>6, <1>7, <1>8

LEMMA CountAdapter ==
    ASSUME TypeOK, PlanInv, QueueInv, CountInv, Adapter
    PROVE  CountInv'
<1>1. SameHost
  BY AdapterHow
<1>2. Configuring' <=> Configuring
  BY <1>1 DEF SameHost, Configuring
<1>3. SUFFICES ASSUME ~stop \/ Configuring
               PROVE  Sum' <= 1 + timeouts + IF pc = "answer" THEN 1 ELSE 0
  BY <1>1, <1>2 DEF CountInv, SameHost, Sum
<1>4. \A i \in 1..Len(toAdapter) : toAdapter[i].name # "CR"
  <2>1. CASE ~stop
    BY <2>1 DEF QueueInv
  <2>2. CASE Configuring
    <3>1. ~(leaving \/ pc \in {"drain", "ended"})
      <4>1. plan # <<>> /\ Configures(plan[1])
        BY <2>2, Sizes DEF Configuring, Sized, TypeOK
      <4>2. QED
        BY <4>1 DEF PlanInv, Configures, Cmd
    <3>2. QED
      BY <3>1 DEF QueueInv
  <2>3. QED
    BY <1>3, <2>1, <2>2
<1>5. Sum' <= Sum
  BY <1>4, SumAdapter
<1>6. Sum <= 1 + timeouts + IF pc = "answer" THEN 1 ELSE 0
  BY <1>3 DEF CountInv, Sum
<1>7. Sum \in Int /\ timeouts \in Int /\ Sum' \in Int
  <2>1. TypeOK'
    BY AdapterHow
  <2>2. Prompts' \in Nat /\ Len(toAdapter') \in Nat /\ Occupied' \in 0..1
    <3>1. Len(toAdapter') \in Nat
      BY QueueHow
    <3>2. Len(unread') \in Nat
      BY AdapterHow, UnreadType DEF Skips, Takes, Watches, Executes, Declines, Interrupted, Emits,
         Answers, Hears
    <3>3. Prompts' \in Nat
      BY <3>2, RankType DEF Prompts
    <3>4. Occupied' \in 0..1
      BY DEF Occupied
    <3>5. QED
      BY <3>1, <3>3, <3>4
  <2>3. QED
    BY <2>2, SumTypes DEF Sum
<1>8. QED
  BY <1>5, <1>6, <1>7

(* After a stop nobody starts to configure again. *)
LEMMA ConfiguringBack ==
    ASSUME TypeOK, PlanInv, Ask \/ Read \/ Watch \/ World, stop, Configuring'
    PROVE  Configuring
<1>1. plan' # <<>>
  BY DEF Configuring
<1>2. CASE plan' = plan
  BY <1>2 DEF Configuring
<1>3. CASE (\E err \in BOOLEAN : MonitorReturns(err)) \/ CommandFails
  <2>1. plan' = StopPeriodic
    BY <1>1, <1>3, FailsHow, MonitorReturnsHow DEF Over
  <2>2. Head(plan') = Cmd("STPPMC", {})
    BY <2>1, StopPeriodicIs
  <2>3. QED
    BY <2>2 DEF Configuring, Configures, Cmd
<1>4. CASE CommandWorks /\ pc = "answer"
  <2>1. plan' = Tail(plan) /\ Len(plan) > 1
    BY <1>1, <1>4, WorksHow DEF Over
  <2>2. plan \in Seq(Commands) /\ Len(plan) \in Nat
    BY Sizes DEF TypeOK, Sized
  <2>3. Head(Tail(plan)) = plan[2]
    BY <2>1, <2>2
  <2>4. Configures(plan[2])
    BY <2>1, <2>3 DEF Configuring
  <2>5. CASE leaving
    BY <2>1, <2>4, <2>5 DEF PlanInv, Configures, Cmd
  <2>6. CASE ~leaving
    <3>1. /\ Done \in Nat /\ Done + 1 \in 1..Len(Session) /\ plan[1] = Session[Done + 1]
          /\ Len(Session) = Done + Len(plan) /\ driver \in Drivers /\ Head(plan) = plan[1]
          /\ Len(Configuration) \in Nat
      BY <1>4, <2>6, CurrentIs
    <3>2. plan[2] = Session[Done + 2] /\ Done + 2 \in 1..Len(Session)
      BY <1>4, <2>1, <2>2, <2>6, <3>1 DEF PlanInv
    <3>3. Done + 2 <= Len(Configuration)
      BY <2>4, <3>1, <3>2, SessionNames
    <3>4. Done + 1 <= Len(Configuration)
      BY <3>1, <3>3
    <3>5. Configures(plan[1])
      BY <3>1, <3>4, SessionNames
    <3>6. plan # <<>>
      BY <1>4 DEF TypeOK
    <3>7. QED
      BY <3>1, <3>5, <3>6 DEF Configuring
  <2>7. QED
    BY <2>5, <2>6
<1>5. plan' = plan \/ (\E err \in BOOLEAN : MonitorReturns(err)) \/ CommandFails
        \/ (CommandWorks /\ pc = "answer")
  <2>1. CASE Ask
    BY <1>1, <2>1 DEF Ask, Open, GiveUp, Write, Tick, EndPoll, Return
  <2>2. CASE Read
    BY <2>2, AnsweredHow DEF Read, Collect, TimeOut, TransportFails
  <2>3. CASE Watch
    BY <2>3 DEF Watch, Stream, StreamFails, StopMonitor, Drained, Undrained, host
  <2>4. CASE World
    BY <2>4 DEF World, Stop, CloseDriver, Lose, host
  <2>5. QED
    BY <2>1, <2>2, <2>3, <2>4
<1>6. QED
  BY <1>2, <1>3, <1>4, <1>5

LEMMA CountHost ==
    ASSUME TypeOK, PlanInv, SessionInv, CountInv, Ask \/ Read \/ Watch \/ World
    PROVE  CountInv'
<1>1. SUFFICES ASSUME ~stop' \/ Configuring'
               PROVE  Sum' <= 1 + timeouts' + IF pc' = "answer" THEN 1 ELSE 0
  BY DEF CountInv, Sum
<1>2. Sum <= 1 + timeouts + IF pc = "answer" THEN 1 ELSE 0
  BY <1>1, ConfiguringBack, HostLine DEF CountInv, Sum
<1>3. /\ Prompts \in Nat /\ Len(toAdapter) \in Nat /\ Occupied \in 0..1 /\ timeouts \in Nat
      /\ Prompts' \in Nat /\ Prompts' <= Prompts /\ Occupied' = Occupied
  BY SumTypes, HostShortens, ShortensKeeps, HostLine DEF Occupied
<1>4. CASE Write
  <2>1. Queued(plan[1]) /\ timeouts' = timeouts /\ pc = "command"
        /\ pc' = IF plan[1].name = "Monitor" THEN "stream" ELSE "answer"
    BY <1>4, WriteHow
  <2>2. CASE plan[1].name = "Monitor"
    <3>1. Len(toAdapter) = 0 /\ Prompts = 0 /\ Occupied = 0
      <4>1. Quiet
        BY <2>1, <2>2, MonitorAlone
      <4>2. NoPrompt
        BY <4>1 DEF Quiet, NoPrompt
      <4>3. QED
        BY <4>1, <4>2, CountFacts DEF Quiet, Occupied
    <3>2. Len(toAdapter') = Len(toAdapter) + 1
      BY <2>1 DEF Queued
    <3>3. Sum' <= 1
      <4> DEFINE p == Prompts'
                 l == Len(toAdapter')
                 o == Occupied'
      <4>1. p \in Nat /\ p <= 0 /\ l = 1 /\ o = 0
        <5>1. p \in Nat /\ p <= 0 /\ o = 0
          BY <1>3, <3>1
        <5>2. l = 1
          BY <3>1, <3>2
        <5>3. QED
          BY <5>1, <5>2
      <4>2. Sum' = p + l + o
        BY DEF Sum
      <4> HIDE DEF p, l, o
      <4>3. QED
        BY <4>1, <4>2
    <3>4. Sum' \in Int
      BY <1>3, <3>2 DEF Sum
    <3>5. QED
      BY <1>3, <2>1, <3>3, <3>4
  <2>3. CASE plan[1].name # "Monitor"
    BY <1>2, <1>3, <2>1, <2>3 DEF Queued, Sum
  <2>4. QED
    BY <2>2, <2>3
<1>5. CASE StopMonitor
  <2>1. stop' /\ pc = "stream" /\ plan' = plan
    BY <1>5, StopMonitorHow
  <2>2. Configuring
    BY <1>1, <2>1 DEF Configuring
  <2>3. QED
    BY <2>1, <2>2, Sizes DEF PlanInv, Configuring, Configures, Cmd, Sized
<1>6. CASE Answered
  <2>1. PICK n \in 1..Len(unread) : Ends(n)
    BY <1>6, AnsweredHow
  <2>2. PICK k \in n..Len(unread) : Drops(k)
    BY <2>1 DEF Ends
  <2>3. Len(unread) \in Nat /\ k \in 0..Len(unread) /\ n \in Nat /\ k \in Nat /\ n <= k
    BY UnreadType
  <2>4. Rank(unread, n) = 1 /\ Rank(unread, n) <= Rank(unread, k) /\ Rank(unread, k) \in Nat
    BY <2>1, <2>3, FirstPromptRank, RankMonotone, RankType DEF Ends
  <2>5. Prompts = Rank(unread, k) + Prompts'
    BY <2>2, <2>3, DropsRank
  <2>6. toAdapter' = toAdapter /\ timeouts' = timeouts /\ pc = "answer"
    BY <1>6, AnsweredHow
  <2>7. Sum' <= Sum - 1
    <3>1. Prompts' <= Prompts - 1
      BY <1>3, <2>4, <2>5
    <3>2. Len(toAdapter') = Len(toAdapter)
      BY <2>6
    <3>3. QED
      BY <1>3, <3>1, <3>2 DEF Sum
  <2>8. QED
    BY <1>2, <1>3, <2>6, <2>7 DEF Sum
<1>7. CASE TimeOut
  <2>1. CommandFails /\ toAdapter' = toAdapter /\ pc = "answer" /\ stop' = stop
        /\ timeouts' = IF stop THEN timeouts ELSE timeouts + 1
    BY <1>7 DEF TimeOut, line
  <2>2. ~Configuring'
    <3>1. plan' = <<>> \/ plan' = StopPeriodic
      BY <2>1, FailsHow DEF Over
    <3>2. Head(StopPeriodic) = Cmd("STPPMC", {})
      BY StopPeriodicIs
    <3>3. QED
      BY <3>1, <3>2 DEF Configuring, Configures, Cmd
  <2>3. timeouts' = timeouts + 1
    BY <1>1, <2>1, <2>2
  <2>4. QED
    BY <1>2, <1>3, <2>1, <2>3 DEF Sum
<1>8. CASE Lose
  <2>1. (toAdapter' = toAdapter \/ Len(toAdapter') = 0) /\ pc' = pc /\ timeouts' = timeouts
    BY <1>8 DEF Lose, host
  <2>2. QED
    BY <1>2, <1>3, <2>1 DEF Sum
<1>9. CASE Collect \/ Stream \/ Stop \/ CloseDriver
  <2>1. toAdapter' = toAdapter /\ pc' = pc /\ timeouts' = timeouts
    BY <1>9 DEF Collect, Stream, Stop, CloseDriver, host, line
  <2>2. QED
    BY <1>2, <1>3, <2>1 DEF Sum
<1>10. CASE Open \/ GiveUp \/ Tick \/ EndPoll \/ TransportFails \/ StreamFails \/ Drained \/ Undrained
  <2>1. toAdapter' = toAdapter /\ pc # "answer" /\ timeouts' = timeouts
    BY <1>10 DEF Open, GiveUp, Tick, EndPoll, TransportFails, StreamFails, Drained, Undrained, line
  <2>2. QED
    BY <1>2, <1>3, <2>1 DEF Sum
<1>11. QED
  BY <1>4, <1>5, <1>6, <1>7, <1>8, <1>9, <1>10 DEF Ask, Read, Watch, World

-----------------------------------------------------------------------------
(* What the set-up says of the commands that were taken. *)

LEMMA TookSetUp ==
    ASSUME NEW a, NEW b, SetUpOf(a, b), NEW c
    PROVE  Took(a, c) <=> Took(b, c)
BY DEF SetUpOf, Took

LEMMA TookNext ==
    ASSUME driver' = driver, NEW c
    PROVE  Took(adapter, c)' <=> Took(adapter', c)
<1>1. Filters' = Filters
  BY SameSession
<1>2. QED
  BY <1>1 DEF Took

LEMMA EffectTook ==
    ASSUME NEW a \in Adapters, NEW c \in Commands, c.name \notin {"CR", "Monitor"}
    PROVE  Took(Effect(a, c), c)
<1> DEFINE e == Effect(a, c)
           n == c.name
<1>1. n # "ATZ" =>
        /\ e.set = a.set \cup (IF n \in Range(Settings) THEN {n} ELSE {})
        /\ e.code = IF n = "ATCF" THEN c.arg ELSE a.code
        /\ e.mask = IF n = "ATCM" THEN c.arg ELSE a.mask
        /\ e.pass = IF n = "STFPC" THEN {}
                    ELSE IF n = "STFPA" THEN a.pass \cup {c.arg} ELSE a.pass
        /\ e.periodic = IF n = "STPPMC" THEN {}
                        ELSE IF n = "STPPMA" THEN a.periodic \cup c.arg ELSE a.periodic
        /\ e.normal = IF n = "STCMM1" THEN TRUE ELSE IF n = "STCMM0" THEN FALSE ELSE a.normal
  BY EffectIs
<1> HIDE DEF e
<1>2. Took(e, c)
  BY <1>1, SettingNames DEF Took
<1>3. QED
  BY <1>2 DEF e

(* A later command of the session undoes no earlier one. *)
LEMMA EffectKeeps ==
    ASSUME driver \in Drivers, NEW a \in Adapters,
           NEW i \in 1..Len(Session), NEW j \in 1..Len(Session), i < j,
           Session[j].name # "Monitor", Took(a, Session[i])
    PROVE  Took(Effect(a, Session[j]), Session[i])
<1> DEFINE c == Session[j]
           d == Session[i]
           e == Effect(a, c)
           n == c.name
<1>1. /\ c \in Commands /\ n \notin {"CR", "Monitor", "ATZ", "STCMM0", "STPPMC"}
      /\ d \in Commands /\ d.name # "STCMM0"
  <2>1. j # 1 /\ driver \in Drivers
    OBVIOUS
  <2>2. QED
    BY <2>1, SessionNames
<1>2. /\ d.name \in {"ATCF", "ATCM"} => n # d.name
      /\ d.name = "STFPA" => n # "STFPC"
  BY SessionOrder
<1>3. Took(a, d)
  OBVIOUS
<1> HIDE DEF c, d
<1>4. /\ e.set = a.set \cup (IF n \in Range(Settings) THEN {n} ELSE {})
      /\ e.code = IF n = "ATCF" THEN c.arg ELSE a.code
      /\ e.mask = IF n = "ATCM" THEN c.arg ELSE a.mask
      /\ e.pass = IF n = "STFPC" THEN {}
                  ELSE IF n = "STFPA" THEN a.pass \cup {c.arg} ELSE a.pass
      /\ e.periodic = IF n = "STPPMC" THEN {}
                      ELSE IF n = "STPPMA" THEN a.periodic \cup c.arg ELSE a.periodic
      /\ e.normal = IF n = "STCMM1" THEN TRUE ELSE IF n = "STCMM0" THEN FALSE ELSE a.normal
  BY <1>1, EffectIs
<1>5. d.name = "STFPC" /\ Filters = {} => n # "STFPA"
  <2> SUFFICES ASSUME Filters = {}, n = "STFPA" PROVE FALSE
    OBVIOUS
  <2>1. FilterSeq \in Seq(Filters)
    BY StnFilterCommandsAre
  <2>2. Len(FilterSeq) = 0
    BY <2>1
  <2>3. j > 8 /\ j <= Len(Configuration)
    <3>1. Configures(Session[j])
      BY DEF c, Configures
    <3>2. j <= Len(Configuration)
      BY <3>1, SessionNames
    <3>3. Session[j] = Configuration[j] /\ j \in 2..Len(Configuration)
      <4>1. j \in 1..Len(Configuration)
        BY <3>2, SessionIs
      <4>2. QED
        BY <4>1, SessionIs
    <3>4. j <= 8 => Session[j].name \in Range(Settings)
      BY <3>3, ConfigurationNames
    <3>5. "STFPA" \notin Range(Settings)
      BY SettingNames
    <3>6. QED
      BY <3>2, <3>4, <3>5 DEF c
  <2>4. driver.kind = "stn"
    BY SessionNames DEF c, Drivers
  <2>5. /\ Len(Configuration) = 10 + Len(FilterSeq)
        /\ Session[j] = Configuration[j] /\ j \in 2..Len(Configuration)
    <3>1. j \in 1..Len(Configuration)
      BY <2>3, SessionIs
    <3>2. QED
      BY <2>4, <3>1, ConfigurationIs, SessionIs
  <2>6. j \in {9, 10}
    BY <2>2, <2>3, <2>5
  <2>7. Session[j].name = "STFPC"
    BY <2>3, <2>4, <2>5, <2>6, ConfigurationNames
  <2>8. QED
    BY <2>7 DEF c
<1> HIDE DEF e
<1>6. Took(e, d)
  <2>1. d.name \in Range(Settings) => d.name \in e.set
    BY <1>3, <1>4 DEF Took
  <2>2. d.name = "ATCF" => e.code = d.arg
    BY <1>2, <1>3, <1>4 DEF Took
  <2>3. d.name = "ATCM" => e.mask = d.arg
    BY <1>2, <1>3, <1>4 DEF Took
  <2>4. d.name = "STFPC" => (Filters = {} => e.pass = {})
    BY <1>3, <1>4, <1>5 DEF Took
  <2>5. d.name = "STFPA" => d.arg \in e.pass
    BY <1>2, <1>3, <1>4 DEF Took
  <2>6. (d.name = "STCMM1" => e.normal) /\ (d.name = "STPPMA" => d.arg \subseteq e.periodic)
    BY <1>1, <1>3, <1>4 DEF Took
  <2>7. QED
    BY <1>1, <2>1, <2>2, <2>3, <2>4, <2>5, <2>6 DEF Took
<1>7. QED
  BY <1>6 DEF c, d, e

-----------------------------------------------------------------------------
(* What a step of the adapter leaves of the answers under way.             *)

(* An adapter at its prompt with nothing on the line has nothing to do. *)
LEMMA NothingToDo ==
    ASSUME TypeOK, Adapter, Len(toAdapter) = 0
    PROVE  adapter.at # "prompt"
<1>1. Skips \/ Takes \/ Watches \/ Executes \/ Declines \/ Interrupted \/ Emits
  BY AdapterHow
<1>2. QED
  BY <1>1 DEF Skips, Takes, Watches, Executes, Declines, Interrupted, Emits, Consumed

(* What the host hears. *)
LEMMA HeardWhat ==
    ASSUME TypeOK, Adapter
    PROVE  /\ NoPrompt /\ (Takes \/ Watches \/ Emits) => NoPrompt'
           /\ ~NoPrompt => ~NoPrompt'
           /\ Executes \/ Declines \/ Interrupted => ~NoPrompt'
           /\ NoOk /\ ~Executes => NoOk'
<1>1. Skips \/ Takes \/ Watches \/ Executes \/ Declines \/ Interrupted \/ Emits
  BY AdapterHow
<1>2. Len(unread) \in Nat /\ "ok" # Prompt /\ "frame" # Prompt
  BY UnreadType DEF Prompt
<1>3. ASSUME NoPrompt, Takes \/ Watches \/ Emits PROVE NoPrompt'
  <2>1. Hears(0) \/ (Hears(1) /\ unread'[Len(unread) + 1] = "frame")
    BY <1>3 DEF Takes, Watches, Emits
  <2>2. QED
    BY <1>2, <1>3, <2>1 DEF NoPrompt, Hears
<1>4. \E n \in Nat : Hears(n)
  BY <1>1 DEF Skips, Takes, Watches, Executes, Declines, Interrupted, Emits, Answers
<1>5. ASSUME ~NoPrompt PROVE ~NoPrompt'
  <2>1. PICK i \in 1..Len(unread) : unread[i] = Prompt
    BY <1>5 DEF NoPrompt
  <2>2. i \in 1..Len(unread') /\ unread'[i] = Prompt
    BY <1>2, <1>4, <2>1 DEF Hears
  <2>3. QED
    BY <2>2 DEF NoPrompt
<1>6. ASSUME Executes \/ Declines \/ Interrupted PROVE ~NoPrompt'
  <2>1. Len(unread) + 2 \in 1..Len(unread') /\ unread'[Len(unread) + 2] = Prompt
    BY <1>2, <1>6 DEF Executes, Declines, Interrupted, Answers, Hears
  <2>2. QED
    BY <2>1 DEF NoPrompt
<1>7. ASSUME NoOk, ~Executes PROVE NoOk'
  <2>1. CASE Skips \/ Takes \/ Watches \/ Emits
    <3>1. Hears(0) \/ (Hears(1) /\ unread'[Len(unread) + 1] # "ok")
      BY <1>2, <2>1 DEF Skips, Takes, Watches, Emits
    <3>2. QED
      BY <1>2, <1>7, <3>1 DEF NoOk, Hears
  <2>2. CASE Declines \/ (Interrupted /\ Answers("stopped"))
    <3>1. PICK t \in {"error", "stopped"} : Answers(t)
      BY <2>2 DEF Declines
    <3>2. QED
      BY <1>2, <1>7, <3>1 DEF NoOk, Answers, Hears
  <2>3. CASE Interrupted /\ Hears(4)
    <3>1. /\ Hears(4) /\ unread'[Len(unread) + 1] = "stopped" /\ unread'[Len(unread) + 2] = Prompt
          /\ unread'[Len(unread) + 3] = "error" /\ unread'[Len(unread) + 4] = Prompt
      <4>1. ~Answers("stopped")
        BY <1>2, <2>3 DEF Answers, Hears
      <4>2. QED
        BY <2>3, <4>1 DEF Interrupted
    <3>2. \A i \in 1..(Len(unread) + 4) :
            \/ i \in 1..Len(unread)
            \/ i \in {Len(unread) + 1, Len(unread) + 2, Len(unread) + 3, Len(unread) + 4}
      BY <1>2
    <3>3. QED
      BY <1>2, <1>7, <3>1, <3>2 DEF NoOk, Hears
  <2>4. QED
    BY <1>1, <1>7, <2>1, <2>2, <2>3 DEF Interrupted
<1>8. QED
  BY <1>3, <1>5, <1>6, <1>7

LEMMA WatchingAdapter ==
    ASSUME TypeOK, Adapter, NEW k \in Nat, k <= Len(toAdapter), Watching(k),
           Consumed => k > 0
    PROVE  /\ ~Executes
           /\ toAdapter' = toAdapter => Watching(k)'
           /\ Consumed => Watching(k - 1)'
<1>1. Skips \/ Takes \/ Watches \/ Executes \/ Declines \/ Interrupted \/ Emits
  BY AdapterHow
<1>2. Len(toAdapter) \in Nat
  BY Sizes DEF Sized
<1>3. ~Executes
  BY DEF Watching, Executes
<1>4. NoOk'
  BY <1>3, HeardWhat DEF Watching
<1>5. ASSUME toAdapter' = toAdapter PROVE Watching(k)'
  <2>1. Watches \/ Declines \/ Emits
    BY <1>1, <1>2, <1>3, <1>5 DEF Skips, Takes, Interrupted, Consumed
  <2>2. adapter.at # "prompt" /\ adapter'.at # "busy"
    BY <2>1 DEF Watches, Declines, Emits
  <2>3. QED
    BY <1>4, <1>5, <2>2 DEF Watching
<1>6. ASSUME Consumed PROVE Watching(k - 1)'
  <2>1. Skips \/ Takes \/ Interrupted
    <3>1. toAdapter' # toAdapter
      BY <1>2, <1>6 DEF Consumed
    <3>2. QED
      BY <1>1, <1>3, <3>1 DEF Watches, Declines, Emits
  <2>2. 1 \in 1..k /\ \A i \in 1..(k - 1) : i + 1 \in 1..k /\ i + 1 # 1 /\ toAdapter'[i] = toAdapter[i + 1]
    BY <1>2, <1>6 DEF Consumed
  <2>3. \A i \in 1..(k - 1) : toAdapter'[i].name \in {"Monitor", "CR"} /\ toAdapter'[i].name # "Monitor"
    BY <2>2 DEF Watching
  <2>4. adapter'.at = "busy" => adapter'.cmd.name = "Monitor"
    BY <2>1, <2>2 DEF Watching, Skips, Takes, Interrupted
  <2>5. QED
    BY <1>4, <2>3, <2>4 DEF Watching
<1>7. QED
  BY <1>3, <1>5, <1>6

LEMMA NoMonitorAdapter ==
    ASSUME TypeOK, Adapter, NoMonitor
    PROVE  NoMonitor'
<1>1. Skips \/ Takes \/ Watches \/ Executes \/ Declines \/ Interrupted \/ Emits
  BY AdapterHow
<1>2. Len(toAdapter) \in Nat
  BY Sizes DEF Sized
<1>3. \A i \in 1..Len(toAdapter') : toAdapter'[i].name # "Monitor"
  BY QueueHow DEF NoMonitor
<1>4. Consumed => toAdapter[1].name # "Monitor"
  <2>1. Consumed => 1 \in 1..Len(toAdapter)
    BY <1>2 DEF Consumed
  <2>2. QED
    BY <2>1 DEF NoMonitor
<1>5. ~Monitoring'
  BY <1>1, <1>4 DEF NoMonitor, Monitoring, Skips, Takes, Watches, Executes, Declines, Interrupted, Emits
<1>6. QED
  BY <1>3, <1>5 DEF NoMonitor

LEMMA WatchingAllAdapter ==
    ASSUME TypeOK, Adapter, Watching(Len(toAdapter))
    PROVE  Watching(Len(toAdapter))' /\ ~Executes
<1>1. PICK n \in Nat : n = Len(toAdapter)
  BY Sizes DEF Sized
<1>2. Watching(n)
  BY <1>1
<1>3. Consumed => n > 0
  BY <1>1 DEF Consumed
<1>4. /\ ~Executes
      /\ toAdapter' = toAdapter => Watching(n)'
      /\ Consumed => Watching(n - 1)'
  BY <1>1, <1>2, <1>3, WatchingAdapter
<1>5. CASE Consumed
  <2>1. Len(toAdapter') = n - 1
    BY <1>1, <1>5 DEF Consumed
  <2>2. QED
    BY <1>4, <1>5, <2>1
<1>6. CASE toAdapter' = toAdapter
  <2>1. Len(toAdapter') = n
    BY <1>1, <1>6
  <2>2. QED
    BY <1>4, <1>6, <2>1
<1>7. QED
  BY <1>5, <1>6, QueueHow

LEMMA WatchedAdapter ==
    ASSUME TypeOK, Adapter, Watched
    PROVE  Watched' /\ ~Executes
<1>1. PICK n \in Nat : n = Len(toAdapter)
  BY Sizes DEF Sized
<1>2. Watching(n) /\ (NoPrompt \/ NoMonitor)
  BY <1>1 DEF Watched
<1>3. Skips => n > 0
  BY <1>1 DEF Skips, Consumed
<1>4. ~Executes /\ Watching(Len(toAdapter))'
  BY WatchingAllAdapter DEF Watched
<1>5. NoPrompt' \/ NoMonitor'
  <2>1. Skips \/ Takes \/ Watches \/ Declines \/ Interrupted \/ Emits
    BY <1>4, AdapterHow
  <2>2. CASE NoMonitor
    BY <2>2, NoMonitorAdapter
  <2>3. CASE NoPrompt /\ (Takes \/ Watches \/ Emits)
    BY <2>3, HeardWhat
  <2>4. CASE Skips
    <3>1. 1 \in 1..n /\ toAdapter[1].name # "Monitor" /\ adapter.at = "prompt"
      BY <1>1, <1>3, <2>4 DEF Skips
    <3>2. NoMonitor
      BY <1>1, <1>2, <3>1 DEF NoMonitor, Watching, Monitoring
    <3>3. QED
      BY <3>2, NoMonitorAdapter
  <2>5. CASE Declines \/ Interrupted
    <3>1. adapter.at # "prompt" /\ adapter'.at = "prompt"
      BY <2>5 DEF Declines, Interrupted
    <3>2. \A i \in 1..Len(toAdapter) : toAdapter[i].name # "Monitor"
      BY <1>1, <1>2, <3>1 DEF Watching
    <3>3. QED
      BY <3>1, <3>2, QueueHow DEF NoMonitor, Monitoring
  <2>6. QED
    BY <1>2, <2>1, <2>2, <2>3, <2>4, <2>5
<1>6. QED
  BY <1>4, <1>5 DEF Watched

(* An answer that is no OK stays under way until it has been read.         *)
LEMMA StrayReadHears ==
    ASSUME TypeOK, SameHost, NEW m \in Nat, Hears(m), NEW n, StrayRead(n)
    PROVE  StrayRead(n)'
<1>1. Len(unread) \in Nat
  BY UnreadType
<1>2. PICK i \in 1..Len(unread) :
        Bare(i) /\ Rank(unread, i) <= n /\ (FirstAnswer => \E j \in 1..(i - 1) : unread[j] = Prompt)
  BY DEF StrayRead
<1>3. i \in 1..Len(unread') /\ \A j \in 1..i : unread'[j] = unread[j]
  BY <1>1 DEF Hears
<1>4. Rank(unread', i) = Rank(unread, i)
  <2>1. i \in 0..Len(unread)
    BY <1>1
  <2>2. QED
    BY <2>1, HearsRank
<1>5. Bare(i)'
  <2>1. i # 1 => i - 1 \in 1..i
    BY <1>1
  <2>2. i \in 1..i
    BY <1>1
  <2>3. QED
    BY <1>2, <1>3, <2>1, <2>2 DEF Bare, SameHost
<1>6. FirstAnswer' => \E j \in 1..(i - 1) : unread'[j] = Prompt
  <2>1. FirstAnswer' <=> FirstAnswer
    BY DEF FirstAnswer, SameHost
  <2>2. \A j \in 1..(i - 1) : j \in 1..i
    BY <1>1
  <2>3. QED
    BY <1>2, <1>3, <2>1, <2>2
<1>7. QED
  BY <1>2, <1>3, <1>4, <1>5, <1>6 DEF StrayRead

LEMMA StrayHeard ==
    ASSUME TypeOK, SameHost, NEW m \in Nat, m >= 2, Hears(m),
           unread'[Len(unread) + 1] \notin {"ok", Prompt}, unread'[Len(unread) + 2] = Prompt,
           NEW n \in Nat, Prompts + 1 <= n, FirstAnswer => ~NoPrompt
    PROVE  StrayRead(n)'
<1>1. Len(unread) \in Nat /\ Prompts \in Nat
  BY UnreadType, CountFacts
<1>0. PICK i \in Nat : i = Len(unread) + 2
  BY <1>1
<1>2. i \in 1..Len(unread') /\ i # 1 /\ i - 1 = Len(unread) + 1
  BY <1>0, <1>1 DEF Hears
<1>3. Bare(i)'
  BY <1>0, <1>2 DEF Bare
<1>4. Rank(unread', i) = Prompts + 1
  BY <1>0, HearsRank
<1>5. FirstAnswer' => \E j \in 1..(i - 1) : unread'[j] = Prompt
  <2>1. FirstAnswer' <=> FirstAnswer
    BY DEF FirstAnswer, SameHost
  <2>2. \A j \in 1..Len(unread) : j \in 1..(i - 1) /\ unread'[j] = unread[j]
    BY <1>0, <1>1 DEF Hears
  <2>3. QED
    BY <2>1, <2>2 DEF NoPrompt
<1>6. Rank(unread', i) <= n
  BY <1>1, <1>4
<1>7. QED
  BY <1>2, <1>3, <1>5, <1>6 DEF StrayRead

(* The tokens of an answer, as the adapter says them. *)
LEMMA SaysStray ==
    ASSUME TypeOK, Adapter, NEW n \in Nat, Prompts + 1 <= n, FirstAnswer => ~NoPrompt,
           Declines \/ Interrupted \/ (Executes /\ adapter.cmd.name = "ATZ")
    PROVE  StrayRead(n)'
<1>1. SameHost
  BY AdapterHow
<1>2. Prompt # "error" /\ Prompt # "stopped" /\ Prompt # "banner"
  BY DEF Prompt
<1>3. \/ Hears(2) /\ unread'[Len(unread) + 1] \in {"error", "stopped", "banner"}
           /\ unread'[Len(unread) + 2] = Prompt
      \/ Hears(4) /\ unread'[Len(unread) + 1] \in {"error", "stopped", "banner"}
           /\ unread'[Len(unread) + 2] = Prompt
  BY DEF Declines, Interrupted, Executes, Answers, AnswerTexts
<1>4. QED
  BY <1>1, <1>2, <1>3, StrayHeard

(* No carriage return is on the line. *)
NoReturn == \A i \in 1..Len(toAdapter) : toAdapter[i].name # "CR"

LEMMA StrayQueuedAdapter ==
    ASSUME TypeOK, Adapter, NEW n \in Nat, StrayQueued(n),
           NoReturn
    PROVE  Stray(n)'
<1>1. SameHost /\ (Skips \/ Takes \/ Watches \/ Executes \/ Declines \/ Interrupted \/ Emits)
  BY AdapterHow
<1>2. Len(toAdapter) \in Nat /\ Prompts \in Nat
  BY Sizes, CountFacts DEF Sized
<1>3. PICK q \in 1..Len(toAdapter) :
        /\ toAdapter[q].name = "ATZ"
        /\ Prompts + Occupied + q <= n
        /\ FirstAnswer => \/ ~NoPrompt
                          \/ adapter.at = "busy" /\ adapter.cmd.name # "Monitor"
                          \/ \E j \in 1..(q - 1) : toAdapter[j].name # "Monitor"
  BY DEF StrayQueued
<1>4. FirstAnswer' <=> FirstAnswer
  BY <1>1 DEF FirstAnswer, SameHost
<1>5. ~Skips
  BY <1>2 DEF Skips, Consumed, NoReturn
<1>6. CASE Takes
  <2>1. Prompts' = Prompts /\ Occupied = 0 /\ Occupied' = 1
    BY <1>6, HearsRank DEF Takes, Occupied
  <2>2. CASE q = 1
    <3>1. FirstAnswer => ~NoPrompt
      BY <1>3, <1>6, <2>2 DEF Takes
    <3>2. StrayBusy(n)'
      BY <1>2, <1>3, <1>4, <1>6, <2>1, <2>2, <3>1, HeardWhat DEF StrayBusy, Takes
    <3>3. QED
      BY <3>2 DEF Stray
  <2>3. CASE q # 1
    <3>1. q - 1 \in 1..Len(toAdapter') /\ toAdapter'[q - 1] = toAdapter[q]
      BY <1>2, <1>6, <2>3 DEF Takes, Consumed
    <3>2. Prompts' + Occupied' + (q - 1) <= n
      BY <1>2, <1>3, <2>1
    <3>3. ASSUME FirstAnswer'
          PROVE  \/ ~NoPrompt'
                 \/ adapter'.at = "busy" /\ adapter'.cmd.name # "Monitor"
                 \/ \E j \in 1..((q - 1) - 1) : toAdapter'[j].name # "Monitor"
      <4>1. CASE ~NoPrompt
        BY <4>1, HeardWhat
      <4>2. ASSUME NEW j \in 1..(q - 1), toAdapter[j].name # "Monitor"
            PROVE  \/ adapter'.at = "busy" /\ adapter'.cmd.name # "Monitor"
                   \/ \E i \in 1..((q - 1) - 1) : toAdapter'[i].name # "Monitor"
        <5>1. CASE j = 1
          BY <1>6, <4>2, <5>1 DEF Takes
        <5>2. CASE j # 1
          <6>1. j - 1 \in 1..((q - 1) - 1) /\ j - 1 \in 1..Len(toAdapter') /\ (j - 1) + 1 = j
            BY <1>2, <1>6, <5>2 DEF Takes, Consumed
          <6>2. toAdapter'[j - 1] = toAdapter[j]
            BY <1>6, <6>1 DEF Takes, Consumed
          <6>3. QED
            BY <4>2, <6>1, <6>2
        <5>3. QED
          BY <5>1, <5>2
      <4>3. adapter.at = "prompt"
        BY <1>6 DEF Takes
      <4>4. QED
        BY <1>3, <1>4, <3>3, <4>1, <4>2, <4>3
    <3>4. StrayQueued(n)'
      BY <1>3, <3>1, <3>2, <3>3 DEF StrayQueued
    <3>5. QED
      BY <3>4 DEF Stray
  <2>4. QED
    BY <2>2, <2>3
<1>7. CASE Watches \/ Emits
  <2>1. Prompts' = Prompts /\ Occupied = 1 /\ Occupied' = 1 /\ toAdapter' = toAdapter
    <3>1. Hears(0) \/ (Hears(1) /\ unread'[Len(unread) + 1] # Prompt)
      BY <1>7 DEF Watches, Emits, Prompt
    <3>2. Prompts' = Prompts
      BY <1>2, <3>1, HearsRank
    <3>3. QED
      BY <1>7, <3>2 DEF Watches, Emits, Occupied
  <2>2. ~(adapter.at = "busy" /\ adapter.cmd.name # "Monitor")
    BY <1>7 DEF Watches, Emits
  <2>3. StrayQueued(n)'
    BY <1>3, <1>4, <2>1, <2>2, HeardWhat DEF StrayQueued
  <2>4. QED
    BY <2>3 DEF Stray
<1>8. CASE Executes \/ Declines
  <2>1. toAdapter' = toAdapter /\ Occupied = 1 /\ Occupied' = 0 /\ ~NoPrompt'
    BY <1>8, HeardWhat DEF Executes, Declines, Occupied
  <2>2. Prompts' = Prompts + 1
    <3>1. \E t : Answers(t) /\ t # Prompt
      <4>1. CASE Declines
        BY <4>1 DEF Declines, Prompt
      <4>2. CASE Executes
        <5>1. adapter.cmd \in Commands /\ adapter.cmd.name \notin {"CR", "Monitor"}
          <6>1. adapter \in Adapters /\ adapter.cmd.name \notin {"", "CR"} /\ adapter.at = "busy"
            BY <4>2 DEF TypeOK, Executes
          <6>2. adapter.cmd \in Commands \cup {Cmd("", {})}
            BY <6>1 DEF Adapters
          <6>3. adapter.cmd.name # "" /\ Cmd("", {}).name = ""
            BY <6>1 DEF Cmd
          <6>4. QED
            BY <4>2, <6>1, <6>2, <6>3 DEF Executes
        <5>2. QED
          BY <4>2, <5>1, AnswersAreTexts DEF Executes
      <4>3. QED
        BY <1>8, <4>1, <4>2
    <3>2. Hears(2)
      BY <3>1 DEF Answers
    <3>3. QED
      BY <3>1, <3>2, HearsRank
  <2>3. Prompts' + Occupied' + q <= n
    BY <1>2, <1>3, <2>1, <2>2
  <2>4. StrayQueued(n)'
    BY <1>3, <2>1, <2>3 DEF StrayQueued
  <2>5. QED
    BY <2>4 DEF Stray
<1>9. CASE Interrupted
  <2>1. Occupied = 1 /\ Occupied' = 0 /\ ~NoPrompt' /\ Prompts + 1 <= n
    BY <1>2, <1>3, <1>9, HeardWhat DEF Interrupted, Occupied
  <2>2. CASE q = 1
    <3>1. FirstAnswer => ~NoPrompt
      BY <1>3, <1>9, <2>2 DEF Interrupted
    <3>2. QED
      BY <1>9, <2>1, <3>1, SaysStray DEF Stray
  <2>3. CASE q # 1
    <3>1. q - 1 \in 1..Len(toAdapter') /\ toAdapter'[q - 1] = toAdapter[q]
      BY <1>2, <1>9, <2>3 DEF Interrupted, Consumed
    <3>2. Prompts' \in Nat /\ Prompts' <= Prompts + 2
      <4>1. CASE Answers("stopped")
        <5>1. "stopped" # Prompt /\ Hears(2)
          BY <4>1 DEF Prompt, Answers
        <5>2. Prompts' = Prompts + 1
          BY <4>1, <5>1, HearsRank
        <5>3. QED
          BY <1>2, <5>2
      <4>2. CASE /\ Hears(4) /\ unread'[Len(unread) + 1] = "stopped" /\ unread'[Len(unread) + 2] = Prompt
                 /\ unread'[Len(unread) + 3] = "error" /\ unread'[Len(unread) + 4] = Prompt
        <5>1. unread'[Len(unread) + 1] # Prompt /\ unread'[Len(unread) + 3] # Prompt
          BY <4>2 DEF Prompt
        <5>2. Prompts' = Prompts + 2
          BY <4>2, <5>1, HearsRank
        <5>3. QED
          BY <1>2, <5>2
      <4>3. QED
        BY <1>9, <4>1, <4>2 DEF Interrupted
    <3>3. Prompts' + Occupied' + (q - 1) <= n
      <4>1. Prompts + 1 + q <= n /\ q \in Nat
        BY <1>2, <1>3, <2>1
      <4>2. Occupied' = 0
        BY <2>1
      <4>3. Prompts' <= Prompts + 2 /\ Prompts' \in Nat /\ Prompts \in Nat
        BY <1>2, <3>2
      <4>4. \A a, b \in Nat : a <= b + 2 /\ b + 1 + q <= n => a + 0 + (q - 1) <= n
        BY <4>1
      <4>5. QED
        BY <4>1, <4>2, <4>3, <4>4
    <3>4. StrayQueued(n)'
      BY <1>3, <2>1, <3>1, <3>3 DEF StrayQueued
    <3>5. QED
      BY <3>4 DEF Stray
  <2>4. QED
    BY <2>2, <2>3
<1>10. QED
  BY <1>1, <1>5, <1>6, <1>7, <1>8, <1>9

LEMMA StrayAdapter ==
    ASSUME TypeOK, Adapter, NEW n \in Nat, Stray(n),
           NoReturn
    PROVE  Stray(n)'
<1>1. SameHost /\ (Skips \/ Takes \/ Watches \/ Executes \/ Declines \/ Interrupted \/ Emits)
  BY AdapterHow
<1>2. CASE StrayRead(n)
  <2>1. PICK m \in Nat : Hears(m)
    BY <1>1 DEF Skips, Takes, Watches, Executes, Declines, Interrupted, Emits, Answers
  <2>2. QED
    BY <1>1, <1>2, <2>1, StrayReadHears DEF Stray
<1>3. CASE StrayBusy(n)
  <2>1. (Executes /\ adapter.cmd.name = "ATZ") \/ Declines
    BY <1>1, <1>3 DEF StrayBusy, Skips, Takes, Watches, Executes, Declines, Interrupted, Emits
  <2>2. QED
    BY <1>3, <2>1, SaysStray DEF StrayBusy, Stray
<1>4. CASE StrayQueued(n)
  BY <1>4, StrayQueuedAdapter
<1>5. QED
  BY <1>2, <1>3, <1>4 DEF Stray

(* The answer that comes when it is the only one under way. *)
OneAnswer ==
    Len(unread) > 0 /\ \A i \in 1..Len(unread) : unread[i] = Prompt <=> i = Len(unread)

LEMMA AnswerComes ==
    ASSUME TypeOK, NoPrompt, NEW t, Answers(t), t # Prompt
    PROVE  OneAnswer'
<1>1. Len(unread) \in Nat
  BY UnreadType
<1>2. /\ Len(unread') = Len(unread) + 2 /\ \A i \in 1..Len(unread) : unread'[i] = unread[i]
      /\ unread'[Len(unread) + 1] = t /\ unread'[Len(unread) + 2] = Prompt
  BY DEF Answers, Hears
<1>3. ASSUME NEW i \in 1..Len(unread') PROVE unread'[i] = Prompt <=> i = Len(unread')
  <2>1. i \in 1..Len(unread) \/ i = Len(unread) + 1 \/ i = Len(unread) + 2
    BY <1>1, <1>2
  <2>2. CASE i \in 1..Len(unread)
    BY <1>1, <1>2, <2>2 DEF NoPrompt
  <2>3. QED
    BY <1>1, <1>2, <2>1, <2>2
<1>4. QED
  BY <1>1, <1>2, <1>3 DEF OneAnswer

(* A command that was refused is not accepted, or nothing follows from it. *)
LEMMA Refused ==
    ASSUME TypeOK, OkInv, pc = "answer", acc' = acc, NoPrompt, Answers("error"),
           NEW c, NEW a, Accepts(c.name, Heard')
    PROVE  Took(a, c)
<1>1. Len(unread) \in Nat
  BY UnreadType
<1>2. "ok" \notin acc
  BY <1>1 DEF OkInv, NoPrompt
<1>3. ASSUME NEW i \in 1..Len(unread) PROVE unread[i] # "ok"
  <2>1. i + 1 \in 1..Len(unread) => unread[i + 1] # Prompt
    BY DEF NoPrompt
  <2>2. QED
    BY <1>1, <2>1 DEF OkInv
<1>4. /\ Len(unread') = Len(unread) + 2 /\ \A i \in 1..Len(unread) : unread'[i] = unread[i]
      /\ unread'[Len(unread) + 1] = "error" /\ unread'[Len(unread) + 2] = Prompt
  BY DEF Answers, Hears
<1>5. \A i \in 1..Len(unread') : unread'[i] # "ok"
  <2>1. \A i \in 1..Len(unread') : i \in 1..Len(unread) \/ i = Len(unread) + 1 \/ i = Len(unread) + 2
    BY <1>1, <1>4
  <2>2. QED
    BY <1>3, <1>4, <2>1 DEF Prompt
<1>6. Len(unread) + 1 \in 1..Len(unread')
  BY <1>1, <1>4
<1>7. "ok" \notin Heard' /\ "error" \in Heard'
  BY <1>2, <1>4, <1>5, <1>6 DEF Heard
<1>8. c.name \in {"ATZ", "Request"}
  BY <1>7 DEF Accepts
<1>9. QED
  BY <1>8, SettingNames DEF Took

LEMMA AskedAdapter ==
    ASSUME TypeOK, OkInv, Adapter, pc = "answer", NEW c \in Commands,
           c.name \notin {"CR", "Monitor"}, Asked(c)
    PROVE  Asked(c)' \/ AnsweredTo(c)'
<1>1. SameHost /\ (Skips \/ Takes \/ Watches \/ Executes \/ Declines \/ Interrupted \/ Emits)
  BY AdapterHow
<1>2. CASE Len(toAdapter) = 1 /\ toAdapter[1] = c /\ adapter.at = "prompt"
  <2>1. Takes
    BY <1>1, <1>2 DEF Skips, Takes, Watches, Executes, Declines, Interrupted, Emits
  <2>2. NoPrompt'
    BY <2>1, HeardWhat DEF Asked
  <2>3. Len(toAdapter') = 0 /\ adapter'.at = "busy" /\ adapter'.cmd = c
    BY <1>2, <2>1 DEF Takes, Consumed
  <2>4. QED
    BY <2>2, <2>3 DEF Asked
<1>3. CASE Len(toAdapter) = 0 /\ adapter.at = "busy" /\ adapter.cmd = c
  <2>1. Executes \/ Declines
    BY <1>1, <1>3 DEF Skips, Takes, Watches, Executes, Declines, Interrupted, Emits, Consumed
  <2>2. Len(toAdapter') = 0 /\ adapter'.at = "prompt"
    BY <1>3, <2>1 DEF Executes, Declines
  <2>3. OneAnswer'
    <3>1. \E t : Answers(t) /\ t # Prompt
      BY <1>3, <2>1, AnswersAreTexts DEF Executes, Declines, Prompt
    <3>2. QED
      BY <3>1, AnswerComes DEF Asked
  <2>4. ASSUME Accepts(c.name, Heard') PROVE Took(adapter, c)'
    <3>1. driver' = driver /\ acc' = acc
      BY <1>1 DEF SameHost
    <3>2. CASE Executes
      <4>1. adapter \in Adapters
        BY DEF TypeOK
      <4>2. Took(Effect(adapter, c), c)
        BY <4>1, EffectTook
      <4>3. SetUpOf(Effect(adapter, c), adapter')
        BY <1>3, <3>2 DEF Executes
      <4>4. Took(adapter', c)
        BY <4>2, <4>3, TookSetUp
      <4>5. QED
        BY <3>1, <4>4, TookNext
    <3>3. CASE Declines
      <4>1. Took(adapter', c)
        BY <2>4, <3>1, <3>3, Refused DEF Declines, Asked
      <4>2. QED
        BY <3>1, <4>1, TookNext
    <3>4. QED
      BY <2>1, <3>2, <3>3
  <2>5. AnsweredTo(c)'
    BY <2>2, <2>3, <2>4 DEF AnsweredTo, OneAnswer
  <2>6. QED
    BY <2>5
<1>4. QED
  BY <1>2, <1>3 DEF Asked

(* A reset interrupts the adapter at its monitoring: the next answer is    *)
(* the one to the interruption, and any will do.                           *)
LEMMA WatcherAdapter ==
    ASSUME TypeOK, Adapter, NEW c \in Commands, AskedWatcher(c), NEW n \in Nat, n >= 2
    PROVE  AskedWatcher(c)' \/ AnsweredTo(c)' \/ Stray(n)'
<1>1. SameHost /\ (Skips \/ Takes \/ Watches \/ Executes \/ Declines \/ Interrupted \/ Emits)
  BY AdapterHow
<1>2. c.name = "ATZ" /\ NoPrompt /\ Prompts = 0 /\ Len(unread) \in Nat
  BY CountFacts, UnreadType DEF AskedWatcher
<1>3. CASE Len(toAdapter) = 2 /\ toAdapter[1].name = "Monitor" /\ toAdapter[2] = c
             /\ adapter.at = "prompt"
  <2>1. Takes
    BY <1>1, <1>3 DEF Skips, Takes, Watches, Executes, Declines, Interrupted, Emits
  <2>2. NoPrompt'
    BY <1>2, <2>1, HeardWhat
  <2>3. Len(toAdapter') = 1 /\ toAdapter'[1] = c /\ Monitoring'
    BY <1>3, <2>1 DEF Takes, Consumed, Monitoring
  <2>4. QED
    BY <1>2, <2>2, <2>3 DEF AskedWatcher
<1>4. CASE Len(toAdapter) = 1 /\ toAdapter[1] = c /\ Monitoring
  <2>1. Watches \/ Declines \/ Interrupted \/ Emits
    BY <1>1, <1>4 DEF Monitoring, Skips, Takes, Watches, Executes, Declines, Interrupted, Emits
  <2>2. CASE Watches \/ Emits
    <3>1. NoPrompt'
      BY <1>2, <2>2, HeardWhat
    <3>2. toAdapter' = toAdapter /\ Monitoring'
      BY <2>2 DEF Watches, Emits, Monitoring
    <3>3. QED
      BY <1>2, <1>4, <3>1, <3>2 DEF AskedWatcher
  <2>3. CASE Declines
    <3>1. toAdapter' = toAdapter /\ Occupied' = 0 /\ ~NoPrompt' /\ "error" # Prompt
      BY <2>3, HeardWhat DEF Declines, Occupied, Prompt
    <3>2. Prompts' = 1
      BY <1>2, <2>3, <3>1, HearsRank DEF Declines, Answers
    <3>3. 1 \in 1..Len(toAdapter') /\ toAdapter'[1].name = "ATZ" /\ Prompts' + Occupied' + 1 <= n
      BY <1>2, <1>4, <3>1, <3>2
    <3>4. StrayQueued(n)'
      BY <3>1, <3>3 DEF StrayQueued
    <3>5. QED
      BY <3>4 DEF Stray
  <2>4. CASE Interrupted
    <3>1. Len(toAdapter') = 0 /\ adapter'.at = "prompt"
      BY <1>4, <2>4 DEF Interrupted, Consumed
    <3>2. CASE Answers("stopped")
      <4>1. OneAnswer'
        <5>1. "stopped" # Prompt
          BY DEF Prompt
        <5>2. QED
          BY <1>2, <3>2, <5>1, AnswerComes
      <4>2. Took(adapter, c)'
        BY <1>2, SettingNames DEF Took
      <4>3. AnsweredTo(c)'
        BY <3>1, <4>1, <4>2 DEF AnsweredTo, OneAnswer
      <4>4. QED
        BY <4>3
    <3>3. CASE /\ Hears(4) /\ unread'[Len(unread) + 1] = "stopped" /\ unread'[Len(unread) + 2] = Prompt
               /\ unread'[Len(unread) + 3] = "error" /\ unread'[Len(unread) + 4] = Prompt
      <4>1. PICK i \in Nat : i = Len(unread) + 4
        BY <1>2
      <4>2. i \in 1..Len(unread') /\ i # 1 /\ i - 1 = Len(unread) + 3
        BY <1>2, <3>3, <4>1 DEF Hears
      <4>3. Bare(i)'
        BY <3>3, <4>1, <4>2 DEF Bare
      <4>4. unread'[Len(unread) + 1] # Prompt /\ unread'[Len(unread) + 3] # Prompt
        BY <3>3 DEF Prompt
      <4>5. Rank(unread', i) = 2
        BY <1>2, <3>3, <4>1, <4>4, HearsRank
      <4>6. Len(unread) + 2 \in 1..(i - 1) /\ unread'[Len(unread) + 2] = Prompt
        BY <1>2, <3>3, <4>1
      <4>7. StrayRead(n)'
        BY <4>2, <4>3, <4>5, <4>6 DEF StrayRead
      <4>8. QED
        BY <4>7 DEF Stray
    <3>4. QED
      BY <2>4, <3>2, <3>3 DEF Interrupted
  <2>5. QED
    BY <2>1, <2>2, <2>3, <2>4
<1>5. QED
  BY <1>3, <1>4 DEF AskedWatcher

LEMMA AlignedAdapter ==
    ASSUME TypeOK, OkInv, Adapter, pc = "answer", NEW c \in Commands,
           c.name \notin {"CR", "Monitor"}, Aligned(c), NEW n \in Nat, n >= 2
    PROVE  Aligned(c)' \/ (c.name = "ATZ" /\ Stray(n)')
<1>1. ~AnsweredTo(c)
  BY NothingToDo DEF AnsweredTo
<1>2. CASE Asked(c)
  BY <1>2, AskedAdapter DEF Aligned
<1>3. CASE AskedWatcher(c)
  BY <1>3, WatcherAdapter DEF Aligned, AskedWatcher
<1>4. QED
  BY <1>1, <1>2, <1>3 DEF Aligned

(* What is established stays so, whatever the adapter does but a command.  *)
LEMMA EstablishedStays ==
    ASSUME driver' = driver, NEW n \in Nat, Established(n), SameSetUp \/ adapter' = adapter
    PROVE  Established(n)'
<1>1. Session' = Session
  BY SameSession
<1>2. ASSUME NEW i \in 1..n PROVE Took(adapter, Session[i])'
  <2>1. Took(adapter, Session[i])
    BY DEF Established
  <2>2. Took(adapter', Session[i])
    BY <2>1, TookSetUp DEF SameSetUp
  <2>3. QED
    BY <1>1, <2>2, TookNext
<1>3. QED
  BY <1>2 DEF Established

LEMMA SameUnless ==
    ASSUME TypeOK, Adapter, ~Executes
    PROVE  SameSetUp \/ adapter' = adapter
BY AdapterHow DEF Skips, Takes, Watches, Declines, Interrupted, Emits

-----------------------------------------------------------------------------
(* The parts of the invariant that say where the conversation is, and a    *)
(* step of the adapter.                                                    *)

LEMMA StrayLeft ==
    ASSUME TypeOK, Stray(Left), Polling' = Polling, Adapter, QueueInv,
           pc \in {"command", "answer"}, ~leaving
    PROVE  Stray(Left)'
<1>1. Left \in Int
  <2>1. driver \in Drivers
    BY DEF TypeOK
  <2>2. Len(plan) \in Nat /\ Len(Polling) \in Nat
    BY <2>1, Sizes, SessionIs DEF Sized
  <2>3. QED
    BY <2>2 DEF Left
<1>2. PICK n \in Int : n = Left
  BY <1>1
<1>3. n >= 1 /\ Stray(n)
  BY <1>2, StrayNone
<1>4. NoReturn
  BY DEF NoReturn, QueueInv
<1>5. Stray(n)'
  BY <1>3, <1>4, StrayAdapter
<1>6. Left' = n
  BY <1>2, AdapterHow DEF Left, SameHost
<1>7. QED
  BY <1>5, <1>6

LEMMA SessionAdapter ==
    ASSUME TypeOK, PlanInv, OkInv, QueueInv, SessionInv, Adapter
    PROVE  SessionInv'
<1>1. SameHost
  BY AdapterHow
<1>2. /\ driver' = driver /\ pc' = pc /\ plan' = plan /\ leaving' = leaving
      /\ Session' = Session /\ Polling' = Polling
  BY <1>1, SameSession DEF SameHost
<1>3. Quiet => FALSE
  BY NothingToDo DEF Quiet
<1>4. ASSUME pc = "command", ~leaving, plan[1].name # "ATZ"
      PROVE  Stray(Left)'
  <2>1. Stray(Left)
    BY <1>3, <1>4 DEF SessionInv
  <2>2. QED
    BY <1>2, <1>4, <2>1, StrayLeft
<1>5. ASSUME pc = "answer", ~leaving
      PROVE  Stray(Left)' \/ (Aligned(plan[1])' /\ Established(Done)')
  <2>1. CASE Stray(Left)
    BY <1>2, <1>5, <2>1, StrayLeft
  <2>2. CASE Aligned(plan[1]) /\ Established(Done)
    <3>1. PICK c \in Commands : c = plan[1]
      BY <1>5, CurrentIs
    <3>2. /\ Done \in Nat /\ Done + 1 \in 1..Len(Session) /\ c = Session[Done + 1]
          /\ (c.name = "ATZ" <=> Done = 0) /\ driver \in Drivers
          /\ Len(Session) = Len(Configuration) + Len(Polling) /\ Len(Session) = Done + Len(plan)
          /\ Left = Len(plan) - Len(Polling) /\ Len(Configuration) >= 9
          /\ Len(plan) \in Nat /\ Len(Polling) \in Nat /\ Len(Configuration) \in Nat
      BY <1>5, <3>1, CurrentIs
    <3>3. PICK d \in Nat : d = Done
      BY <3>2
    <3>4. c.name \notin {"CR", "Monitor"}
      BY <1>5, <3>1, <3>2, SessionNames DEF PlanInv
    <3>5. PICK n \in Nat : n >= 2 /\ (c.name = "ATZ" => n = Left)
      <4>1. CASE c.name = "ATZ"
        <5>1. Left = Len(Configuration)
          BY <3>2, <4>1
        <5>2. Left \in Nat /\ Left >= 2
          BY <3>2, <5>1
        <5>3. QED
          BY <5>2
      <4>2. QED
        BY <4>1
    <3>6. Aligned(c)' \/ (c.name = "ATZ" /\ Stray(n)')
      BY <1>5, <2>2, <3>1, <3>4, <3>5, AlignedAdapter
    <3>7. Left' = Left /\ plan'[1] = c /\ Done' = Done
      BY <1>2, <3>1 DEF Left, Done
    <3>8. Established(d)'
      <4>1. CASE ~Executes
        BY <1>2, <2>2, <3>3, <4>1, SameUnless, EstablishedStays
      <4>2. CASE Executes
        <5>1. adapter.cmd = c
          <6>1. ~AskedWatcher(c) /\ ~AnsweredTo(c)
            BY <4>2, NothingToDo DEF AskedWatcher, Monitoring, AnsweredTo, Executes
          <6>2. QED
            BY <2>2, <3>1, <4>2, <6>1 DEF Aligned, Asked, Executes
        <5>2. ASSUME NEW i \in 1..d PROVE Took(adapter, Session[i])'
          <6>1. i \in 1..Len(Session) /\ i < d + 1 /\ d + 1 \in 1..Len(Session) /\ c = Session[d + 1]
            BY <3>2, <3>3
          <6>2. Took(adapter, Session[i])
            BY <2>2, <3>3 DEF Established
          <6>3. adapter \in Adapters
            BY DEF TypeOK
          <6>4. Took(Effect(adapter, c), Session[i])
            BY <3>2, <3>4, <6>1, <6>2, <6>3, EffectKeeps
          <6>5. SetUpOf(Effect(adapter, c), adapter')
            BY <4>2, <5>1 DEF Executes
          <6>6. Took(adapter', Session[i])
            BY <6>4, <6>5, TookSetUp
          <6>7. QED
            BY <1>2, <6>6, TookNext
        <5>3. QED
          BY <5>2 DEF Established
      <4>3. QED
        BY <4>1, <4>2
    <3>9. CASE Aligned(c)'
      BY <3>3, <3>7, <3>8, <3>9
    <3>10. CASE c.name = "ATZ" /\ Stray(n)'
      BY <3>5, <3>7, <3>10
    <3>11. QED
      BY <3>6, <3>9, <3>10
  <2>3. QED
    BY <1>5, <2>1, <2>2 DEF SessionInv
<1>6. ASSUME pc = "tick", ~leaving PROVE FALSE
  BY <1>3, <1>6 DEF SessionInv
<1>7. ASSUME pc \in {"stream", "drain"}, ~leaving PROVE Watched' /\ Established(Len(Session))'
  <2>1. Watched /\ Established(Len(Session))
    BY <1>7 DEF SessionInv
  <2>2. PICK n \in Nat : n = Len(Session)
    <3>1. driver \in Drivers
      BY DEF TypeOK
    <3>2. QED
      BY <3>1, SessionIs
  <2>3. Watched' /\ ~Executes
    BY <2>1, WatchedAdapter
  <2>4. Established(n)'
    BY <1>2, <2>1, <2>2, <2>3, SameUnless, EstablishedStays
  <2>5. QED
    BY <1>2, <2>2, <2>3, <2>4
<1>8. QED
  BY <1>2, <1>4, <1>5, <1>6, <1>7 DEF SessionInv

LEMMA ClearAdapter ==
    ASSUME TypeOK, Adapter, ClearQueued \/ ClearTaken \/ ClearDone
    PROVE  ClearQueued' \/ ClearTaken' \/ ClearDone'
<1>1. SameHost /\ (Skips \/ Takes \/ Watches \/ Executes \/ Declines \/ Interrupted \/ Emits)
  BY AdapterHow
<1>2. Len(toAdapter) \in Nat /\ Len(unread) \in Nat /\ acc' = acc
  BY <1>1, Sizes DEF Sized, SameHost
<1>3. CASE ClearQueued
  <2>1. PICK n \in Nat : n + 1 = Len(toAdapter)
    <3>1. Len(toAdapter) - 1 \in Nat /\ (Len(toAdapter) - 1) + 1 = Len(toAdapter)
      BY <1>2, <1>3 DEF ClearQueued
    <3>2. QED
      BY <3>1
  <2>2. Watching(n) /\ toAdapter[n + 1] = Cmd("STPPMC", {}) /\ "ok" \notin acc
    <3>1. Len(toAdapter) - 1 = n
      BY <1>2, <2>1
    <3>2. QED
      BY <1>3, <2>1, <3>1 DEF ClearQueued
  <2>3. CASE Consumed /\ n = 0
    <3>1. Len(toAdapter') = 0 /\ toAdapter[1] = Cmd("STPPMC", {}) /\ toAdapter[1].name # "CR"
      BY <2>1, <2>2, <2>3 DEF Consumed, Cmd
    <3>2. Takes \/ Interrupted
      <4>1. toAdapter' # toAdapter
        BY <1>2, <2>3 DEF Consumed
      <4>2. QED
        BY <1>1, <3>1, <4>1 DEF Skips, Watches, Executes, Declines, Emits
    <3>3. NoOk'
      BY <2>2, <3>2, HeardWhat DEF Watching, Takes, Interrupted, Executes
    <3>4. ClearTaken'
      BY <1>2, <2>2, <3>1, <3>2, <3>3 DEF ClearTaken, Takes, Interrupted
    <3>5. QED
      BY <3>4
  <2>4. CASE Consumed /\ n # 0
    <3>1. Watching(n - 1)'
      BY <2>1, <2>2, <2>4, WatchingAdapter
    <3>2. Len(toAdapter') = n /\ n \in 1..n /\ toAdapter'[n] = toAdapter[n + 1]
      BY <2>1, <2>4 DEF Consumed
    <3>3. ClearQueued'
      BY <1>2, <2>2, <2>4, <3>1, <3>2 DEF ClearQueued
    <3>4. QED
      BY <3>3
  <2>5. CASE toAdapter' = toAdapter
    <3>1. ~Consumed
      BY <1>2, <2>5 DEF Consumed
    <3>2. Watching(n)'
      BY <2>1, <2>2, <2>5, <3>1, WatchingAdapter
    <3>3. Len(toAdapter') = n + 1 /\ Len(toAdapter') - 1 = n /\ toAdapter'[n + 1] = Cmd("STPPMC", {})
      BY <2>1, <2>2, <2>5
    <3>4. ClearQueued'
      BY <1>2, <2>2, <3>2, <3>3 DEF ClearQueued
    <3>5. QED
      BY <3>4
  <2>6. QED
    BY <2>3, <2>4, <2>5, QueueHow
<1>4. CASE ClearTaken
  <2>1. adapter.at = "busy" /\ adapter.cmd = Cmd("STPPMC", {}) /\ Len(toAdapter) = 0
    BY <1>4, NothingToDo DEF ClearTaken
  <2>2. Cmd("STPPMC", {}).name = "STPPMC"
    BY DEF Cmd
  <2>3. Executes \/ Declines
    BY <1>1, <2>1, <2>2 DEF Skips, Takes, Watches, Interrupted, Emits
  <2>4. Len(toAdapter') = 0 /\ adapter'.at = "prompt"
    BY <2>1, <2>3 DEF Executes, Declines
  <2>5. CASE ~Executes
    <3>1. NoOk'
      BY <1>4, <2>5, HeardWhat DEF ClearTaken
    <3>2. ClearTaken'
      BY <1>2, <1>4, <2>4, <3>1 DEF ClearTaken
    <3>3. QED
      BY <3>2
  <2>6. CASE Executes
    <3>1. Answers("ok")
      BY <2>1, <2>2, <2>6 DEF Executes, AnswerTexts
    <3>2. /\ Len(unread') = Len(unread) + 2 /\ \A i \in 1..Len(unread) : unread'[i] = unread[i]
          /\ unread'[Len(unread) + 2] = Prompt
      BY <3>1 DEF Answers, Hears
    <3>3. \A i \in 1..Len(unread') : unread'[i] = "ok" => i = Len(unread') - 1
      <4>1. \A i \in 1..Len(unread') : i \in 1..Len(unread) \/ i = Len(unread) + 1 \/ i = Len(unread) + 2
        BY <1>2, <3>2
      <4>2. \A i \in 1..Len(unread) : unread[i] # "ok"
        BY <1>4 DEF ClearTaken, NoOk
      <4>3. Prompt # "ok"
        BY DEF Prompt
      <4>4. QED
        BY <1>2, <3>2, <4>1, <4>2, <4>3
    <3>4. adapter'.periodic = {}
      <4>1. adapter \in Adapters /\ Cmd("STPPMC", {}) \in Commands
        BY DEF TypeOK, Commands, Cmd
      <4>2. Effect(adapter, adapter.cmd).periodic = {}
        BY <2>1, <2>2, <4>1, EffectIs
      <4>3. QED
        BY <2>6, <4>2 DEF Executes, SetUpOf
    <3>5. Len(unread') > 0 /\ unread'[Len(unread')] = Prompt
      BY <1>2, <3>2
    <3>6. ClearDone'
      BY <1>2, <1>4, <2>4, <3>3, <3>4, <3>5 DEF ClearDone, ClearTaken
    <3>7. QED
      BY <3>6
  <2>7. QED
    BY <2>3, <2>5, <2>6
<1>5. CASE ClearDone
  BY <1>5, NothingToDo DEF ClearDone
<1>6. QED
  BY <1>3, <1>4, <1>5

LEMMA LeavingAdapter ==
    ASSUME TypeOK, PlanInv, OkInv, LeavingInv, Adapter
    PROVE  LeavingInv'
<1>1. SameHost /\ pc' = pc /\ plan' = plan /\ leaving' = leaving
  BY AdapterHow DEF SameHost
<1>2. ASSUME leaving, plan[1].name = "STPPMC", pc = "command" PROVE Watching(Len(toAdapter))'
  BY <1>2, WatchingAllAdapter DEF LeavingInv
<1>3. ASSUME leaving, plan[1].name = "STPPMC", pc = "answer"
      PROVE  ClearQueued' \/ ClearTaken' \/ ClearDone'
  BY <1>3, ClearAdapter DEF LeavingInv
<1>4. ASSUME leaving, plan[1].name = "STCMM0"
      PROVE  adapter'.periodic = {} /\ pc = "answer" /\ Aligned(plan[1])'
  <2>1. pc = "answer" /\ Aligned(plan[1]) /\ adapter.periodic = {}
    BY <1>4, NothingToDo DEF LeavingInv, PlanInv, Quiet
  <2>2. PICK c \in Commands : c = plan[1]
    BY <2>1, Sizes DEF Sized
  <2>3. Aligned(c)'
    <3>1. c.name \notin {"CR", "Monitor", "ATZ"}
      BY <1>4, <2>2
    <3>2. 2 \in Nat /\ 2 >= 2
      OBVIOUS
    <3>3. QED
      BY <2>1, <2>2, <3>1, <3>2, AlignedAdapter
  <2>4. adapter'.periodic = {}
    <3>1. CASE ~Executes
      BY <2>1, <3>1, SameUnless DEF SameSetUp, SetUpOf
    <3>2. CASE Executes
      <4>1. adapter.cmd = c
        BY <1>4, <2>1, <2>2, <3>2, NothingToDo DEF Aligned, Asked, AskedWatcher, AnsweredTo, Executes
      <4>2. adapter \in Adapters
        BY DEF TypeOK
      <4>3. Effect(adapter, c).periodic = {}
        BY <1>4, <2>1, <2>2, <4>2, EffectIs
      <4>4. QED
        BY <3>2, <4>1, <4>3 DEF Executes, SetUpOf
    <3>3. QED
      BY <3>1, <3>2
  <2>5. QED
    BY <1>1, <2>1, <2>2, <2>3, <2>4
<1>5. QED
  BY <1>1, <1>2, <1>3, <1>4 DEF LeavingInv

LEMMA OutcomeAdapter ==
    ASSUME TypeOK, OutcomeInv, Adapter
    PROVE  OutcomeInv'
<1>1. outcome' = outcome /\ pc' = pc /\ leaving' = leaving
  BY AdapterHow DEF SameHost
<1>2. outcome # "silenced"
  BY NothingToDo DEF OutcomeInv
<1>3. outcome = "drained" => NoMonitor'
  BY NoMonitorAdapter DEF OutcomeInv
<1>4. QED
  BY <1>1, <1>2, <1>3 DEF OutcomeInv

-----------------------------------------------------------------------------
(* The same, and what the host reads.                                      *)

LEMMA StrayNoneNext ==
    ASSUME NEW n \in Int, n < 1, Len(unread') \in Nat, Len(toAdapter') \in Nat, Prompts' \in Nat
    PROVE  ~Stray(n)'
<1>1. ~StrayRead(n)'
  <2> SUFFICES ASSUME NEW i \in 1..Len(unread'), unread'[i] = Prompt, Rank(unread', i) <= n
               PROVE  FALSE
    BY DEF StrayRead, Bare
  <2>1. i \in Nat /\ i \in 1..i
    OBVIOUS
  <2>2. Rank(unread', i) # 0 /\ Rank(unread', i) \in Nat
    BY <2>1, RankNone, RankType
  <2>3. QED
    BY <2>2
<1>2. ~StrayBusy(n)'
  <2>1. PICK p \in Nat : p = Prompts'
    OBVIOUS
  <2>2. ~(p + 1 <= n)
    OBVIOUS
  <2>3. QED
    BY <2>1, <2>2 DEF StrayBusy
<1>3. ~StrayQueued(n)'
  <2> SUFFICES ASSUME NEW q \in 1..Len(toAdapter'), Prompts' + Occupied' + q <= n
               PROVE  FALSE
    BY DEF StrayQueued
  <2>1. PICK p \in Nat : p = Prompts'
    OBVIOUS
  <2>2. PICK o \in Nat : o = Occupied'
    BY DEF Occupied
  <2>3. p + o + q <= n
    BY <2>1, <2>2
  <2>4. QED
    BY <2>3
<1>4. QED
  BY <1>1, <1>2, <1>3 DEF Stray

(* Reading up to the first prompt, or less, reads no answer. *)
LEMMA CollectKeeps ==
    ASSUME TypeOK, NEW k \in 1..Len(unread), Collects(k)
    PROVE  /\ Prompts' = Prompts
           /\ NoPrompt' <=> NoPrompt
           /\ \A i \in 1..Len(unread) : unread[i] = Prompt =>
                /\ i > k /\ i - k \in 1..Len(unread') /\ unread'[i - k] = Prompt
                /\ Rank(unread', i - k) = Rank(unread, i)
<1>1. Len(unread) \in Nat /\ k \in Nat /\ k \in 0..Len(unread)
  BY UnreadType
<1>2. /\ Len(unread') = Len(unread) - k /\ \A i \in 1..Len(unread') : unread'[i] = unread[i + k]
      /\ \A i \in 1..k : unread[i] # Prompt
  BY DEF Collects, Drops
<1>3. Rank(unread, k) = 0
  BY <1>1, <1>2, RankNone
<1>4. /\ \A i \in 0..Len(unread') : Rank(unread, k + i) = Rank(unread, k) + Rank(unread', i)
      /\ Prompts = Rank(unread, k) + Prompts' /\ Prompts' \in Nat
  BY <1>1, DropsRank DEF Collects
<1>5. ASSUME NEW i \in 1..Len(unread), unread[i] = Prompt
      PROVE  /\ i > k /\ i - k \in 1..Len(unread') /\ unread'[i - k] = Prompt
             /\ Rank(unread', i - k) = Rank(unread, i)
  <2>1. i > k
    BY <1>1, <1>2, <1>5
  <2>2. i - k \in 1..Len(unread') /\ i - k \in 0..Len(unread') /\ (i - k) + k = i /\ k + (i - k) = i
        /\ i - k \in Nat
    BY <1>1, <1>2, <2>1
  <2>3. Rank(unread, i) = 0 + Rank(unread', i - k) /\ Rank(unread', i - k) \in Nat
    <3>1. Rank(unread, k + (i - k)) = Rank(unread, k) + Rank(unread', i - k)
      BY <1>4, <2>2
    <3>2. QED
      BY <1>3, <2>2, <3>1, RankType
  <2>4. unread'[i - k] = unread[(i - k) + k]
    BY <1>2, <2>2
  <2>5. QED
    BY <1>5, <2>1, <2>2, <2>3, <2>4
<1>6. Prompts' = Prompts
  <2>1. PICK p \in Nat : p = Prompts'
    BY <1>4
  <2>2. Prompts = Rank(unread, k) + p
    BY <1>4, <2>1
  <2>3. 0 + p = p
    OBVIOUS
  <2>4. Prompts = p
    BY <1>3, <2>2, <2>3
  <2>5. QED
    BY <2>1, <2>4
<1>7. NoPrompt' <=> NoPrompt
  <2>1. NoPrompt => NoPrompt'
    <3>1. Shortens
      BY <1>1, DropsShortens DEF Collects
    <3>2. QED
      BY <3>1, ShortensKeeps
  <2>2. ~NoPrompt => ~NoPrompt'
    BY <1>5 DEF NoPrompt
  <2>3. QED
    BY <2>1, <2>2
<1>8. QED
  BY <1>5, <1>6, <1>7

LEMMA CollectStray ==
    ASSUME TypeOK, OkInv, pc = "answer", Collect, NEW n, Stray(n)
    PROVE  Stray(n)'
<1>1. PICK k \in 1..Len(unread) : Collects(k)
  BY CollectHow
<1>2. /\ pc' = pc /\ plan' = plan /\ toAdapter' = toAdapter /\ adapter' = adapter
  BY CollectHow
<1>3. Len(unread) \in Nat
  BY UnreadType
<1>4. /\ Prompts' = Prompts
      /\ NoPrompt' <=> NoPrompt
      /\ \A i \in 1..Len(unread) : unread[i] = Prompt =>
           /\ i > k /\ i - k \in 1..Len(unread') /\ unread'[i - k] = Prompt
           /\ Rank(unread', i - k) = Rank(unread, i)
  BY <1>1, CollectKeeps
<1>5. FirstAnswer' <=> FirstAnswer
  BY <1>2 DEF FirstAnswer
<1>6. CASE StrayRead(n)
  <2>1. PICK i \in 1..Len(unread) :
          Bare(i) /\ Rank(unread, i) <= n /\ (FirstAnswer => \E j \in 1..(i - 1) : unread[j] = Prompt)
    BY <1>6 DEF StrayRead
  <2>2. unread[i] = Prompt
    BY <2>1 DEF Bare
  <2>3. i > k /\ i - k \in 1..Len(unread') /\ unread'[i - k] = Prompt
        /\ Rank(unread', i - k) = Rank(unread, i)
    BY <1>4, <2>2
  <2>4. /\ Len(unread') = Len(unread) - k /\ \A j \in 1..Len(unread') : unread'[j] = unread[j + k]
        /\ \A j \in 1..k : unread[j] # Prompt
        /\ acc' = acc \cup {unread[j] : j \in 1..k}
    BY <1>1 DEF Collects, Drops
  <2>5. i # 1 /\ unread[i - 1] # "ok"
    BY <1>3, <2>1, <2>3 DEF Bare
  <2>6. i - k = 1 => "ok" \notin acc'
    <3> SUFFICES ASSUME i - k = 1 PROVE "ok" \notin acc'
      OBVIOUS
    <3>1. \A j \in 1..(i - 1) : unread[j] # Prompt
      BY <1>3, <2>4
    <3>2. /\ "ok" \in acc => i = 1
          /\ \A j \in 1..(i - 1) : unread[j] = "ok" => j = i - 1
      BY <3>1, OkBeforePrompt
    <3>3. i - 1 = k
      BY <1>3
    <3>4. QED
      BY <2>4, <2>5, <3>2, <3>3
  <2>7. i - k # 1 => unread'[(i - k) - 1] # "ok"
    <3> SUFFICES ASSUME i - k # 1 PROVE unread'[(i - k) - 1] # "ok"
      OBVIOUS
    <3>1. (i - k) - 1 \in 1..Len(unread') /\ ((i - k) - 1) + k = i - 1
      BY <1>3, <2>3, <2>4
    <3>2. unread'[(i - k) - 1] = unread[i - 1]
      BY <2>4, <3>1
    <3>3. QED
      BY <2>5, <3>2
  <2>8. Bare(i - k)'
    BY <2>3, <2>6, <2>7 DEF Bare
  <2>9. FirstAnswer' => \E j \in 1..((i - k) - 1) : unread'[j] = Prompt
    <3>1. ASSUME NEW j \in 1..(i - 1), unread[j] = Prompt
          PROVE  j - k \in 1..((i - k) - 1) /\ unread'[j - k] = Prompt
      <4>1. j \in 1..Len(unread)
        BY <1>3
      <4>2. j > k /\ unread'[j - k] = Prompt
        BY <1>4, <3>1, <4>1
      <4>3. QED
        BY <1>3, <4>2
    <3>2. QED
      BY <1>5, <2>1, <3>1
  <2>10. StrayRead(n)'
    BY <2>1, <2>3, <2>8, <2>9 DEF StrayRead
  <2>11. QED
    BY <2>10 DEF Stray
<1>7. CASE StrayBusy(n)
  BY <1>2, <1>4, <1>5, <1>7 DEF StrayBusy, Stray
<1>8. CASE StrayQueued(n)
  <2>1. Occupied' = Occupied
    BY <1>2 DEF Occupied
  <2>2. QED
    BY <1>2, <1>4, <1>5, <1>8, <2>1 DEF StrayQueued, Stray
<1>9. QED
  BY <1>6, <1>7, <1>8 DEF Stray

LEMMA CollectAligned ==
    ASSUME TypeOK, pc = "answer", Collect, NEW c, Aligned(c)
    PROVE  Aligned(c)'
<1>1. PICK k \in 1..Len(unread) : Collects(k)
  BY CollectHow
<1>2. toAdapter' = toAdapter /\ adapter' = adapter /\ driver' = driver
  BY CollectHow
<1>3. Len(unread) \in Nat
  BY UnreadType
<1>4. /\ NoPrompt' <=> NoPrompt
      /\ \A i \in 1..Len(unread) : unread[i] = Prompt =>
           /\ i > k /\ i - k \in 1..Len(unread') /\ unread'[i - k] = Prompt
           /\ Rank(unread', i - k) = Rank(unread, i)
  BY <1>1, CollectKeeps
<1>5. CASE Asked(c)
  BY <1>2, <1>4, <1>5 DEF Asked, Aligned
<1>6. CASE AskedWatcher(c)
  <2>1. Monitoring' <=> Monitoring
    BY <1>2 DEF Monitoring
  <2>2. QED
    BY <1>2, <1>4, <1>6, <2>1 DEF AskedWatcher, Aligned
<1>7. CASE AnsweredTo(c)
  <2>1. /\ Len(unread') = Len(unread) - k /\ \A j \in 1..Len(unread') : unread'[j] = unread[j + k]
        /\ \A j \in 1..k : unread[j] # Prompt
        /\ acc' = acc \cup {unread[j] : j \in 1..k}
    BY <1>1 DEF Collects, Drops
  <2>2. Len(unread) \in 1..Len(unread) /\ unread[Len(unread)] = Prompt
    BY <1>3, <1>7 DEF AnsweredTo
  <2>3. k < Len(unread) /\ Len(unread') > 0
    BY <1>3, <2>1, <2>2
  <2>4. ASSUME NEW i \in 1..Len(unread') PROVE unread'[i] = Prompt <=> i = Len(unread')
    <3>1. i + k \in 1..Len(unread) /\ unread'[i] = unread[i + k]
      BY <1>3, <2>1
    <3>2. unread[i + k] = Prompt <=> i + k = Len(unread)
      BY <1>7, <3>1 DEF AnsweredTo
    <3>3. QED
      BY <1>3, <2>1, <3>1, <3>2
  <2>5. Heard' \subseteq Heard
    <3>1. \A i \in 1..Len(unread') : i + k \in 1..Len(unread)
      BY <1>3, <2>1
    <3>2. \A i \in 1..k : i \in 1..Len(unread)
      BY <1>3
    <3>3. QED
      BY <2>1, <3>1, <3>2 DEF Heard
  <2>6. Heard \subseteq Heard'
    <3>1. ASSUME NEW i \in 1..Len(unread) PROVE unread[i] \in Heard'
      <4>1. CASE i <= k
        <5>1. i \in 1..k
          BY <1>3, <4>1
        <5>2. QED
          BY <2>1, <5>1 DEF Heard
      <4>2. CASE i > k
        <5>1. i - k \in 1..Len(unread') /\ (i - k) + k = i
          BY <1>3, <2>1, <4>2
        <5>2. unread'[i - k] = unread[i]
          BY <2>1, <5>1
        <5>3. QED
          BY <5>1, <5>2 DEF Heard
      <4>3. QED
        BY <1>3, <4>1, <4>2
    <3>2. QED
      BY <2>1, <3>1 DEF Heard
  <2>7. Took(adapter, c)' <=> Took(adapter, c)
    BY <1>2, TookNext
  <2>8. AnsweredTo(c)'
    <3>1. Heard' = Heard
      BY <2>5, <2>6
    <3>2. Accepts(c.name, Heard') => Took(adapter, c)'
      BY <1>7, <2>7, <3>1 DEF AnsweredTo
    <3>3. Len(toAdapter') = 0 /\ adapter'.at = "prompt"
      BY <1>2, <1>7 DEF AnsweredTo
    <3>4. QED
      BY <2>3, <2>4, <3>2, <3>3 DEF AnsweredTo
  <2>9. QED
    BY <2>8 DEF Aligned
<1>8. QED
  BY <1>5, <1>6, <1>7 DEF Aligned

(* What the host takes for its answer: all it read up to the first prompt. *)
Answering(n) ==
    /\ pc = "answer" /\ Ends(n) /\ Drops(n) /\ pc' # "answer" /\ acc' = {}
    /\ toAdapter' = toAdapter /\ adapter' = adapter /\ driver' = driver
    /\ Accepts(plan[1].name, AnswerUpTo(n))

LEMMA AnsweringIs ==
    ASSUME TypeOK, NEW n, Answering(n)
    PROVE  /\ n \in 1..Len(unread) /\ unread[n] = Prompt /\ \A i \in 1..(n - 1) : unread[i] # Prompt
           /\ Len(unread') = Len(unread) - n /\ \A i \in 1..Len(unread') : unread'[i] = unread[i + n]
           /\ Prompts' \in Nat /\ Prompts = Prompts' + 1
           /\ \A i \in 1..Len(unread') : Rank(unread, i + n) = Rank(unread', i) + 1
<1>1. n \in 1..Len(unread) /\ unread[n] = Prompt /\ \A i \in 1..(n - 1) : unread[i] # Prompt
  BY DEF Answering, Ends, FirstPrompt
<1>2. Len(unread) \in Nat /\ n \in 0..Len(unread) /\ n \in Nat
  BY <1>1, UnreadType
<1>3. Rank(unread, n) = 1
  BY FirstPromptRank DEF Answering, Ends
<1>4. Len(unread') = Len(unread) - n /\ \A i \in 1..Len(unread') : unread'[i] = unread[i + n]
  BY DEF Answering, Drops
<1>5. /\ \A i \in 0..Len(unread') : Rank(unread, n + i) = Rank(unread, n) + Rank(unread', i)
      /\ Prompts = Rank(unread, n) + Prompts' /\ Prompts' \in Nat
  BY <1>2, DropsRank DEF Answering
<1>6. Prompts = Prompts' + 1
  <2>1. PICK p \in Nat : p = Prompts'
    BY <1>5
  <2>2. Prompts = 1 + p
    BY <1>3, <1>5, <2>1
  <2>3. 1 + p = p + 1
    OBVIOUS
  <2>4. QED
    BY <2>1, <2>2, <2>3
<1>7. ASSUME NEW i \in 1..Len(unread')
      PROVE  Rank(unread, i + n) = Rank(unread', i) + 1
  <2>1. i \in 0..Len(unread') /\ i + n = n + i /\ i \in Nat
    BY <1>2, <1>4
  <2>2. PICK r \in Nat : r = Rank(unread', i)
    BY <2>1, RankType
  <2>3. Rank(unread, n + i) = 1 + r
    BY <1>3, <1>5, <2>1, <2>2
  <2>4. 1 + r = r + 1
    OBVIOUS
  <2>5. QED
    BY <2>1, <2>2, <2>3, <2>4
<1>8. QED
  BY <1>1, <1>4, <1>5, <1>6, <1>7

(* A command that asks for an OK does not take another answer for it: one  *)
(* that is no OK is one nearer.                                            *)
LEMMA AnsweredStray ==
    ASSUME TypeOK, OkInv, NEW n, Answering(n), plan[1].name \notin {"Request", "STPPMA"},
           NEW m \in Int, Stray(m)
    PROVE  Stray(m - 1)'
<1>1. /\ n \in 1..Len(unread) /\ unread[n] = Prompt /\ \A i \in 1..(n - 1) : unread[i] # Prompt
      /\ Len(unread') = Len(unread) - n /\ \A i \in 1..Len(unread') : unread'[i] = unread[i + n]
      /\ Prompts' \in Nat /\ Prompts = Prompts' + 1
      /\ \A i \in 1..Len(unread') : Rank(unread, i + n) = Rank(unread', i) + 1
  BY AnsweringIs
<1>2. /\ pc = "answer" /\ pc' # "answer" /\ acc' = {}
      /\ toAdapter' = toAdapter /\ adapter' = adapter
      /\ Accepts(plan[1].name, AnswerUpTo(n))
  BY DEF Answering
<1>3. Len(unread) \in Nat
  BY UnreadType
<1>4. ~FirstAnswer'
  BY <1>2 DEF FirstAnswer
<1>5. CASE StrayRead(m)
  <2>1. PICK i \in 1..Len(unread) :
          Bare(i) /\ Rank(unread, i) <= m /\ (FirstAnswer => \E j \in 1..(i - 1) : unread[j] = Prompt)
    BY <1>5 DEF StrayRead
  <2>2. unread[i] = Prompt
    BY <2>1 DEF Bare
  <2>3. i >= n
    BY <1>1, <1>3, <2>2
  <2>4. i # n
    <3> SUFFICES ASSUME i = n PROVE FALSE
      OBVIOUS
    <3>1. plan[1].name # "ATZ"
      BY <1>1, <1>2, <2>1 DEF FirstAnswer
    <3>2. "ok" \in AnswerUpTo(n)
      BY <1>2, <3>1 DEF Accepts
    <3>3. /\ "ok" \in acc => n = 1
          /\ \A j \in 1..(n - 1) : unread[j] = "ok" => j = n - 1
      BY <1>1, <1>2, OkBeforePrompt
    <3>4. "ok" \notin acc
      BY <2>1, <3>3 DEF Bare
    <3>5. \A j \in 1..(n - 1) : unread[j] # "ok"
      BY <1>1, <1>3, <2>1, <3>3 DEF Bare
    <3>6. QED
      BY <3>2, <3>4, <3>5 DEF AnswerUpTo
  <2>5. PICK k \in 1..Len(unread') : k + n = i
    <3>1. i - n \in 1..Len(unread') /\ (i - n) + n = i
      BY <1>1, <1>3, <2>3, <2>4
    <3>2. QED
      BY <3>1
  <2>6. Rank(unread', k) <= m - 1
    <3>1. PICK r \in Nat : r = Rank(unread', k)
      <4>1. k \in Nat
        BY <1>1, <1>3
      <4>2. QED
        BY <4>1, RankType
    <3>2. r + 1 <= m
      BY <1>1, <2>1, <2>5, <3>1
    <3>3. r <= m - 1
      BY <3>2
    <3>4. QED
      BY <3>1, <3>3
  <2>7. k # 1 => unread'[k - 1] # "ok"
    <3> SUFFICES ASSUME k # 1 PROVE unread'[k - 1] # "ok"
      OBVIOUS
    <3>1. k - 1 \in 1..Len(unread') /\ (k - 1) + n = i - 1 /\ i # 1
      BY <1>1, <1>3, <2>5
    <3>2. unread'[k - 1] = unread[i - 1]
      BY <1>1, <3>1
    <3>3. QED
      BY <2>1, <3>1, <3>2 DEF Bare
  <2>8. Bare(k)'
    BY <1>1, <1>2, <2>2, <2>5, <2>7 DEF Bare
  <2>9. StrayRead(m - 1)'
    BY <1>4, <2>6, <2>8 DEF StrayRead
  <2>10. QED
    BY <2>9 DEF Stray
<1>6. PICK p \in Nat : p = Prompts' /\ Prompts = p + 1
  BY <1>1
<1>7. CASE StrayBusy(m)
  <2>1. p + 1 <= m - 1
    <3>1. Prompts + 1 <= m
      BY <1>7 DEF StrayBusy
    <3>2. (p + 1) + 1 <= m
      BY <1>6, <3>1
    <3>3. QED
      BY <3>2
  <2>2. StrayBusy(m - 1)'
    BY <1>2, <1>4, <1>6, <1>7, <2>1 DEF StrayBusy
  <2>3. QED
    BY <2>2 DEF Stray
<1>8. CASE StrayQueued(m)
  <2>1. PICK q \in 1..Len(toAdapter) : toAdapter[q].name = "ATZ" /\ Prompts + Occupied + q <= m
    BY <1>8 DEF StrayQueued
  <2>2. PICK o \in Nat : o = Occupied /\ o = Occupied'
    BY <1>2 DEF Occupied
  <2>3. (p + 1) + o + q <= m /\ q \in Nat
    <3>1. Len(toAdapter) \in Nat
      BY Sizes DEF Sized
    <3>2. q \in Nat
      BY <3>1
    <3>3. QED
      BY <1>6, <2>1, <2>2, <3>2
  <2>4. p + o + q <= m - 1
    BY <2>3
  <2>5. StrayQueued(m - 1)'
    BY <1>2, <1>4, <1>6, <2>1, <2>2, <2>4 DEF StrayQueued
  <2>6. QED
    BY <2>5 DEF Stray
<1>9. QED
  BY <1>5, <1>7, <1>8 DEF Stray

(* An accepted answer is the answer to its own command. *)
LEMMA AcceptedTook ==
    ASSUME TypeOK, NEW n, FirstPrompt(n), NEW c, Aligned(c), Accepts(c.name, AnswerUpTo(n))
    PROVE  AnsweredTo(c) /\ n = Len(unread) /\ Took(adapter, c)
<1>1. n \in 1..Len(unread) /\ unread[n] = Prompt /\ \A i \in 1..(n - 1) : unread[i] # Prompt
  BY DEF FirstPrompt
<1>2. Len(unread) \in Nat
  BY UnreadType
<1>3. AnsweredTo(c)
  BY <1>1 DEF Aligned, Asked, AskedWatcher, NoPrompt
<1>4. n = Len(unread)
  BY <1>1, <1>3 DEF AnsweredTo
<1>5. Heard = AnswerUpTo(n) \cup {Prompt}
  <2>1. 1..n = (1..(n - 1)) \cup {n}
    BY <1>1, <1>2
  <2>2. QED
    BY <1>1, <1>4, <2>1 DEF Heard, AnswerUpTo
<1>6. Accepts(c.name, Heard)
  BY <1>5 DEF Accepts, Prompt
<1>7. QED
  BY <1>3, <1>4, <1>6 DEF AnsweredTo

LEMMA AnsweredAligned ==
    ASSUME TypeOK, NEW n, Answering(n), NEW c, c = plan[1], Aligned(c)
    PROVE  Quiet' /\ Took(adapter, c)
<1>1. FirstPrompt(n) /\ Len(unread') = Len(unread) - n
  BY AnsweringIs DEF Answering, Ends
<1>2. toAdapter' = toAdapter /\ adapter' = adapter /\ Accepts(c.name, AnswerUpTo(n))
  BY DEF Answering
<1>3. AnsweredTo(c) /\ n = Len(unread) /\ Took(adapter, c)
  BY <1>1, <1>2, AcceptedTook
<1>4. Len(unread) \in Nat
  BY UnreadType
<1>5. QED
  BY <1>1, <1>2, <1>3, <1>4 DEF Quiet, AnsweredTo

LEMMA AnsweredOn ==
    ASSUME TypeOK, PlanInv, OkInv, SessionInv, ~leaving, NEW n, Answering(n),
           NEW d \in Nat, d = Done, NEW m \in Int, m = Left
    PROVE  (Stray(m - 1)' /\ m - 1 >= 1) \/ (Quiet' /\ Established(d + 1)')
<1>1. /\ pc = "answer" /\ toAdapter' = toAdapter /\ adapter' = adapter /\ driver' = driver
  BY DEF Answering
<1>2. /\ Head(plan) = plan[1] /\ plan[1] \in Commands
      /\ Done + 1 \in 1..Len(Session) /\ plan[1] = Session[Done + 1]
      /\ Configuring <=> Left >= 1
  BY <1>1, CurrentIs
<1>3. CASE Stray(Left)
  <2>1. Stray(m) /\ m >= 1
    BY <1>3, StrayNone
  <2>2. plan[1].name \notin {"Request", "STPPMA"}
    BY <1>2, <2>1 DEF Configuring, Configures
  <2>3. Stray(m - 1)'
    BY <2>1, <2>2, AnsweredStray
  <2>4. m - 1 >= 1
    <3> SUFFICES ASSUME m - 1 < 1 PROVE FALSE
      OBVIOUS
    <3>1. m - 1 \in Int /\ Len(unread) \in Nat /\ Len(toAdapter) \in Nat
      BY Sizes DEF Sized
    <3>2. Len(unread') \in Nat /\ Prompts' \in Nat /\ Len(toAdapter') \in Nat
      <4>1. n \in 1..Len(unread) /\ Len(unread') = Len(unread) - n /\ Prompts' \in Nat
        BY AnsweringIs
      <4>2. QED
        BY <1>1, <3>1, <4>1
    <3>3. QED
      BY <2>3, <3>1, <3>2, StrayNoneNext
  <2>5. QED
    BY <2>3, <2>4
<1>4. CASE Aligned(plan[1]) /\ Established(Done)
  <2>1. PICK c : c = plan[1]
    OBVIOUS
  <2>2. Quiet' /\ Took(adapter, c)
    BY <1>4, <2>1, AnsweredAligned
  <2>3. Established(d)'
    BY <1>1, <1>4, EstablishedStays
  <2>4. Took(adapter, c)'
    BY <1>1, <2>2, TookNext
  <2>5. c = Session'[d + 1]
    BY <1>1, <1>2, <2>1, SameSession
  <2>6. ASSUME NEW i \in 1..(d + 1) PROVE Took(adapter, Session[i])'
    <3>1. i \in 1..d \/ i = d + 1
      OBVIOUS
    <3>2. CASE i \in 1..d
      BY <2>3, <3>2 DEF Established
    <3>3. CASE i = d + 1
      BY <2>4, <2>5, <3>3
    <3>4. QED
      BY <3>1, <3>2, <3>3
  <2>7. Established(d + 1)'
    BY <2>6 DEF Established
  <2>8. QED
    BY <2>2, <2>7
<1>5. QED
  BY <1>1, <1>3, <1>4 DEF SessionInv

(* The reset is written while commands of earlier sessions may be under    *)
(* way; there are fewer of them than commands that wait for an OK.         *)
LEMMA WriteReset ==
    ASSUME TypeOK, PlanInv, QueueInv, CountInv, Write, ~leaving, plan[1].name = "ATZ"
    PROVE  Stray(Left)' \/ (Aligned(plan[1])' /\ Established(Done)')
<1>1. /\ Queued(plan[1]) /\ pc = "command" /\ plan' = plan /\ stop' = stop
      /\ adapter' = adapter /\ driver' = driver /\ pc' = "answer" /\ unread' = unread
  BY WriteHow
<1>2. /\ plan[1] \in Commands /\ Done = 0 /\ Len(Session) = Done + Len(plan)
      /\ Len(Session) = Len(Configuration) + Len(Polling) /\ Left = Len(plan) - Len(Polling)
      /\ Len(Polling) \in Nat /\ Len(Configuration) \in Nat /\ Len(Configuration) >= 9
      /\ Len(plan) \in Nat /\ (Configuring <=> Left >= 1)
  BY <1>1, CurrentIs
<1>3. Left = Len(Configuration)
  BY <1>2
<1>4. PICK m \in Nat : m = Left /\ m >= 9
  BY <1>2, <1>3
<1>5. PICK l \in Nat : l = Len(toAdapter)
  BY Sizes DEF Sized
<1>6. /\ Left' = m /\ Done' = 0 /\ Prompts' = Prompts /\ Occupied' = Occupied
      /\ (NoPrompt' <=> NoPrompt) /\ (Monitoring' <=> Monitoring)
  <2>1. Polling' = Polling /\ Session' = Session
    BY <1>1, SameSession
  <2>2. QED
    BY <1>1, <1>2, <1>4, <2>1 DEF Left, Done, Prompts, Occupied, NoPrompt, Monitoring
<1>7. PICK c \in Commands : c = plan[1] /\ c.name = "ATZ"
  BY <1>2
<1>8. /\ Len(toAdapter') = l + 1 /\ toAdapter'[l + 1] = c
      /\ \A i \in 1..l : toAdapter'[i] = toAdapter[i]
  BY <1>1, <1>5, <1>7 DEF Queued
<1>9. Prompts + Occupied + (l + 1) <= m
  <2>1. Configuring
    BY <1>2, <1>3
  <2>2. Prompts + Len(toAdapter) + Occupied <= 1 + timeouts + 0
    BY <1>1, <2>1 DEF CountInv
  <2>3. Prompts \in Nat /\ Occupied \in Nat /\ timeouts \in Nat /\ timeouts <= 6
    BY SumTypes
  <2>4. Prompts + l + Occupied <= 1 + timeouts
    BY <1>5, <2>2, <2>3
  <2>5. QED
    BY <1>4, <2>3, <2>4
<1>10. CASE \/ ~NoPrompt
            \/ adapter.at = "busy" /\ adapter.cmd.name # "Monitor"
            \/ \E j \in 1..l : toAdapter[j].name # "Monitor"
  <2>1. l + 1 \in 1..Len(toAdapter') /\ toAdapter'[l + 1].name = "ATZ"
    BY <1>7, <1>8
  <2>2. Prompts' + Occupied' + (l + 1) <= m
    BY <1>6, <1>9
  <2>3. \/ ~NoPrompt'
        \/ adapter'.at = "busy" /\ adapter'.cmd.name # "Monitor"
        \/ \E j \in 1..((l + 1) - 1) : toAdapter'[j].name # "Monitor"
    <3>1. (l + 1) - 1 = l
      OBVIOUS
    <3>2. QED
      BY <1>1, <1>6, <1>8, <1>10, <3>1
  <2>4. StrayQueued(m)'
    BY <2>1, <2>2, <2>3 DEF StrayQueued
  <2>5. Stray(m)'
    BY <2>4 DEF Stray
  <2>6. QED
    BY <1>6, <2>5
<1>11. CASE /\ NoPrompt
            /\ adapter.at = "busy" => adapter.cmd.name = "Monitor"
            /\ \A j \in 1..l : toAdapter[j].name = "Monitor"
  <2>1. l <= 1
    <3> SUFFICES ASSUME l > 1 PROVE FALSE
      OBVIOUS
    <3>1. 1 \in 1..l /\ 2 \in 1..l
      OBVIOUS
    <3>2. QED
      BY <1>5, <1>11, <3>1 DEF QueueInv
  <2>2. l = 1 => ~Monitoring
    BY <1>5, <1>11 DEF QueueInv
  <2>3. adapter.at \in {"prompt", "busy", "monitor"}
    BY DEF TypeOK, Adapters
  <2>4. Monitoring \/ adapter.at = "prompt"
    BY <1>11, <2>3 DEF Monitoring
  <2>5. CASE l = 1
    <3>1. Len(toAdapter') = 2 /\ toAdapter'[1].name = "Monitor" /\ toAdapter'[2] = c
      BY <1>8, <1>11, <2>5
    <3>2. AskedWatcher(c)'
      BY <1>1, <1>6, <1>7, <1>11, <2>2, <2>4, <2>5, <3>1 DEF AskedWatcher
    <3>3. QED
      BY <1>1, <1>6, <1>7, <3>2 DEF Aligned, Established
  <2>6. CASE l = 0 /\ Monitoring
    <3>1. Len(toAdapter') = 1 /\ toAdapter'[1] = c
      BY <1>8, <2>6
    <3>2. AskedWatcher(c)'
      BY <1>6, <1>7, <1>11, <2>6, <3>1 DEF AskedWatcher
    <3>3. QED
      BY <1>1, <1>6, <1>7, <3>2 DEF Aligned, Established
  <2>7. CASE l = 0 /\ adapter.at = "prompt"
    <3>1. Len(toAdapter') = 1 /\ toAdapter'[1] = c
      BY <1>8, <2>7
    <3>2. Asked(c)'
      BY <1>1, <1>6, <1>11, <2>7, <3>1 DEF Asked
    <3>3. QED
      BY <1>1, <1>6, <1>7, <3>2 DEF Aligned, Established
  <2>8. QED
    BY <2>1, <2>4, <2>5, <2>6, <2>7
<1>12. QED
  BY <1>10, <1>11

LEMMA WriteLater ==
    ASSUME TypeOK, PlanInv, SessionInv, Write, ~leaving, plan[1].name \notin {"ATZ", "Monitor"}
    PROVE  Stray(Left)' \/ (Aligned(plan[1])' /\ Established(Done)')
<1>1. /\ Queued(plan[1]) /\ pc = "command" /\ plan' = plan /\ stop' = stop /\ acc' = {}
      /\ adapter' = adapter /\ driver' = driver /\ pc' = "answer" /\ unread' = unread
  BY WriteHow
<1>2. PICK m : m = Left
  OBVIOUS
<1>3. PICK d \in Nat : d = Done
  BY <1>1, CurrentIs
<1>4. /\ Left' = m /\ Done' = d /\ Prompts' = Prompts /\ Occupied' = Occupied
      /\ (NoPrompt' <=> NoPrompt) /\ ~FirstAnswer'
  <2>1. Polling' = Polling /\ Session' = Session
    BY <1>1, SameSession
  <2>2. QED
    BY <1>1, <1>2, <1>3, <2>1 DEF Left, Done, Prompts, Occupied, NoPrompt, FirstAnswer
<1>5. Len(toAdapter) \in Nat
  BY Sizes DEF Sized
<1>6. CASE Stray(Left)
  <2>1. CASE StrayRead(m)
    <3>1. PICK i \in 1..Len(unread) : Bare(i) /\ Rank(unread, i) <= m
      BY <2>1 DEF StrayRead
    <3>2. Bare(i)'
      BY <1>1, <3>1 DEF Bare
    <3>3. StrayRead(m)'
      BY <1>1, <1>4, <3>1, <3>2 DEF StrayRead
    <3>4. QED
      BY <1>4, <3>3 DEF Stray
  <2>2. CASE StrayBusy(m)
    <3>1. StrayBusy(m)'
      BY <1>1, <1>4, <2>2 DEF StrayBusy
    <3>2. QED
      BY <1>4, <3>1 DEF Stray
  <2>3. CASE StrayQueued(m)
    <3>1. PICK q \in 1..Len(toAdapter) : toAdapter[q].name = "ATZ" /\ Prompts + Occupied + q <= m
      BY <2>3 DEF StrayQueued
    <3>2. q \in 1..Len(toAdapter') /\ toAdapter'[q] = toAdapter[q]
      BY <1>1, <1>5 DEF Queued
    <3>3. StrayQueued(m)'
      BY <1>4, <3>1, <3>2 DEF StrayQueued
    <3>4. QED
      BY <1>4, <3>3 DEF Stray
  <2>4. QED
    BY <1>2, <1>6, <2>1, <2>2, <2>3 DEF Stray
<1>7. CASE Quiet /\ Established(Done)
  <2>1. PICK c : c = plan[1]
    OBVIOUS
  <2>2. Len(toAdapter') = 1 /\ toAdapter'[1] = c /\ adapter'.at = "prompt"
    BY <1>1, <1>7, <2>1 DEF Queued, Quiet
  <2>3. NoPrompt
    BY <1>7 DEF NoPrompt, Quiet
  <2>4. Aligned(c)'
    BY <1>4, <2>2, <2>3 DEF Aligned, Asked
  <2>5. Established(d)'
    BY <1>1, <1>3, <1>7, EstablishedStays
  <2>6. QED
    BY <1>1, <1>4, <2>1, <2>4, <2>5
<1>8. QED
  BY <1>1, <1>6, <1>7 DEF SessionInv

LEMMA WriteMonitor ==
    ASSUME TypeOK, PlanInv, SessionInv, Write, ~leaving, plan[1].name = "Monitor"
    PROVE  Watched' /\ Established(Len(Session))'
<1>1. /\ Queued(plan[1]) /\ pc = "command" /\ plan' = plan
      /\ adapter' = adapter /\ driver' = driver /\ pc' = "stream" /\ Shortens
  BY WriteHow
<1>2. Quiet /\ Established(Done)
  BY <1>1, MonitorAlone
<1>3. /\ Len(plan) \in Nat /\ Len(plan) > 0 /\ Done \in Nat /\ Done + 1 \in 1..Len(Session)
      /\ plan[1] = Session[Done + 1] /\ driver \in Drivers /\ Len(Session) = Done + Len(plan)
  BY <1>1, CurrentIs
<1>4. Len(toAdapter') = 1 /\ toAdapter'[1].name = "Monitor" /\ adapter'.at = "prompt"
  BY <1>1, <1>2 DEF Queued, Quiet
<1>5. Len(unread') = 0
  BY <1>1, <1>2, ShortensKeeps DEF Quiet
<1>6. Watched'
  <2>1. NoPrompt' /\ NoOk'
    BY <1>5 DEF NoPrompt, NoOk
  <2>2. \A i \in 1..Len(toAdapter') : i = 1
    BY <1>4
  <2>3. Watching(Len(toAdapter))'
    BY <1>4, <2>1, <2>2 DEF Watching
  <2>4. QED
    BY <2>1, <2>3 DEF Watched
<1>7. PICK d \in Nat : d = Done
  BY <1>3
<1>8. Len(Session) = d + 1
  BY <1>3, <1>7, SessionNames
<1>9. Established(d)'
  BY <1>1, <1>2, <1>7, EstablishedStays
<1>10. Session' = Session
  BY <1>1, SameSession
<1>11. ASSUME NEW i \in 1..(d + 1) PROVE Took(adapter, Session[i])'
  <2>1. i \in 1..d \/ i = d + 1
    OBVIOUS
  <2>2. CASE i \in 1..d
    BY <1>9, <2>2 DEF Established
  <2>3. CASE i = d + 1
    <3>1. PICK c : c = Session[d + 1]
      OBVIOUS
    <3>2. c.name = "Monitor"
      BY <1>3, <1>7, <3>1
    <3>3. Took(adapter, c)'
      BY <3>2, SettingNames DEF Took
    <3>4. QED
      BY <1>10, <2>3, <3>1, <3>3
  <2>4. QED
    BY <2>1, <2>2, <2>3
<1>12. Established(d + 1)'
  BY <1>11 DEF Established
<1>13. QED
  BY <1>6, <1>8, <1>10, <1>12

(* Where a session ends, or has not begun, SessionInv asks nothing. *)
LEMMA SessionOver ==
    ASSUME leaving' \/ pc' \in {"closed", "ended"}
    PROVE  SessionInv'
BY DEF SessionInv

LEMMA SessionFails ==
    ASSUME TypeOK, CommandFails \/ \E err \in BOOLEAN : MonitorReturns(err)
    PROVE  SessionInv'
<1>1. leaving' \/ pc' \in {"closed", "ended"}
  BY FailsHow, MonitorReturnsHow DEF Over
<1>2. QED
  BY <1>1, SessionOver

LEMMA SessionWrites ==
    ASSUME TypeOK, PlanInv, QueueInv, CountInv, SessionInv, Write
    PROVE  SessionInv'
<1>1. /\ leaving' = leaving /\ plan' = plan
      /\ IF plan[1].name = "Monitor" THEN pc' = "stream" ELSE pc' = "answer"
  BY WriteHow
<1>2. CASE leaving
  BY <1>1, <1>2, SessionOver
<1>3. CASE ~leaving /\ plan[1].name = "Monitor"
  <2>1. Watched' /\ Established(Len(Session))'
    BY <1>3, WriteMonitor
  <2>2. QED
    BY <1>1, <1>3, <2>1 DEF SessionInv
<1>4. CASE ~leaving /\ plan[1].name # "Monitor"
  <2>1. Stray(Left)' \/ (Aligned(plan[1])' /\ Established(Done)')
    BY <1>4, WriteReset, WriteLater
  <2>2. QED
    BY <1>1, <1>4, <2>1 DEF SessionInv
<1>5. QED
  BY <1>2, <1>3, <1>4

(* Whatever leaves the line to the adapter and the plan as they are. *)
LEMMA WatchedStays ==
    ASSUME TypeOK, Shortens, toAdapter' = toAdapter, adapter' = adapter, Watched
    PROVE  Watched'
<1>1. (NoPrompt => NoPrompt') /\ (NoOk => NoOk')
  BY ShortensKeeps
<1>2. NoMonitor' <=> NoMonitor
  BY DEF NoMonitor, Monitoring
<1>3. QED
  BY <1>1, <1>2 DEF Watched, Watching

LEMMA SessionCollects ==
    ASSUME TypeOK, PlanInv, OkInv, SessionInv, Collect
    PROVE  SessionInv'
<1>1. /\ pc \in {"answer", "drain"} /\ pc' = pc /\ plan' = plan /\ leaving' = leaving
      /\ toAdapter' = toAdapter /\ adapter' = adapter /\ driver' = driver
  BY CollectHow
<1>2. Session' = Session /\ Polling' = Polling
  BY <1>1, SameSession
<1>3. CASE leaving
  BY <1>1, <1>3, SessionOver
<1>4. CASE ~leaving /\ pc = "answer"
  <2>1. PICK m, c : m = Left /\ c = plan[1]
    OBVIOUS
  <2>2. PICK d \in Nat : d = Done
    BY <1>4, CurrentIs
  <2>3. Left' = m /\ Done' = d /\ plan'[1] = c
    BY <1>1, <1>2, <2>1, <2>2 DEF Left, Done
  <2>4. Stray(m) \/ (Aligned(c) /\ Established(d))
    BY <1>4, <2>1, <2>2 DEF SessionInv
  <2>5. Stray(m)' \/ (Aligned(c)' /\ Established(d)')
    BY <1>1, <1>4, <2>4, CollectStray, CollectAligned, EstablishedStays
  <2>6. QED
    BY <1>1, <1>4, <2>3, <2>5 DEF SessionInv
<1>5. CASE ~leaving /\ pc = "drain"
  <2>1. Watched /\ Established(Len(Session))
    BY <1>5 DEF SessionInv
  <2>2. Shortens
    BY HostShortens DEF Read
  <2>3. Watched'
    BY <1>1, <2>1, <2>2, WatchedStays
  <2>4. PICK n \in Nat : n = Len(Session)
    <3>1. driver \in Drivers
      BY DEF TypeOK
    <3>2. QED
      BY <3>1, SessionIs
  <2>5. Established(n)'
    BY <1>1, <2>1, <2>4, EstablishedStays
  <2>6. QED
    BY <1>1, <1>2, <1>5, <2>3, <2>4, <2>5 DEF SessionInv
<1>6. QED
  BY <1>1, <1>3, <1>4, <1>5

LEMMA SessionAnswered ==
    ASSUME TypeOK, PlanInv, OkInv, SessionInv, Answered
    PROVE  SessionInv'
<1>1. /\ pc = "answer" /\ acc' = {} /\ toAdapter' = toAdapter /\ adapter' = adapter /\ driver' = driver
  BY AnsweredHow
<1>2. PICK n \in 1..Len(unread) :
        Ends(n) /\ IF Accepts(Head(plan).name, AnswerUpTo(n)) THEN CommandWorks ELSE CommandFails
  BY AnsweredHow
<1>3. CASE CommandFails
  BY <1>3, SessionFails
<1>4. CASE CommandWorks /\ Accepts(Head(plan).name, AnswerUpTo(n)) /\ ~leaving
  <2>1. \/ Len(plan) > 1 /\ pc' = "command" /\ plan' = Tail(plan) /\ leaving' = leaving
        \/ /\ Len(plan) > 1 /\ Head(plan).name = "Request" /\ pc' = "tick" /\ plan' = <<>>
           /\ leaving' = leaving
        \/ ~(Len(plan) > 1) /\ pc' = "tick" /\ plan' = <<>> /\ leaving' = leaving
    BY <1>4, WorksHow
  <2>2. /\ Head(plan) = plan[1] /\ plan[1] \in Commands /\ driver \in Drivers
        /\ Done \in Nat /\ Done + 1 \in 1..Len(Session) /\ plan[1] = Session[Done + 1]
        /\ Len(Session) = Done + Len(plan) /\ Len(plan) \in Nat /\ Len(plan) > 0
        /\ Len(Polling) \in Nat /\ Left = Len(plan) - Len(Polling) /\ (Configuring <=> Left >= 1)
        /\ Len(Configuration) \in Nat /\ Len(Session) = Len(Configuration) + Len(Polling)
    BY <1>1, <1>4, CurrentIs
  <2>3. PICK m \in Int, d \in Nat : m = Left /\ d = Done
    BY <2>2
  <2>4. Answering(n)
    BY <1>1, <1>2, <1>4, <2>1, <2>2 DEF Answering, Ends
  <2>5. (Stray(m - 1)' /\ m - 1 >= 1) \/ (Quiet' /\ Established(d + 1)')
    BY <1>4, <2>3, <2>4, AnsweredOn
  <2>6. Session' = Session /\ Polling' = Polling
    BY <1>1, SameSession
  <2>7. CASE Len(plan) > 1 /\ pc' = "command" /\ plan' = Tail(plan)
    <3>1. Len(plan') = Len(plan) - 1
      BY <2>7, RestIs
    <3>2. Left' = m - 1 /\ Done' = d + 1
      BY <2>2, <2>3, <2>6, <3>1 DEF Left, Done
    <3>3. QED
      BY <2>5, <2>7, <3>2 DEF SessionInv
  <2>8. CASE pc' = "tick" /\ (Len(plan) > 1 => Head(plan).name = "Request")
    <3>1. m < 2 /\ (Len(plan) > 1 => m < 1)
      <4>1. Len(plan) > 1 => ~Configuring
        BY <2>8 DEF Configuring, Configures
      <4>2. QED
        BY <2>2, <2>3, <4>1
    <3>2. Quiet' /\ Established(d + 1)'
      BY <2>5, <3>1
    <3>3. PICK e \in Nat : e = Len(Session)
      BY <2>2
    <3>4. ASSUME NEW i \in 1..e PROVE Took(adapter, Session[i])'
      <4>1. i <= d + 1 \/ i > d + 1
        OBVIOUS
      <4>2. CASE i <= d + 1
        <5>1. i \in 1..(d + 1)
          BY <4>2
        <5>2. QED
          BY <3>2, <5>1 DEF Established
      <4>3. CASE i > d + 1
        <5>1. Len(plan) > 1
          BY <2>2, <2>3, <3>3, <4>3
        <5>2. driver.mode = "poll"
          <6>1. Session[d + 1].name = "Request" /\ d + 1 \in 1..Len(Session)
            BY <2>2, <2>3, <2>8, <5>1
          <6>2. QED
            BY <2>2, <6>1, SessionNames DEF Drivers
        <5>3. i > Len(Configuration)
          <6>1. Left < 1
            BY <2>3, <3>1, <5>1
          <6>2. QED
            BY <2>2, <2>3, <4>3, <6>1
        <5>4. PICK j \in 1..Len(Polling) : i = Len(Configuration) + j
          <6>1. i - Len(Configuration) \in 1..Len(Polling)
                /\ i = Len(Configuration) + (i - Len(Configuration))
            BY <2>2, <3>3, <5>3
          <6>2. QED
            BY <6>1
        <5>5. Session[i] = Polling[j]
          BY <2>2, <5>4, SessionIs
        <5>6. PICK c : c = Session[i] /\ c.name = "Request"
          BY <2>2, <5>2, <5>5, PollingNames
        <5>7. Took(adapter, c)'
          BY <5>6, SettingNames DEF Took
        <5>8. QED
          BY <2>6, <5>6, <5>7
      <4>4. QED
        BY <4>1, <4>2, <4>3
    <3>5. Established(e)'
      BY <3>4 DEF Established
    <3>6. QED
      BY <2>6, <2>8, <3>2, <3>3, <3>5 DEF SessionInv
  <2>9. QED
    BY <2>1, <2>7, <2>8
<1>5. CASE CommandWorks /\ leaving
  <2>1. leaving' \/ pc' \in {"closed", "ended"}
    BY <1>5, WorksHow DEF Over
  <2>2. QED
    BY <2>1, SessionOver
<1>6. QED
  BY <1>2, <1>3, <1>4, <1>5

LEMMA SessionWatches ==
    ASSUME TypeOK, PlanInv, SessionInv, Stream \/ StopMonitor
    PROVE  SessionInv'
<1>1. /\ pc = "stream" /\ pc' \in {"stream", "drain"} /\ plan' = plan /\ leaving' = leaving
      /\ adapter' = adapter /\ driver' = driver
  BY StopMonitorHow DEF Stream, host
<1>2. Session' = Session
  BY <1>1, SameSession
<1>3. CASE leaving
  BY <1>1, <1>3, SessionOver
<1>4. CASE ~leaving
  <2>1. Watched /\ Established(Len(Session))
    BY <1>1, <1>4 DEF SessionInv
  <2>2. PICK n \in Nat : n = Len(Session)
    <3>1. driver \in Drivers
      BY DEF TypeOK
    <3>2. QED
      BY <3>1, SessionIs
  <2>3. Established(n)'
    BY <1>1, <2>1, <2>2, EstablishedStays
  <2>4. Watched'
    <3>1. CASE Stream
      <4>1. Shortens
        BY <3>1, HostShortens DEF Watch
      <4>2. toAdapter' = toAdapter
        BY <3>1 DEF Stream
      <4>3. QED
        BY <1>1, <2>1, <4>1, <4>2, WatchedStays
    <3>2. CASE StopMonitor
      <4>1. Queued(Cmd("CR", {})) /\ unread' = unread
        BY <3>2, StopMonitorHow
      <4>2. PICK l \in Nat : l = Len(toAdapter)
        BY Sizes DEF Sized
      <4>3. /\ Len(toAdapter') = l + 1 /\ \A i \in 1..l : toAdapter'[i] = toAdapter[i]
            /\ toAdapter'[l + 1].name = "CR"
        BY <4>1, <4>2 DEF Queued, Cmd
      <4>4. \A i \in 1..(l + 1) : i \in 1..l \/ i = l + 1
        OBVIOUS
      <4>5. Watching(l) /\ (NoPrompt \/ NoMonitor)
        BY <2>1, <4>2 DEF Watched
      <4>6. Watching(l + 1)'
        BY <1>1, <4>1, <4>3, <4>4, <4>5 DEF Watching, NoOk
      <4>7. NoPrompt' \/ NoMonitor'
        BY <1>1, <4>1, <4>2, <4>3, <4>4, <4>5 DEF NoPrompt, NoMonitor, Monitoring
      <4>8. QED
        BY <4>3, <4>6, <4>7 DEF Watched
    <3>3. QED
      BY <3>1, <3>2
  <2>5. QED
    BY <1>1, <1>2, <2>2, <2>3, <2>4 DEF SessionInv
<1>5. QED
  BY <1>3, <1>4

LEMMA SessionTicks ==
    ASSUME TypeOK, PlanInv, SessionInv, Tick
    PROVE  SessionInv'
<1>1. /\ pc = "tick" /\ plan' = Requests("Request") /\ pc' \in {"tick", "command"}
      /\ leaving' = leaving /\ toAdapter' = toAdapter /\ toHost' = toHost /\ pending' = pending
      /\ adapter' = adapter /\ driver' = driver
  BY DEF Tick, line
<1>2. Session' = Session
  BY <1>1, SameSession
<1>3. CASE leaving
  BY <1>1, <1>3, SessionOver
<1>4. CASE ~leaving
  <2>1. Quiet /\ Established(Len(Session)) /\ driver.mode = "poll"
    BY <1>1, <1>4 DEF SessionInv, PlanInv
  <2>2. unread' = unread
    BY <1>1 DEF unread
  <2>3. Quiet'
    BY <1>1, <2>1, <2>2 DEF Quiet
  <2>4. driver \in Drivers
    BY DEF TypeOK
  <2>5. Polling = Requests("Request")
    BY <2>1, <2>4, PollingIs
  <2>6. /\ Len(Configuration) \in Nat /\ Len(Polling) \in Nat
        /\ Len(Session) = Len(Configuration) + Len(Polling)
    BY <2>4, SessionIs
  <2>7. PICK n \in Nat : n = Len(Session)
    BY <2>6
  <2>8. PICK d \in Nat : d = Len(Configuration) /\ d <= n
    BY <2>6, <2>7
  <2>9. Established(n)'
    BY <1>1, <2>1, <2>7, EstablishedStays
  <2>10. Established(d)'
    <3>1. \A i \in 1..d : i \in 1..n
      BY <2>8
    <3>2. QED
      BY <2>9, <3>1 DEF Established
  <2>11. Done' = d
    <3>1. Len(plan') = Len(Polling)
      BY <1>1, <2>5
    <3>2. QED
      BY <1>2, <2>6, <2>8, <3>1 DEF Done
  <2>12. QED
    BY <1>1, <1>2, <2>3, <2>7, <2>9, <2>10, <2>11 DEF SessionInv
<1>5. QED
  BY <1>3, <1>4

(* The conversation goes on where it was. *)
SameTalk ==
    /\ driver' = driver /\ pc' = pc /\ plan' = plan /\ acc' = acc /\ pending' = pending
    /\ leaving' = leaving /\ outcome' = outcome /\ toAdapter' = toAdapter /\ toHost' = toHost
    /\ adapter' = adapter

LEMMA SessionSame ==
    ASSUME TypeOK, SessionInv, SameTalk
    PROVE  SessionInv'
<1>1. unread' = unread
  BY DEF SameTalk, unread
<1>2. Session' = Session /\ Polling' = Polling /\ Filters' = Filters
  BY SameSession DEF SameTalk
<1>3. Left' = Left /\ Done' = Done /\ Prompts' = Prompts /\ Occupied' = Occupied
  BY <1>1, <1>2 DEF SameTalk, Left, Done, Prompts, Occupied
<1>4. /\ NoPrompt' <=> NoPrompt
      /\ FirstAnswer' <=> FirstAnswer
      /\ Monitoring' <=> Monitoring
      /\ NoOk' <=> NoOk
  BY <1>1 DEF SameTalk, NoPrompt, FirstAnswer, Monitoring, NoOk
<1>5. Heard' = Heard
  BY <1>1 DEF SameTalk, Heard
<1>6. ASSUME NEW n PROVE Stray(n) => Stray(n)'
  <2>1. \A i : Bare(i)' <=> Bare(i)
    BY <1>1 DEF SameTalk, Bare
  <2>2. StrayRead(n) => StrayRead(n)'
    BY <1>1, <1>4, <2>1 DEF StrayRead
  <2>3. StrayBusy(n) => StrayBusy(n)'
    BY <1>3, <1>4 DEF SameTalk, StrayBusy
  <2>4. StrayQueued(n) => StrayQueued(n)'
    BY <1>3, <1>4 DEF SameTalk, StrayQueued
  <2>5. QED
    BY <2>2, <2>3, <2>4 DEF Stray
<1>7. ASSUME NEW c PROVE Took(adapter, c)' <=> Took(adapter, c)
  BY TookNext DEF SameTalk
<1>8. ASSUME NEW n PROVE Established(n) => Established(n)'
  <2>1. ASSUME NEW i \in 1..n, Established(n) PROVE Took(adapter, Session[i])'
    <3>1. PICK c : c = Session[i]
      OBVIOUS
    <3>2. Took(adapter, c)'
      BY <1>7, <2>1, <3>1 DEF Established
    <3>3. QED
      BY <1>2, <3>1, <3>2
  <2>2. QED
    BY <2>1 DEF Established
<1>9. ASSUME NEW c PROVE Aligned(c) => Aligned(c)'
  <2>1. Asked(c) => Asked(c)'
    BY <1>4 DEF SameTalk, Asked
  <2>2. AskedWatcher(c) => AskedWatcher(c)'
    BY <1>4 DEF SameTalk, AskedWatcher
  <2>3. AnsweredTo(c) => AnsweredTo(c)'
    BY <1>1, <1>5, <1>7 DEF SameTalk, AnsweredTo
  <2>4. QED
    BY <2>1, <2>2, <2>3 DEF Aligned
<1>10. Quiet => Quiet'
  BY <1>1 DEF SameTalk, Quiet
<1>11. Watched => Watched'
  BY <1>4 DEF SameTalk, Watched, Watching, NoMonitor
<1>12. PICK m, d, e, c : m = Left /\ d = Done /\ e = Len(Session) /\ c = plan[1]
  OBVIOUS
<1>13. Left' = m /\ Done' = d /\ Len(Session') = e /\ plan'[1] = c
  BY <1>2, <1>3, <1>12 DEF SameTalk
<1>14. /\ Stray(m) => Stray(m)'
       /\ Established(d) => Established(d)'
       /\ Established(e) => Established(e)'
       /\ Aligned(c) => Aligned(c)'
  BY <1>6, <1>8, <1>9
<1>15. pc' = pc /\ plan' = plan /\ leaving' = leaving
  BY DEF SameTalk
<1>16. QED
  BY <1>10, <1>11, <1>12, <1>13, <1>14, <1>15 DEF SessionInv

LEMMA SessionHost ==
    ASSUME TypeOK, PlanInv, OkInv, QueueInv, CountInv, SessionInv, Ask \/ Read \/ Watch \/ World
    PROVE  SessionInv'
<1>1. CASE Open
  <2>1. pc' = "command" /\ plan' = Session /\ driver \in Drivers
    BY <1>1 DEF Open, TypeOK
  <2>2. 1 \in 1..Len(Session)
    BY <2>1, SessionIs
  <2>3. plan'[1].name = "ATZ"
    BY <2>1, <2>2, SessionNames
  <2>4. QED
    BY <2>1, <2>3 DEF SessionInv
<1>2. CASE GiveUp \/ EndPoll
  BY <1>2, SessionOver DEF GiveUp, EndPoll, Return
<1>3. CASE TimeOut \/ TransportFails
  BY <1>3, SessionFails DEF TimeOut, TransportFails
<1>4. CASE StreamFails \/ Drained \/ Undrained
  BY <1>4, SessionFails DEF StreamFails, Drained, Undrained
<1>5. CASE Lose
  BY <1>5, SessionOver DEF Lose, host
<1>6. CASE Stop \/ CloseDriver
  <2>1. SameTalk
    BY <1>6 DEF Stop, CloseDriver, host, line, SameTalk
  <2>2. QED
    BY <2>1, SessionSame
<1>7. QED
  BY <1>1, <1>2, <1>3, <1>4, <1>5, <1>6, SessionWrites, SessionCollects, SessionAnswered,
     SessionWatches, SessionTicks DEF Ask, Read, Watch, World

-----------------------------------------------------------------------------
(* Leaving the session: the periodic messages are cleared.                 *)

LEMMA WatchingNothing ==
    ASSUME TypeOK, Quiet, Shortens, toAdapter' = toAdapter, adapter' = adapter
    PROVE  Watching(Len(toAdapter))'
<1>1. Len(unread') = 0
  BY ShortensKeeps DEF Quiet
<1>2. Len(toAdapter') = 0 /\ adapter'.at = "prompt"
  BY DEF Quiet
<1>3. QED
  BY <1>1, <1>2 DEF Watching, NoOk

(* Monitor returns: all that is under way is the monitor command and the   *)
(* carriage return.                                                        *)
LEMMA LeavingBegins ==
    ASSUME TypeOK, PlanInv, SessionInv, Ask \/ Read \/ Watch \/ World, ~leaving, leaving'
    PROVE  LeavingInv'
<1>1. /\ driver.mode = "hybrid" /\ plan' = StopPeriodic /\ pc' = "command"
      /\ \/ TransportFails /\ Head(plan).name = "Monitor"
         \/ StreamFails \/ Drained \/ Undrained
  <2>1. CASE Answered \/ TimeOut \/ TransportFails
    <3>1. CASE CommandFails
      <4>1. /\ Head(plan).name = "Monitor" /\ driver.mode = "hybrid" /\ plan' = StopPeriodic
            /\ pc' = "command"
        BY <3>1, FailsHow DEF Over
      <4>2. pc # "answer"
        <5>1. pc \in {"command", "answer"} => Head(plan) = plan[1]
          BY Sizes DEF Sized
        <5>2. QED
          BY <4>1, <5>1 DEF PlanInv
      <4>3. QED
        BY <2>1, <4>1, <4>2 DEF Answered, TimeOut
    <3>2. CASE CommandWorks
      BY <3>2, WorksHow DEF Over
    <3>3. QED
      BY <2>1, <3>1, <3>2, AnsweredHow DEF TimeOut, TransportFails
  <2>2. CASE StreamFails \/ Drained \/ Undrained
    <3>1. \E err \in BOOLEAN : MonitorReturns(err)
      BY <2>2 DEF StreamFails, Drained, Undrained
    <3>2. QED
      BY <2>2, <3>1, MonitorReturnsHow DEF Over
  <2>3. CASE Open \/ GiveUp \/ Write \/ Tick \/ EndPoll \/ Collect \/ Stream \/ StopMonitor \/ World
    <3>1. leaving' = leaving \/ ~leaving'
      BY <2>3 DEF Open, GiveUp, Write, Tick, EndPoll, Return, Collect, Stream, StopMonitor, World,
                  Stop, CloseDriver, Lose, host
    <3>2. QED
      BY <3>1
  <2>4. QED
    BY <2>1, <2>2, <2>3 DEF Ask, Read, Watch
<1>2. plan'[1].name = "STPPMC"
  BY <1>1, ClearingIs DEF Cmd
<1>3. Shortens
  BY HostShortens
<1>4. toAdapter' = toAdapter /\ adapter' = adapter
  BY <1>1 DEF TransportFails, StreamFails, Drained, Undrained, line
<1>5. Watching(Len(toAdapter))'
  <2>1. CASE TransportFails /\ Head(plan).name = "Monitor"
    <3>1. pc = "command" /\ Head(plan) = plan[1]
      BY <2>1, Sizes DEF Sized, TransportFails
    <3>2. Quiet
      BY <2>1, <3>1, MonitorAlone
    <3>3. QED
      BY <1>3, <1>4, <3>2, WatchingNothing
  <2>2. CASE StreamFails \/ Drained \/ Undrained
    <3>1. Watched
      BY <2>2 DEF SessionInv, StreamFails, Drained, Undrained
    <3>2. Watched'
      BY <1>3, <1>4, <3>1, WatchedStays
    <3>3. QED
      BY <3>2 DEF Watched
  <2>3. QED
    BY <1>1, <2>1, <2>2
<1>6. QED
  BY <1>1, <1>2, <1>5 DEF LeavingInv

LEMMA LeavingWrites ==
    ASSUME TypeOK, PlanInv, LeavingInv, leaving, Write
    PROVE  LeavingInv'
<1>1. /\ Queued(plan[1]) /\ pc = "command" /\ plan' = plan /\ acc' = {} /\ leaving' = leaving
      /\ adapter' = adapter
      /\ IF plan[1].name = "Monitor" THEN pc' = "stream" ELSE pc' = "answer" /\ unread' = unread
  BY WriteHow
<1>2. PICK l \in Nat : l = Len(toAdapter)
  BY Sizes DEF Sized
<1>3. PICK c : c = plan[1]
  OBVIOUS
<1>4. /\ Len(toAdapter') = l + 1 /\ \A i \in 1..l : toAdapter'[i] = toAdapter[i]
      /\ toAdapter'[l + 1] = c
  BY <1>1, <1>2, <1>3 DEF Queued
<1>5. CASE c.name = "STPPMC"
  <2>1. pc' = "answer" /\ unread' = unread
    BY <1>1, <1>3, <1>5
  <2>2. c = Cmd("STPPMC", {})
    BY <1>3, <1>5 DEF PlanInv, Cmd
  <2>3. Watching(l)
    BY <1>1, <1>2, <1>3, <1>5 DEF LeavingInv
  <2>4. Watching(l)'
    BY <1>1, <1>4, <2>1, <2>3 DEF Watching, NoOk
  <2>5. (l + 1) - 1 = l /\ l + 1 > 0
    OBVIOUS
  <2>6. ClearQueued'
    BY <1>1, <1>4, <2>2, <2>4, <2>5 DEF ClearQueued
  <2>7. QED
    BY <1>1, <1>3, <1>5, <2>1, <2>6 DEF LeavingInv
<1>6. CASE c.name = "STCMM0"
  <2>1. pc' = "answer" /\ unread' = unread
    BY <1>1, <1>3, <1>6
  <2>2. adapter.periodic = {} /\ Quiet
    BY <1>1, <1>3, <1>6 DEF LeavingInv
  <2>3. Len(toAdapter') = 1 /\ toAdapter'[1] = c
    BY <1>2, <1>4, <2>2 DEF Quiet
  <2>4. NoPrompt'
    BY <2>1, <2>2 DEF Quiet, NoPrompt
  <2>5. Aligned(c)'
    BY <1>1, <2>2, <2>3, <2>4 DEF Aligned, Asked, Quiet
  <2>6. QED
    BY <1>1, <1>3, <1>6, <2>1, <2>2, <2>5 DEF LeavingInv
<1>7. c.name \in {"STPPMC", "STCMM0"}
  BY <1>3 DEF PlanInv, Cmd
<1>8. QED
  BY <1>5, <1>6, <1>7

LEMMA LeavingCollects ==
    ASSUME TypeOK, PlanInv, LeavingInv, leaving, Collect
    PROVE  LeavingInv'
<1>1. /\ pc' = pc /\ plan' = plan /\ leaving' = leaving
      /\ toAdapter' = toAdapter /\ adapter' = adapter
  BY CollectHow
<1>2. PICK k \in 1..Len(unread) : Collects(k)
  BY CollectHow
<1>3. /\ Len(unread') = Len(unread) - k /\ \A i \in 1..Len(unread') : unread'[i] = unread[i + k]
      /\ \A i \in 1..k : unread[i] # Prompt
      /\ acc' = acc \cup {unread[i] : i \in 1..k}
  BY <1>2 DEF Collects, Drops
<1>4. Len(unread) \in Nat /\ pc = "answer"
  <2>1. pc \in {"answer", "drain"}
    BY CollectHow
  <2>2. QED
    BY <2>1, UnreadType DEF PlanInv
<1>5. ASSUME plan[1].name = "STPPMC" PROVE ClearQueued' \/ ClearTaken' \/ ClearDone'
  <2>1. ASSUME NoOk, "ok" \notin acc PROVE NoOk' /\ "ok" \notin acc'
    <3>1. \A i \in 1..Len(unread') : i + k \in 1..Len(unread)
      BY <1>3, <1>4
    <3>2. \A i \in 1..k : i \in 1..Len(unread)
      BY <1>4
    <3>3. QED
      BY <1>3, <2>1, <3>1, <3>2 DEF NoOk
  <2>2. CASE ClearQueued
    <3>1. NoOk' /\ "ok" \notin acc'
      BY <2>1, <2>2 DEF ClearQueued, Watching
    <3>2. QED
      BY <1>1, <2>2, <3>1 DEF ClearQueued, Watching
  <2>3. CASE ClearTaken
    <3>1. NoOk' /\ "ok" \notin acc'
      BY <2>1, <2>3 DEF ClearTaken
    <3>2. QED
      BY <1>1, <2>3, <3>1 DEF ClearTaken
  <2>4. CASE ClearDone
    <3>1. Len(unread) \in 1..Len(unread) /\ unread[Len(unread)] = Prompt
          /\ \A i \in 1..Len(unread) : unread[i] = "ok" => i = Len(unread) - 1
      BY <1>4, <2>4 DEF ClearDone
    <3>2. k < Len(unread)
      BY <1>3, <1>4, <3>1
    <3>3. Len(unread') > 0 /\ unread'[Len(unread')] = Prompt
      <4>1. Len(unread') \in 1..Len(unread') /\ Len(unread') + k = Len(unread)
        BY <1>3, <1>4, <3>2
      <4>2. unread'[Len(unread')] = unread[Len(unread') + k]
        BY <1>3, <4>1
      <4>3. QED
        BY <3>1, <4>1, <4>2
    <3>4. ASSUME NEW i \in 1..Len(unread'), unread'[i] = "ok" PROVE i = Len(unread') - 1
      <4>1. i + k \in 1..Len(unread) /\ unread[i + k] = "ok"
        BY <1>3, <1>4, <3>4
      <4>2. i + k = Len(unread) - 1
        BY <3>1, <4>1
      <4>3. PICK l \in Nat : l = Len(unread)
        BY <1>4
      <4>4. i \in Int /\ k \in Int /\ i = (l - k) - 1
        <5>1. i + k = l - 1
          BY <4>2, <4>3
        <5>2. i \in Int /\ k \in Int
          BY <4>1
        <5>3. QED
          BY <5>1, <5>2
      <4>5. QED
        BY <1>3, <4>3, <4>4
    <3>5. ASSUME "ok" \in acc' PROVE Len(unread') = 1
      <4>1. CASE "ok" \in acc
        <5>1. Len(unread) = 1
          BY <2>4, <4>1 DEF ClearDone
        <5>2. QED
          BY <3>2, <5>1
      <4>2. CASE "ok" \notin acc
        <5>1. PICK i \in 1..k : unread[i] = "ok"
          BY <1>3, <3>5, <4>2
        <5>2. i = Len(unread) - 1
          <6>1. i \in 1..Len(unread)
            BY <1>4
          <6>2. QED
            BY <3>1, <5>1, <6>1
        <5>3. QED
          BY <1>3, <1>4, <3>2, <5>2
      <4>3. QED
        BY <4>1, <4>2
    <3>6. ClearDone'
      BY <1>1, <2>4, <3>3, <3>4, <3>5 DEF ClearDone
    <3>7. QED
      BY <3>6
  <2>5. QED
    BY <1>4, <1>5, <2>2, <2>3, <2>4 DEF LeavingInv
<1>6. ASSUME plan[1].name = "STCMM0" PROVE Aligned(plan[1])' /\ adapter'.periodic = {}
  <2>1. PICK c : c = plan[1]
    OBVIOUS
  <2>2. Aligned(c) /\ adapter.periodic = {}
    BY <1>4, <1>6, <2>1 DEF LeavingInv
  <2>3. Aligned(c)'
    BY <1>4, <2>2, CollectAligned
  <2>4. QED
    BY <1>1, <2>1, <2>2, <2>3
<1>7. QED
  BY <1>1, <1>4, <1>5, <1>6 DEF LeavingInv

(* The answer to STPPMC is taken for what it is. *)
LEMMA LeavingAnswered ==
    ASSUME TypeOK, PlanInv, LeavingInv, leaving, leaving', Answered
    PROVE  LeavingInv'
<1>1. /\ pc = "answer" /\ acc' = {} /\ toAdapter' = toAdapter /\ adapter' = adapter
  BY AnsweredHow
<1>2. PICK n \in 1..Len(unread) :
        Ends(n) /\ IF Accepts(Head(plan).name, AnswerUpTo(n)) THEN CommandWorks ELSE CommandFails
  BY AnsweredHow
<1>3. Head(plan) = plan[1] /\ Len(plan) \in Nat /\ Len(plan) > 0
  BY <1>1, Sizes DEF Sized
<1>4. CommandWorks /\ Accepts(plan[1].name, AnswerUpTo(n))
  BY <1>2, <1>3, FailsHow DEF Over
<1>5. plan[1].name # "Request"
  BY DEF PlanInv, Cmd
<1>6. Len(plan) > 1 /\ pc' = "command" /\ plan' = Tail(plan)
  BY <1>3, <1>4, <1>5, WorksHow DEF Over
<1>7. plan[1] = Cmd("STPPMC", {}) /\ plan[2] = Cmd("STCMM0", {}) /\ Len(plan) = 2
  BY <1>6 DEF PlanInv
<1>8. plan'[1] = Cmd("STCMM0", {}) /\ Cmd("STCMM0", {}).name = "STCMM0"
  <2>1. Len(plan') = Len(plan) - 1 /\ \A i \in 1..Len(plan') : plan'[i] = plan[i + 1]
    BY <1>6, RestIs
  <2>2. QED
    BY <1>7, <2>1 DEF Cmd
<1>9. "ok" \in AnswerUpTo(n)
  BY <1>4, <1>7 DEF Accepts, Cmd
<1>10. Len(unread) \in Nat
  BY UnreadType
<1>11. \A i \in 1..(n - 1) : i \in 1..Len(unread)
  BY <1>10
<1>12. ClearDone
  <2>1. ClearQueued \/ ClearTaken \/ ClearDone
    BY <1>1, <1>7 DEF LeavingInv, Cmd
  <2>2. ~(NoOk /\ "ok" \notin acc)
    BY <1>9, <1>11 DEF AnswerUpTo, NoOk
  <2>3. QED
    BY <2>1, <2>2 DEF ClearQueued, ClearTaken, Watching
<1>13. n = Len(unread)
  <2>1. CASE "ok" \in acc
    <3>1. Len(unread) = 1
      BY <1>12, <2>1 DEF ClearDone
    <3>2. n \in 1..1
      BY <3>1
    <3>3. QED
      BY <3>1, <3>2
  <2>2. CASE "ok" \notin acc
    <3>1. PICK i \in 1..(n - 1) : unread[i] = "ok"
      BY <1>9, <2>2 DEF AnswerUpTo
    <3>2. i = Len(unread) - 1
      BY <1>11, <1>12, <3>1 DEF ClearDone
    <3>3. QED
      BY <1>10, <3>2
  <2>3. QED
    BY <2>1, <2>2
<1>14. Len(unread') = 0
  BY <1>2, <1>6, <1>10, <1>13 DEF Ends, Drops
<1>15. Quiet' /\ adapter'.periodic = {}
  BY <1>1, <1>12, <1>14 DEF Quiet, ClearDone
<1>16. QED
  BY <1>6, <1>8, <1>15 DEF LeavingInv

LEMMA LeavingSame ==
    ASSUME TypeOK, PlanInv, LeavingInv, SameTalk, leaving
    PROVE  LeavingInv'
<1>1. unread' = unread
  BY DEF SameTalk, unread
<1>2. PICK c : c = plan[1]
  OBVIOUS
<1>3. Took(adapter, c)' <=> Took(adapter, c)
  BY TookNext DEF SameTalk
<1>4. /\ NoPrompt' <=> NoPrompt
      /\ NoOk' <=> NoOk
      /\ Monitoring' <=> Monitoring
      /\ Heard' = Heard
  BY <1>1 DEF SameTalk, NoPrompt, NoOk, Monitoring, Heard
<1>5. Aligned(c) => Aligned(c)'
  <2>1. Asked(c) => Asked(c)'
    BY <1>4 DEF SameTalk, Asked
  <2>2. AskedWatcher(c) => AskedWatcher(c)'
    BY <1>4 DEF SameTalk, AskedWatcher
  <2>3. AnsweredTo(c) => AnsweredTo(c)'
    BY <1>1, <1>3, <1>4 DEF SameTalk, AnsweredTo
  <2>4. QED
    BY <2>1, <2>2, <2>3 DEF Aligned
<1>6. Quiet => Quiet'
  BY <1>1 DEF SameTalk, Quiet
<1>7. /\ Watching(Len(toAdapter)) => Watching(Len(toAdapter))'
      /\ ClearQueued => ClearQueued'
      /\ ClearTaken => ClearTaken'
      /\ ClearDone => ClearDone'
  BY <1>1, <1>4 DEF SameTalk, Watching, ClearQueued, ClearTaken, ClearDone
<1>8. pc' = pc /\ plan' = plan /\ leaving' = leaving /\ adapter' = adapter /\ plan'[1] = c
  BY <1>2 DEF SameTalk
<1>9. QED
  BY <1>2, <1>5, <1>6, <1>7, <1>8 DEF LeavingInv

LEMMA LeavingHost ==
    ASSUME TypeOK, PlanInv, SessionInv, LeavingInv, Ask \/ Read \/ Watch \/ World
    PROVE  LeavingInv'
<1>1. CASE ~leaving'
  BY <1>1 DEF LeavingInv
<1>2. CASE ~leaving /\ leaving'
  BY <1>2, LeavingBegins
<1>3. CASE leaving /\ leaving'
  <2>1. pc \in {"command", "answer"}
    BY <1>3 DEF PlanInv
  <2>2. CASE TimeOut \/ TransportFails
    <3>1. CommandFails
      BY <2>2 DEF TimeOut, TransportFails
    <3>2. QED
      BY <1>3, <3>1, FailsHow DEF Over
  <2>3. CASE Stop \/ CloseDriver
    <3>1. SameTalk
      BY <2>3 DEF Stop, CloseDriver, host, line, SameTalk
    <3>2. QED
      BY <1>3, <3>1, LeavingSame
  <2>4. Write \/ Collect \/ Answered \/ TimeOut \/ TransportFails \/ Stop \/ CloseDriver
    BY <2>1 DEF Ask, Read, Watch, World, Open, GiveUp, Tick, EndPoll, Stream, StreamFails,
                StopMonitor, Drained, Undrained, Lose
  <2>5. QED
    BY <1>3, <2>2, <2>3, <2>4, LeavingWrites, LeavingCollects, LeavingAnswered
<1>4. QED
  BY <1>1, <1>2, <1>3

(* How the end of monitoring went. *)
LEMMA DrainedHost ==
    ASSUME TypeOK, PlanInv, SessionInv, OutcomeInv, Ask \/ Read \/ Watch \/ World,
           outcome' = "drained"
    PROVE  NoMonitor' /\ (leaving' \/ pc' = "ended")
<1>1. CASE Drained
  <2>1. pc = "drain" /\ MonitorReturns(FALSE) /\ toAdapter' = toAdapter /\ adapter' = adapter
    BY <1>1, DrainedHow
  <2>2. ~leaving
    BY <2>1 DEF PlanInv
  <2>3. Watched
    BY <2>1, <2>2 DEF SessionInv
  <2>4. PICK n \in 1..Len(unread) : Ends(n)
    BY <1>1, DrainedHow
  <2>5. ~NoPrompt
    BY <2>4 DEF Ends, FirstPrompt, NoPrompt
  <2>6. NoMonitor'
    BY <2>1, <2>3, <2>5 DEF Watched, NoMonitor, Monitoring
  <2>7. leaving' \/ pc' = "ended"
    BY <2>1 DEF MonitorReturns, Return
  <2>8. QED
    BY <2>6, <2>7
<1>2. CASE ~Drained
  <2>1. outcome = "drained" /\ ~TimeOut /\ ~TransportFails /\ ~Undrained /\ ~Open
        /\ (Answered => leaving /\ leaving')
    <3>1. CASE TimeOut \/ TransportFails \/ Answered
      <4>1. pc \in {"command", "answer"}
        BY <3>1 DEF TimeOut, TransportFails, Answered
      <4>2. CASE CommandFails
        <5>1. ~leaving /\ outcome = "drained"
          BY <4>2, FailsHow
        <5>2. QED
          BY <4>1, <5>1 DEF OutcomeInv
      <4>3. CASE CommandWorks
        <5>1. outcome = "drained" /\ leaving' = leaving
          BY <4>3, WorksHow
        <5>2. leaving
          BY <4>1, <5>1 DEF OutcomeInv
        <5>3. Answered \/ CommandFails
          BY <3>1 DEF TimeOut, TransportFails
        <5>4. QED
          BY <4>2, <5>1, <5>2, <5>3 DEF Answered, TimeOut, TransportFails, Undrained, Open
      <4>4. QED
        BY <3>1, <4>2, <4>3, AnsweredHow DEF TimeOut, TransportFails
    <3>2. CASE Undrained \/ Open
      BY <3>2 DEF Undrained, Open
    <3>3. CASE ~(TimeOut \/ TransportFails \/ Answered \/ Undrained \/ Open)
      <4>1. outcome' = outcome
        BY <1>2, <3>3 DEF Ask, Read, Watch, World, GiveUp, Write, Tick, EndPoll, Collect, Stream,
             StreamFails, StopMonitor, Stop, CloseDriver, Lose, host
      <4>2. QED
        BY <3>3, <4>1
    <3>4. QED
      BY <3>1, <3>2, <3>3
  <2>2. NoMonitor /\ (leaving \/ pc = "ended") /\ (leaving => pc \in {"command", "answer"})
    BY <2>1 DEF OutcomeInv, PlanInv
  <2>3. Write \/ Collect \/ Answered \/ Stop \/ CloseDriver
    BY <1>2, <2>1, <2>2 DEF Ask, Read, Watch, World, GiveUp, Tick, EndPoll, Stream, StreamFails,
         StopMonitor, Lose
  <2>4. leaving' \/ pc' = "ended"
    BY <2>1, <2>2, <2>3 DEF Write, Collect, Stop, CloseDriver, host
  <2>5. adapter' = adapter
    BY HostLine
  <2>6. NoMonitor'
    <3>1. CASE Write
      <4>1. leaving
        BY <2>2, <3>1 DEF Write
      <4>2. plan[1].name # "Monitor"
        BY <3>1, <4>1, WrittenIs
      <4>3. Queued(plan[1]) /\ Len(toAdapter) \in Nat
        BY <3>1, WriteHow, Sizes DEF Sized
      <4>4. \A i \in 1..Len(toAdapter') : i \in 1..Len(toAdapter) \/ i = Len(toAdapter) + 1
        BY <4>3 DEF Queued
      <4>5. QED
        BY <2>2, <2>5, <4>2, <4>3, <4>4 DEF Queued, NoMonitor, Monitoring
    <3>2. CASE Collect \/ Answered \/ Stop \/ CloseDriver
      <4>1. toAdapter' = toAdapter
        BY <3>2 DEF Collect, Answered, Stop, CloseDriver, line
      <4>2. QED
        BY <2>2, <2>5, <4>1 DEF NoMonitor, Monitoring
    <3>3. QED
      BY <2>3, <3>1, <3>2
  <2>7. QED
    BY <2>4, <2>6
<1>3. QED
  BY <1>1, <1>2

LEMMA SilencedHost ==
    ASSUME TypeOK, PlanInv, LeavingInv, OutcomeInv, Ask \/ Read \/ Watch \/ World,
           outcome' = "silenced"
    PROVE  /\ pc' \in {"closed", "ended"}
           /\ Len(toAdapter') = 0
           /\ adapter'.at = "prompt"
           /\ adapter'.periodic = {}
           /\ ~adapter'.normal
<1>1. adapter' = adapter
  BY HostLine
<1>2. CASE outcome = "silenced"
  <2>1. /\ pc \in {"closed", "ended"} /\ Len(toAdapter) = 0 /\ adapter.at = "prompt"
        /\ adapter.periodic = {} /\ ~adapter.normal
    BY <1>2 DEF OutcomeInv
  <2>2. GiveUp \/ World
    BY <2>1 DEF Ask, Read, Watch, Open, Write, Tick, EndPoll, Collect, Answered, TimeOut,
         TransportFails, Stream, StreamFails, StopMonitor, Drained, Undrained
  <2>3. pc' \in {"closed", "ended"}
    BY <2>1, <2>2 DEF GiveUp, World, Stop, CloseDriver, Lose, host
  <2>4. Len(toAdapter') = 0
    BY <2>1, <2>2 DEF GiveUp, World, Stop, CloseDriver, Lose, line
  <2>5. QED
    BY <1>1, <2>1, <2>3, <2>4
<1>3. CASE outcome # "silenced"
  <2>1. Answered
    <3>1. CASE TimeOut \/ TransportFails
      <4>1. CommandFails
        BY <3>1 DEF TimeOut, TransportFails
      <4>2. QED
        BY <1>3, <4>1, FailsHow
    <3>2. CASE Open \/ Drained \/ Undrained
      BY <3>2 DEF Open, Drained, Undrained
    <3>3. CASE GiveUp \/ Write \/ Tick \/ EndPoll \/ Collect \/ Stream \/ StreamFails \/ StopMonitor
                 \/ World
      <4>1. outcome' = outcome
        BY <3>3 DEF World, GiveUp, Write, Tick, EndPoll, Collect, Stream,
             StreamFails, StopMonitor, Stop, CloseDriver, Lose, host
      <4>2. QED
        BY <1>3, <4>1
    <3>4. QED
      BY <3>1, <3>2, <3>3 DEF Ask, Read, Watch
  <2>2. PICK n \in 1..Len(unread) :
          Ends(n) /\ IF Accepts(Head(plan).name, AnswerUpTo(n)) THEN CommandWorks ELSE CommandFails
    BY <2>1, AnsweredHow
  <2>3. /\ pc = "answer" /\ toAdapter' = toAdapter /\ Head(plan) = plan[1] /\ Len(plan) > 0
    BY <2>1, AnsweredHow, Sizes DEF Sized
  <2>4. CommandWorks /\ Accepts(plan[1].name, AnswerUpTo(n))
    BY <1>3, <2>2, <2>3, FailsHow
  <2>5. ~(Len(plan) > 1) /\ leaving /\ pc' \in {"closed", "ended"}
    BY <1>3, <2>4, WorksHow DEF Over
  <2>6. PICK c : c = plan[1] /\ c.name = "STCMM0"
    BY <2>5 DEF PlanInv, Cmd
  <2>7. Aligned(c) /\ adapter.periodic = {}
    BY <2>3, <2>5, <2>6 DEF LeavingInv
  <2>8. FirstPrompt(n) /\ Accepts(c.name, AnswerUpTo(n))
    BY <2>2, <2>4, <2>6 DEF Ends
  <2>9. AnsweredTo(c) /\ Took(adapter, c)
    BY <2>7, <2>8, AcceptedTook
  <2>10. ~adapter.normal
    BY <2>6, <2>9 DEF Took
  <2>11. QED
    BY <1>1, <2>3, <2>5, <2>7, <2>9, <2>10 DEF AnsweredTo
<1>4. QED
  BY <1>2, <1>3

LEMMA OutcomeHost ==
    ASSUME TypeOK, PlanInv, SessionInv, LeavingInv, OutcomeInv, Ask \/ Read \/ Watch \/ World
    PROVE  OutcomeInv'
BY DrainedHost, SilencedHost DEF OutcomeInv

-----------------------------------------------------------------------------
(* The filter of an ELM327: one code and one mask for any set of           *)
(* identifiers, whatever their width.                                      *)

(* The adapter lets every identifier through that was asked for            *)
(* (elm327.go, combinedFilter).                                            *)
THEOREM FilterPasses ==
    ASSUME NEW ids \in SUBSET SUBSET Bits, NEW one \in ids
    PROVE  Matches(one, Code(ids), Mask(ids))
<1>1. ASSUME NEW b \in Mask(ids), b \in one PROVE b \in Code(ids)
  <2>1. b \in Bits /\ b \in OrAll(ids)
    BY <1>1 DEF Mask, OrAll
  <2>2. QED  BY <1>1, <2>1 DEF Mask
<1>2. ASSUME NEW b \in Code(ids) PROVE b \in one
  BY <1>2 DEF Code
<1>3. QED  BY <1>1, <1>2 DEF Matches

(* No code and mask that let them all through look at more bits: what the  *)
(* adapter passes beyond them no filter of one code and mask could hold    *)
(* back.                                                                   *)
THEOREM FilterTightest ==
    ASSUME NEW ids \in SUBSET SUBSET Bits, ids # {},
           NEW code \in SUBSET Bits, NEW mask \in SUBSET Bits,
           \A i \in ids : Matches(i, code, mask)
    PROVE  mask \subseteq Mask(ids)
<1> SUFFICES ASSUME NEW b \in mask PROVE b \in Mask(ids)
  OBVIOUS
<1>1. PICK one \in ids : TRUE
  OBVIOUS
<1>2. \A i \in ids : b \in i <=> b \in code
  BY DEF Matches
<1>3. CASE b \in code
  <2>1. b \in Code(ids)
    BY <1>2, <1>3 DEF Code
  <2>2. b \in OrAll(ids)
    BY <1>1, <1>2, <1>3 DEF OrAll
  <2>3. QED  BY <2>1, <2>2 DEF Mask
<1>4. CASE b \notin code
  <2>1. b \notin Code(ids)
    BY <1>1, <1>2, <1>4 DEF Code
  <2>2. b \notin OrAll(ids)
    BY <1>2, <1>4 DEF OrAll
  <2>3. QED  BY <2>1, <2>2 DEF Mask
<1>5. QED  BY <1>3, <1>4

-----------------------------------------------------------------------------
(* The invariant is inductive.                                             *)

LEMMA DeviceInit ==
    ASSUME Init
    PROVE  DeviceInv
<1>1. TypeOK
  BY InitTyped
<1>2. /\ pc = "closed" /\ plan = <<>> /\ leaving = FALSE /\ outcome = "none" /\ timeouts = 0
      /\ toAdapter = <<>> /\ toHost = <<>> /\ adapter.at # "busy"
      /\ adapter.pass = {} /\ adapter.code = {} /\ adapter.mask = {}
  <2>1. PowerOn \in Adapters /\ PowerOn.at = "prompt"
        /\ PowerOn.pass = {} /\ PowerOn.code = {} /\ PowerOn.mask = {}
    BY DEF PowerOn, Adapters
  <2>2. adapter.at # "busy" /\ adapter.pass = {} /\ adapter.code = {} /\ adapter.mask = {}
    BY <2>1 DEF Init, Adapters
  <2>3. QED
    BY <2>2 DEF Init
<1>3. Len(toAdapter) = 0 /\ Len(unread) = 0
  BY <1>2 DEF unread
<1>4. Prompts = 0
  <2>1. NoPrompt
    BY <1>3 DEF NoPrompt
  <2>2. QED
    BY <1>1, <2>1, CountFacts
<1>5. PlanInv /\ KindInv /\ OkInv /\ QueueInv
  BY <1>2, <1>3 DEF PlanInv, KindInv, OkInv, QueueInv
<1>6. CountInv
  <2>1. Occupied \in 0..1
    BY DEF Occupied
  <2>2. QED
    BY <1>2, <1>3, <1>4, <2>1 DEF CountInv
<1>7. SessionInv /\ LeavingInv /\ OutcomeInv
  BY <1>2 DEF SessionInv, LeavingInv, OutcomeInv
<1>8. QED
  BY <1>1, <1>5, <1>6, <1>7 DEF DeviceInv

LEMMA DeviceStutters ==
    ASSUME DeviceInv, UNCHANGED vars
    PROVE  DeviceInv'
<1>1. TypeOK /\ PlanInv /\ KindInv /\ OkInv /\ QueueInv /\ CountInv
      /\ SessionInv /\ LeavingInv /\ OutcomeInv
  BY DEF DeviceInv
<1>2. SameTalk /\ stop' = stop /\ timeouts' = timeouts
  BY DEF vars, SameTalk
<1>3. unread' = unread
  BY <1>2 DEF SameTalk, unread
<1>4. Session' = Session /\ Polling' = Polling
  BY <1>2, SameSession DEF SameTalk
<1>5. TypeOK'
  BY <1>1 DEF TypeOK, vars
<1>6. PlanInv'
  <2>1. Done' = Done
    BY <1>2, <1>4 DEF SameTalk, Done
  <2>2. QED
    BY <1>1, <1>2, <1>4, <2>1 DEF SameTalk, PlanInv
<1>7. KindInv'
  BY <1>1, <1>2 DEF SameTalk, KindInv, Kindred
<1>8. OkInv'
  BY <1>1, <1>2, <1>3 DEF SameTalk, OkInv
<1>9. QueueInv'
  BY <1>1, <1>2 DEF SameTalk, QueueInv, Monitoring
<1>10. CountInv'
  <2>1. Prompts' = Prompts /\ Occupied' = Occupied /\ (Configuring' <=> Configuring)
    BY <1>2, <1>3 DEF SameTalk, Prompts, Occupied, Configuring
  <2>2. QED
    BY <1>1, <1>2, <2>1 DEF SameTalk, CountInv
<1>11. SessionInv'
  BY <1>1, <1>2, SessionSame
<1>12. LeavingInv'
  <2>1. CASE leaving
    BY <1>1, <1>2, <2>1, LeavingSame
  <2>2. CASE ~leaving
    BY <1>2, <2>2 DEF SameTalk, LeavingInv
  <2>3. QED
    BY <2>1, <2>2
<1>13. OutcomeInv'
  BY <1>1, <1>2 DEF SameTalk, OutcomeInv, NoMonitor, Monitoring
<1>14. QED
  BY <1>5, <1>6, <1>7, <1>8, <1>9, <1>10, <1>11, <1>12, <1>13 DEF DeviceInv

LEMMA DeviceInduction == Spec => []DeviceInv
<1>1. Init => DeviceInv
  BY DeviceInit
<1>2. DeviceInv /\ [Next]_vars => DeviceInv'
  <2> SUFFICES ASSUME DeviceInv, [Next]_vars PROVE DeviceInv'
    OBVIOUS
  <2>1. TypeOK /\ PlanInv /\ KindInv /\ OkInv /\ QueueInv /\ CountInv
        /\ SessionInv /\ LeavingInv /\ OutcomeInv
    BY DEF DeviceInv
  <2>2. CASE Ask \/ Read \/ Watch \/ World
    <3>1. TypeOK' /\ PlanInv' /\ KindInv'
      BY <2>1, <2>2, HostTyped, PlanHost, KindHost
    <3>2. OkInv' /\ QueueInv' /\ CountInv'
      BY <2>1, <2>2, OkHost, QueueHost, CountHost
    <3>3. SessionInv' /\ LeavingInv' /\ OutcomeInv'
      BY <2>1, <2>2, SessionHost, LeavingHost, OutcomeHost
    <3>4. QED
      BY <3>1, <3>2, <3>3 DEF DeviceInv
  <2>3. CASE Adapter
    <3>1. TypeOK' /\ PlanInv' /\ KindInv'
      BY <2>1, <2>3, AdapterHow, PlanAdapter, KindAdapter
    <3>2. OkInv' /\ QueueInv' /\ CountInv'
      BY <2>1, <2>3, OkAdapter, QueueAdapter, CountAdapter
    <3>3. SessionInv' /\ LeavingInv' /\ OutcomeInv'
      BY <2>1, <2>3, SessionAdapter, LeavingAdapter, OutcomeAdapter
    <3>4. QED
      BY <3>1, <3>2, <3>3 DEF DeviceInv
  <2>4. CASE UNCHANGED vars
    BY <2>4, DeviceStutters
  <2>5. QED
    BY <2>2, <2>3, <2>4 DEF Next
<1>3. QED
  BY <1>1, <1>2, PTL DEF Spec

(***************************************************************************)
(* Every variable of the conversation keeps its type.                      *)
(***************************************************************************)
THEOREM DeviceTypes == Spec => []TypeOK
<1>1. DeviceInv => TypeOK
  BY DEF DeviceInv
<1>2. QED
  BY <1>1, DeviceInduction, PTL

(***************************************************************************)
(* Once connect has returned without an error nothing of an earlier        *)
(* command is under way (device.go, command and readUntilPrompt, which     *)
(* take the next prompt for the end of the current answer).                *)
(***************************************************************************)
THEOREM LaterAnswersMatch == Spec => []AnswersMatch
<1>1. DeviceInv => AnswersMatch
  <2> SUFFICES ASSUME DeviceInv, pc = "command", ~leaving, ~Configuring
               PROVE  adapter.at = "prompt" /\ toAdapter = <<>> /\ toHost \o pending = <<>>
    BY DEF AnswersMatch
  <2>1. TypeOK /\ PlanInv /\ SessionInv
    BY DEF DeviceInv
  <2>2. Quiet
    BY <2>1, QuietFirst
  <2>3. toAdapter \in Seq(Commands) /\ toHost \in Seq(Texts \cup {Prompt})
        /\ pending \in Seq(Texts \cup {Prompt})
    BY <2>1 DEF TypeOK
  <2>4. toAdapter = <<>>
    BY <2>2, <2>3, EmptySeq DEF Quiet
  <2>5. Len(toHost) = 0 /\ Len(pending) = 0
    <3>1. Len(pending \o toHost) = 0
      BY <2>2 DEF Quiet, unread
    <3>2. PICK a \in Nat, b \in Nat : a = Len(pending) /\ b = Len(toHost)
      BY <2>3
    <3>3. a + b = 0
      BY <2>3, <3>1, <3>2, ConcatProperties
    <3>4. QED
      BY <3>2, <3>3
  <2>6. toHost = <<>> /\ pending = <<>>
    BY <2>3, <2>5, EmptySeq
  <2>7. QED
    BY <2>2, <2>4, <2>6 DEF Quiet
<1>2. QED
  BY <1>1, DeviceInduction, PTL

-----------------------------------------------------------------------------
(* What a running session has established.                                 *)

LEMMA RunsEstablished ==
    ASSUME DeviceInv, Running, ~leaving
    PROVE  \E n \in Nat : /\ Len(Configuration) <= n /\ n <= Len(Session) /\ Established(n)
                          /\ driver.mode = "hybrid" => Len(Session) <= n + 1
<1>1. TypeOK /\ PlanInv /\ SessionInv /\ driver \in Drivers
  BY DEF DeviceInv, TypeOK
<1>2. Len(Session) \in Nat /\ Len(Configuration) \in Nat /\ Len(Configuration) <= Len(Session)
  BY <1>1, SessionIs
<1>3. CASE pc \in {"stream", "tick", "drain"}
  <2>1. Established(Len(Session))
    BY <1>1, <1>3 DEF SessionInv
  <2>2. QED
    BY <1>2, <2>1
<1>4. CASE plan # <<>> /\ Streams(Head(plan)) /\ pc \in {"command", "answer"}
  <2>1. /\ Head(plan) = plan[1] /\ Done \in Nat /\ Done + 1 \in 1..Len(Session)
        /\ plan[1] = Session[Done + 1]
        /\ Len(Session) = Done + Len(plan) /\ Len(plan) \in Nat
        /\ Len(Polling) \in Nat /\ Len(Session) = Len(Configuration) + Len(Polling)
        /\ Left = Len(plan) - Len(Polling)
        /\ Configuring <=> Left >= 1
    BY <1>1, <1>4, CurrentIs
  <2>2. ~Configuring
    BY <1>4 DEF Configuring, Streams, Configures
  <2>3. Left \in Int /\ Left < 1 /\ Len(Configuration) <= Done /\ Done <= Len(Session)
    BY <1>2, <2>1, <2>2
  <2>4. Established(Done)
    <3>1. CASE pc = "command"
      BY <1>1, <2>2, <3>1, QuietFirst
    <3>2. CASE pc = "answer"
      BY <1>1, <2>3, <3>2, StrayNone DEF SessionInv
    <3>3. QED
      BY <1>4, <3>1, <3>2
  <2>5. ASSUME driver.mode = "hybrid" PROVE Len(Session) <= Done + 1
    <3>1. Session[Done + 1].name \in {"Monitor", "Request"}
      BY <1>4, <2>1 DEF Streams
    <3>2. Done + 1 = Len(Session)
      BY <1>1, <2>1, <2>5, <3>1, SessionNames
    <3>3. QED
      BY <1>2, <3>2
  <2>6. QED
    BY <2>1, <2>3, <2>4, <2>5
<1>5. pc \in {"stream", "tick", "drain"}
      \/ (plan # <<>> /\ Streams(Head(plan)) /\ pc \in {"command", "answer"})
  BY <1>1 DEF Running, PlanInv, TypeOK
<1>6. QED
  BY <1>3, <1>4, <1>5

(* Each command of connect has been accepted for its own answer. *)
LEMMA ConfigurationTook ==
    ASSUME driver \in Drivers, NEW n \in Nat, Established(n), Len(Configuration) <= n,
           NEW i \in 1..Len(Configuration)
    PROVE  Took(adapter, Configuration[i])
<1>1. i \in 1..n /\ Session[i] = Configuration[i]
  BY SessionIs
<1>2. QED
  BY <1>1 DEF Established

LEMMA SettingsTook ==
    ASSUME driver \in Drivers, adapter \in Adapters,
           NEW n \in Nat, Established(n), Len(Configuration) <= n
    PROVE  adapter.set = Range(Settings)
<1>1. adapter.set \subseteq Range(Settings)
  BY DEF Adapters
<1>2. ASSUME NEW name \in Range(Settings) PROVE name \in adapter.set
  <2>1. PICK i \in 1..7 : Settings[i] = name
    BY SettingNames
  <2>2. i + 1 \in 2..8 /\ (i + 1) - 1 = i /\ i + 1 \in 1..Len(Configuration)
    BY ConfigurationIs, SessionIs
  <2>3. Configuration[i + 1] = Cmd(Settings[i], {})
    BY <2>2, ConfigurationIs
  <2>4. Configuration[i + 1].name = name
    BY <2>1, <2>3 DEF Cmd
  <2>5. Took(adapter, Configuration[i + 1])
    BY <2>2, ConfigurationTook
  <2>6. QED
    BY <2>4, <2>5 DEF Took
<1>3. QED
  BY <1>1, <1>2

LEMMA WantedIs ==
    ASSUME driver \in Drivers
    PROVE  IF driver.filters = {} THEN Filters = {} /\ Wanted = SUBSET Bits
           ELSE Filters # {} /\ Wanted = Filters
BY DEF Wanted, Filters, MergeUnique

LEMMA ElmPasses ==
    ASSUME driver \in Drivers, driver.kind = "elm327", KindInv, adapter \in Adapters,
           NEW n \in Nat, Established(n), Len(Configuration) <= n, NEW one \in Wanted
    PROVE  LetsThrough(adapter, one)
<1>1. adapter.pass = {}
  BY DEF KindInv
<1>2. CASE Filters = {}
  <2>1. Len(Configuration) = 9 /\ Configuration[9] = Cmd("ATCM", {})
    BY <1>2, ConfigurationIs
  <2>2. Took(adapter, Configuration[9])
    <3>1. 9 \in 1..Len(Configuration)
      BY <2>1
    <3>2. QED
      BY <3>1, ConfigurationTook
  <2>3. adapter.mask = {}
    BY <2>1, <2>2 DEF Took, Cmd
  <2>4. QED
    BY <1>1, <2>3 DEF LetsThrough, Matches
<1>3. CASE Filters # {}
  <2>1. Len(Configuration) = 10 /\ Configuration[9] = Cmd("ATCF", Code(Filters))
        /\ Configuration[10] = Cmd("ATCM", Mask(Filters))
    BY <1>3, ConfigurationIs
  <2>2. Took(adapter, Configuration[9]) /\ Took(adapter, Configuration[10])
    <3>1. 9 \in 1..Len(Configuration) /\ 10 \in 1..Len(Configuration)
      BY <2>1
    <3>2. QED
      BY <3>1, ConfigurationTook
  <2>3. adapter.code = Code(Filters)
    BY <2>1, <2>2 DEF Took, Cmd
  <2>4. adapter.mask = Mask(Filters)
    BY <2>1, <2>2 DEF Took, Cmd
  <2>5. one \in Filters /\ Filters \in SUBSET SUBSET Bits
    BY <1>3, WantedIs, FiltersType
  <2>6. Matches(one, Code(Filters), Mask(Filters))
    BY <2>5, FilterPasses
  <2>7. QED
    BY <1>1, <2>3, <2>4, <2>6 DEF LetsThrough
<1>4. QED
  BY <1>2, <1>3

LEMMA StnPasses ==
    ASSUME driver \in Drivers, driver.kind = "stn", KindInv,
           NEW n \in Nat, Established(n), Len(Configuration) <= n, NEW one \in Wanted
    PROVE  LetsThrough(adapter, one)
<1>1. adapter.code = {} /\ adapter.mask = {}
  BY DEF KindInv
<1>2. Matches(one, adapter.code, adapter.mask)
  BY <1>1 DEF Matches
<1>3. FilterSeq \in Seq(Filters) /\ Len(FilterSeq) \in Nat
  BY StnFilterCommandsAre
<1>4. Len(Configuration) = 10 + Len(FilterSeq) /\ Configuration[9] = Cmd("STFPC", {})
  BY ConfigurationIs
<1>5. CASE Filters = {}
  <2>1. 9 \in 1..Len(Configuration)
    BY <1>3, <1>4
  <2>2. Took(adapter, Configuration[9])
    BY <2>1, ConfigurationTook
  <2>3. adapter.pass = {}
    BY <1>4, <1>5, <2>2 DEF Took, Cmd
  <2>4. QED
    BY <1>2, <2>3 DEF LetsThrough
<1>6. CASE Filters # {}
  <2>1. one \in Filters
    BY <1>6, WantedIs
  <2>2. PICK i \in 1..Len(FilterSeq) : FilterSeq[i] = one
    BY <2>1, StnFilterCommandsAre
  <2>3. 10 + i \in 1..Len(Configuration)
    BY <1>3, <1>4
  <2>4. Configuration[10 + i] = Cmd("STFPA", one)
    BY <2>2, ConfigurationIs
  <2>5. Took(adapter, Configuration[10 + i])
    BY <2>3, ConfigurationTook
  <2>6. one \in adapter.pass
    BY <2>4, <2>5 DEF Took, Cmd
  <2>7. QED
    BY <1>2, <2>6 DEF LetsThrough
<1>7. QED
  BY <1>5, <1>6

LEMMA HybridPolls ==
    ASSUME driver \in Drivers, adapter \in Adapters, driver.mode = "hybrid",
           NEW n \in Nat, Established(n), Len(Session) <= n + 1
    PROVE  adapter.periodic = PIDs /\ adapter.normal
<1>1. PidSeq \in Seq(PIDs) /\ Len(PidSeq) \in Nat
      /\ \A x \in PIDs : \E i \in 1..Len(PidSeq) : PidSeq[i] = x
  <2>1. /\ PidSeq \in Seq(PIDs)
        /\ \A x \in PIDs : \E i \in DOMAIN PidSeq : PidSeq[i] = x
    BY SetToSeqFacts, DeviceAssumption DEF PidSeq
  <2>2. QED
    BY <2>1
<1>2. PICK k \in Nat : k = Len(PidSeq)
  BY <1>1
<1>3. /\ Len(Polling) = k + 2
      /\ Polling[1] = Cmd("STCMM1", {})
      /\ \A i \in 1..k : Polling[1 + i] = Cmd("STPPMA", {PidSeq[i]})
  BY <1>2, PollingIs
<1>4. PICK c \in Nat : c = Len(Configuration)
  BY SessionIs
<1>5. ASSUME NEW i \in 1..(k + 1) PROVE Took(adapter, Polling[i])
  <2>1. Len(Session) = c + (k + 2) /\ i \in 1..Len(Polling)
    BY <1>3, <1>4, SessionIs
  <2>2. Session[c + i] = Polling[i]
    BY <1>4, <2>1, SessionIs
  <2>3. c + i \in 1..n
    BY <2>1
  <2>4. Took(adapter, Session[c + i])
    BY <2>3 DEF Established
  <2>5. QED
    BY <2>2, <2>4
<1>6. adapter.normal
  <2>1. Took(adapter, Cmd("STCMM1", {}))
    <3>1. 1 \in 1..(k + 1)
      OBVIOUS
    <3>2. QED
      BY <1>3, <1>5, <3>1
  <2>2. QED
    BY <2>1 DEF Took, Cmd
<1>7. ASSUME NEW x \in PIDs PROVE x \in adapter.periodic
  <2>1. PICK i \in 1..k : PidSeq[i] = x
    BY <1>1, <1>2
  <2>2. 1 + i \in 1..(k + 1) /\ Polling[1 + i] = Cmd("STPPMA", {x})
    BY <1>3, <2>1
  <2>3. Took(adapter, Cmd("STPPMA", {x}))
    BY <1>5, <2>2
  <2>4. {x} \subseteq adapter.periodic
    BY <2>3 DEF Took, Cmd
  <2>5. QED
    BY <2>4
<1>8. adapter.periodic \subseteq PIDs
  BY DEF Adapters
<1>9. QED
  BY <1>6, <1>7, <1>8

(***************************************************************************)
(* Whoever streams or polls does so with an adapter on which every setting *)
(* took effect, whose filters pass what was asked for and which in hybrid  *)
(* mode polls every PID (elm327.go and stn.go, Init, SetFilters and        *)
(* StartPeriodic): whatever an answer of an earlier session made connect   *)
(* believe, it did not get this far with it.                               *)
(***************************************************************************)
THEOREM RunsAsConfigured == Spec => []StreamsConfigured
<1>1. DeviceInv => StreamsConfigured
  <2> SUFFICES ASSUME DeviceInv, Running, ~leaving
               PROVE  /\ adapter.set = Range(Settings)
                      /\ \A id \in Wanted : LetsThrough(adapter, id)
                      /\ driver.mode = "hybrid" => adapter.periodic = PIDs /\ adapter.normal
    BY DEF StreamsConfigured
  <2>1. driver \in Drivers /\ adapter \in Adapters /\ KindInv
    BY DEF DeviceInv, TypeOK
  <2>2. PICK n \in Nat : /\ Len(Configuration) <= n /\ n <= Len(Session) /\ Established(n)
                         /\ driver.mode = "hybrid" => Len(Session) <= n + 1
    BY RunsEstablished
  <2>3. adapter.set = Range(Settings)
    BY <2>1, <2>2, SettingsTook
  <2>4. ASSUME NEW id \in Wanted PROVE LetsThrough(adapter, id)
    <3>1. driver.kind \in {"elm327", "stn"}
      BY <2>1 DEF Drivers
    <3>2. QED
      BY <2>1, <2>2, <2>4, <3>1, ElmPasses, StnPasses
  <2>5. driver.mode = "hybrid" => adapter.periodic = PIDs /\ adapter.normal
    BY <2>1, <2>2, HybridPolls
  <2>6. QED
    BY <2>3, <2>4, <2>5
<1>2. QED
  BY <1>1, DeviceInduction, PTL

(***************************************************************************)
(* A prompt that ended the drain means that the adapter has left monitor   *)
(* mode, and a StopPeriodic that reports success that it polls no more     *)
(* (device.go, stopMonitor; stn.go, StopPeriodic).                         *)
(***************************************************************************)
THEOREM StopsQuietly == Spec => []StopLeavesQuiet
<1>1. DeviceInv => StopLeavesQuiet
  BY DEF DeviceInv, OutcomeInv, NoMonitor, Monitoring, StopLeavesQuiet
<1>2. QED
  BY <1>1, DeviceInduction, PTL

=============================================================================
