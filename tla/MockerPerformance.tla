------------------------- MODULE MockerPerformance --------------------------
(***************************************************************************)
(* The simulated platform's performance handler, performance_send_message  *)
(* of transport_performance.c.                                             *)
(*                                                                         *)
(* It keeps, for each domain, the limits and the level last set, zero as   *)
(* long as none was.  LIMITS_GET and LEVEL_GET put the ends of the         *)
(* domain's table of levels in the place of zero; LEVEL_SET does not.      *)
(*                                                                         *)
(* The tables of pal_performance_expected.h are one record, performance:   *)
(*   domains                   num_performance_domains                     *)
(*   limitable, levelable      the domains whose limits and level may be set *)
(*   limitNotify, levelNotify  those that notify of changes                *)
(*   fastDomains, fastMessages the domains and messages with fast channels *)
(*   levels[d]                 the levels of domain d, lowest first        *)
(*   channel[d][m]             what DESCRIBE_FASTCHANNEL tells of message m *)
(***************************************************************************)
EXTENDS MockerHandler

CONSTANTS
  performance,
  Garbage,     \* what lies past the end of a table
  Id, Level    \* parameters: ids, indexes and flags; levels

DomainId == 0..(performance.domains - 1)
Top(d)    == performance.levels[d][Len(performance.levels[d])]
Bottom(d) == performance.levels[d][1]

ASSUME DomainsAssumption == performance.domains \in Nat \ {0}
ASSUME LevelsAssumption ==
  \A d \in DomainId : /\ performance.levels[d] \in Seq(Nat \ {0}) \ {<<>>}
                      /\ Bottom(d) <= Top(d)
ASSUME RequestAssumption == Id \subseteq Nat /\ Level \subseteq Nat

VARIABLES
  max_limit, min_limit,   \* perf_level_max_limit, perf_level_min_limit
  current                 \* perf_level_current

settings == <<max_limit, min_limit, current>>

-----------------------------------------------------------------------------
PerformanceRespond(m, a, st, v) == Respond(PROTOCOL_PERFORMANCE, m, a, st, v)

\* The commands that change nothing.
Report(m, a, st, v) == PerformanceRespond(m, a, st, v) /\ UNCHANGED settings

Version ==
  Report(PROTOCOL_VERSION, <<>>, SCMI_SUCCESS, [version |-> 2])

Attributes ==
  Report(PROTOCOL_ATTRIBUTES, <<>>, SCMI_SUCCESS,
         [domains |-> performance.domains, statistics |-> performance.statistics])

MessageAttributes(id) ==
  Report(PROTOCOL_MESSAGE_ATTRIBUTES, <<id>>,
         IF id > PERFORMANCE_DESCRIBE_FASTCHANNEL THEN SCMI_NOT_FOUND ELSE SCMI_SUCCESS,
         [fast |-> id \in performance.fastMessages])

Unknown(id) == Report(id, <<>>, SCMI_NOT_FOUND, NoValues)

FoundStatus(d) == IF d >= performance.domains THEN SCMI_NOT_FOUND ELSE SCMI_SUCCESS

DomainAttributes(d) ==
  Report(PERFORMANCE_DOMAIN_ATTRIBUTES, <<d>>, FoundStatus(d),
         [limit       |-> d \in performance.limitable,
          level       |-> d \in performance.levelable,
          limitNotify |-> d \in performance.limitNotify,
          levelNotify |-> d \in performance.levelNotify,
          fast        |-> d \in performance.fastDomains,
          name        |-> d])

\* All the levels, whatever the index asked for; none remain.
DescribeLevelsStatus(d, index) ==
  IF d \notin DomainId THEN SCMI_NOT_FOUND
  ELSE IF index >= Len(performance.levels[d]) THEN SCMI_INVALID_PARAMETERS
  ELSE SCMI_SUCCESS

DescribeLevels(d, index) ==
  Report(PERFORMANCE_DESCRIBE_LEVELS, <<d, index>>, DescribeLevelsStatus(d, index),
         [levels |-> IF d \in DomainId THEN performance.levels[d] ELSE NoValues,
          remaining |-> 0])

-----------------------------------------------------------------------------
(* Limits.                                                                 *)

LimitsSetStatus(d, max, min) ==
  IF d \notin DomainId THEN SCMI_NOT_FOUND
  ELSE IF d \notin performance.limitable THEN SCMI_DENIED
  ELSE IF max > Top(d) \/ min < Bottom(d) THEN SCMI_OUT_OF_RANGE
  ELSE IF max < min THEN SCMI_INVALID_PARAMETERS
  ELSE SCMI_SUCCESS

\* Mutant: the limits are kept although they are refused.
LimitsSetEarly(d, max, min) ==
  /\ PerformanceRespond(PERFORMANCE_LIMITS_SET, <<d, max, min>>, LimitsSetStatus(d, max, min),
                        NoValues)
  /\ IF d \in DomainId \cap performance.limitable
     THEN /\ max_limit' = [max_limit EXCEPT ![d] = max]
          /\ min_limit' = [min_limit EXCEPT ![d] = min]
     ELSE UNCHANGED <<max_limit, min_limit>>
  /\ UNCHANGED current

LimitsSet(d, max, min) ==
  /\ PerformanceRespond(PERFORMANCE_LIMITS_SET, <<d, max, min>>, LimitsSetStatus(d, max, min),
                        NoValues)
  /\ IF LimitsSetStatus(d, max, min) = SCMI_SUCCESS
     THEN /\ max_limit' = [max_limit EXCEPT ![d] = max]
          /\ min_limit' = [min_limit EXCEPT ![d] = min]
     ELSE UNCHANGED <<max_limit, min_limit>>
  /\ UNCHANGED current

\* What LIMITS_GET tells: the whole range as long as no limits were set.
NoLimits(d) == max_limit[d] = 0 /\ min_limit[d] = 0
RangeMax(d) == IF NoLimits(d) THEN Top(d) ELSE max_limit[d]
RangeMin(d) == IF NoLimits(d) THEN Bottom(d) ELSE min_limit[d]

\* Mutant: limits that were never set are told as they are kept.
LimitsGetRaw(d) ==
  Report(PERFORMANCE_LIMITS_GET, <<d>>, FoundStatus(d),
         IF d \in DomainId THEN [max |-> max_limit[d], min |-> min_limit[d]] ELSE NoValues)

LimitsGet(d) ==
  Report(PERFORMANCE_LIMITS_GET, <<d>>, FoundStatus(d),
         IF d \in DomainId THEN [max |-> RangeMax(d), min |-> RangeMin(d)] ELSE NoValues)

-----------------------------------------------------------------------------
(* Levels.                                                                 *)

\* Mutant: the lower limit is not looked at.
LevelSetAnyLow(d, level) ==
  IF d \notin DomainId THEN SCMI_NOT_FOUND
  ELSE IF d \notin performance.levelable THEN SCMI_DENIED
  ELSE IF max_limit[d] < level THEN SCMI_OUT_OF_RANGE
  ELSE SCMI_SUCCESS

\* Against the limits as they are kept: before limits are set, every level is
\* above them.
LevelSetStatus(d, level) ==
  IF d \notin DomainId THEN SCMI_NOT_FOUND
  ELSE IF d \notin performance.levelable THEN SCMI_DENIED
  ELSE IF max_limit[d] < level \/ min_limit[d] > level THEN SCMI_OUT_OF_RANGE
  ELSE SCMI_SUCCESS

\* Mutant: the table has room for the domain past the last.
LevelSetPastEnd(d, level) ==
  /\ PerformanceRespond(PERFORMANCE_LEVEL_SET, <<d, level>>, SCMI_SUCCESS, NoValues)
  /\ current' = IF d <= performance.domains
                THEN [x \in DomainId \cup {d} |-> IF x = d THEN level ELSE current[x]]
                ELSE current
  /\ UNCHANGED <<max_limit, min_limit>>

LevelSet(d, level) ==
  /\ PerformanceRespond(PERFORMANCE_LEVEL_SET, <<d, level>>, LevelSetStatus(d, level), NoValues)
  /\ current' = IF LevelSetStatus(d, level) = SCMI_SUCCESS
                THEN [current EXCEPT ![d] = level] ELSE current
  /\ UNCHANGED <<max_limit, min_limit>>

CurrentLevel(d) == IF current[d] = 0 THEN Bottom(d) ELSE current[d]

LevelGet(d) ==
  Report(PERFORMANCE_LEVEL_GET, <<d>>, FoundStatus(d),
         IF d \in DomainId THEN [level |-> CurrentLevel(d)] ELSE NoValues)

-----------------------------------------------------------------------------
(* Notifications and fast channels.                                        *)

\* Nothing is kept of what is enabled, and nothing is ever notified.
NotifyStatus(d, capable, enable) ==
  IF d >= performance.domains THEN SCMI_NOT_FOUND
  ELSE IF d \notin capable THEN SCMI_NOT_SUPPORTED
  ELSE IF enable > 1 THEN SCMI_INVALID_PARAMETERS
  ELSE SCMI_SUCCESS

NotifyLimits(d, enable) ==
  Report(PERFORMANCE_NOTIFY_LIMITS, <<d, enable>>,
         NotifyStatus(d, performance.limitNotify, enable), NoValues)

NotifyLevel(d, enable) ==
  Report(PERFORMANCE_NOTIFY_LEVEL, <<d, enable>>,
         NotifyStatus(d, performance.levelNotify, enable), NoValues)

Channelled == PERFORMANCE_LIMITS_SET..PERFORMANCE_LEVEL_GET

\* Its check of the domain lets the one past the last through: what it reads
\* of that one's support lies past the end of the table (stray).
DescribeFastChannelStatus(d, m, stray) ==
  IF d > performance.domains \/ m > PERFORMANCE_DESCRIBE_FASTCHANNEL THEN SCMI_NOT_FOUND
  ELSE IF \/ IF d = performance.domains THEN ~stray ELSE d \notin performance.fastDomains
          \/ m \notin performance.fastMessages
          \/ m \notin Channelled
       THEN SCMI_NOT_SUPPORTED
  ELSE SCMI_SUCCESS

DescribeFastChannel(d, m) ==
  \E stray \in BOOLEAN :
    Report(PERFORMANCE_DESCRIBE_FASTCHANNEL, <<d, m>>, DescribeFastChannelStatus(d, m, stray),
           IF d \in DomainId /\ m \in Channelled THEN performance.channel[d][m] ELSE Garbage)

-----------------------------------------------------------------------------
\* The arrays are static.
PerformanceInit ==
  /\ max_limit = [d \in DomainId |-> 0] /\ min_limit = [d \in DomainId |-> 0]
  /\ current = [d \in DomainId |-> 0]

\* performance_send_message.
Handle(m, a) ==
  \/ m = PROTOCOL_VERSION /\ Version
  \/ m = PROTOCOL_ATTRIBUTES /\ Attributes
  \/ m = PROTOCOL_MESSAGE_ATTRIBUTES /\ MessageAttributes(a[1])
  \/ m = PERFORMANCE_DOMAIN_ATTRIBUTES /\ DomainAttributes(a[1])
  \/ m = PERFORMANCE_DESCRIBE_LEVELS /\ DescribeLevels(a[1], a[2])
  \/ m = PERFORMANCE_LIMITS_SET /\ LimitsSet(a[1], a[2], a[3])
  \/ m = PERFORMANCE_LIMITS_GET /\ LimitsGet(a[1])
  \/ m = PERFORMANCE_LEVEL_SET /\ LevelSet(a[1], a[2])
  \/ m = PERFORMANCE_LEVEL_GET /\ LevelGet(a[1])
  \/ m = PERFORMANCE_NOTIFY_LIMITS /\ NotifyLimits(a[1], a[2])
  \/ m = PERFORMANCE_NOTIFY_LEVEL /\ NotifyLevel(a[1], a[2])
  \/ m = PERFORMANCE_DESCRIBE_FASTCHANNEL /\ DescribeFastChannel(a[1], a[2])
  \/ m > PERFORMANCE_DESCRIBE_FASTCHANNEL /\ Unknown(m)

Init ==
  /\ PerformanceInit
  /\ NothingAsked(PROTOCOL_PERFORMANCE)

Next ==
  \/ Version \/ Attributes
  \/ \E w \in Id : \/ MessageAttributes(w) \/ DomainAttributes(w)
                   \/ LimitsGet(w) \/ LevelGet(w)
                   \/ w > PERFORMANCE_DESCRIBE_FASTCHANNEL /\ Unknown(w)
  \/ \E d, w \in Id : \/ DescribeLevels(d, w) \/ DescribeFastChannel(d, w)
                      \/ NotifyLimits(d, w) \/ NotifyLevel(d, w)
  \/ \E d \in Id, x \in Level : LevelSet(d, x)
  \/ \E d \in Id, max, min \in Level : LimitsSet(d, max, min)

vars == <<settings, reply>>

Spec == Init /\ [][Next]_vars

-----------------------------------------------------------------------------
(* Properties.                                                             *)

TypeOK ==
  /\ max_limit \in [DomainId -> Nat] /\ min_limit \in [DomainId -> Nat]
  /\ current \in [DomainId -> Nat]

\* The limits LIMITS_GET tells are at any time inside the range of levels the
\* domain lists, and in order: none were set, or both were.
LimitsInTable ==
  \A d \in DomainId :
    \/ NoLimits(d)
    \/ Bottom(d) <= min_limit[d] /\ min_limit[d] <= max_limit[d] /\ max_limit[d] <= Top(d)

\* The level LEVEL_GET tells is in the range of levels the domain lists, though
\* limits that came after it may have left it outside.
LevelInTable ==
  \A d \in DomainId : Bottom(d) <= CurrentLevel(d) /\ CurrentLevel(d) <= Top(d)

\* The mocker keeps limits and levels as the suite assumes of a platform: it
\* implements PerformanceContract, whatever the sequence of requests.
Contract == INSTANCE PerformanceContract
              WITH Domain <- DomainId, Lowest <- Bottom, Highest <- Top,
                   limits <- [d \in DomainId |-> [max |-> RangeMax(d), min |-> RangeMin(d)]],
                   level  <- [d \in DomainId |-> CurrentLevel(d)]

KeepsContract ==
  Contract!WholeRange
  /\ [][Contract!Keep(reply'.request, reply'.status, reply'.value)]_vars

=============================================================================
