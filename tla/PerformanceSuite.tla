-------------------------- MODULE PerformanceSuite --------------------------
(***************************************************************************)
(* The performance suite: val_performance.c and test_pool/performance.     *)
(*                                                                         *)
(* The suite keeps what its tests learn in g_performance_info_table (info) *)
(* and compares it with what pal_performance_get_expected_* say the        *)
(* platform has (expected, a record as MockerPerformance describes).       *)
(* Suites are not state machines of their own: Program tells the steps a   *)
(* test starts with, More the steps an answer adds to them, and Learned    *)
(* what the table becomes.                                                 *)
(***************************************************************************)
EXTENDS TestEngine

VARIABLES info, expected

PERFORMANCE_INVALID_COMMAND == 12
INVALID_NOTIFY_EN_VAL       == 255
NOTIFY_ENABLE               == 1
NOTIFY_DISABLE              == 0
PERFORMANCE_LIMITS_CHANGED  == 0
PERFORMANCE_LEVEL_CHANGED   == 1

Perf(m, a, e)      == Ask(PROTOCOL_PERFORMANCE, m, a, e)
PerfValue(m, a, w) == AskValue(PROTOCOL_PERFORMANCE, m, a, w)
PerfLearn(m, a, l) == AskAndLearn(PROTOCOL_PERFORMANCE, m, a, l)

-----------------------------------------------------------------------------
(* The table.  Rows not written yet are zero.                              *)

NoRow == [limitable |-> FALSE, levelable |-> FALSE, limitNotify |-> FALSE,
          levelNotify |-> FALSE, fast |-> FALSE, max |-> 0, mid |-> 0, min |-> 0]

NothingLearnt ==
  [domains |-> 0, statistics |-> [low |-> 0, high |-> 0, len |-> 0],
   fastSlots |-> {}, row |-> <<>>]

Domain(d) == IF d \in DOMAIN info.row THEN info.row[d] ELSE NoRow
WithDomain(d, row) ==
  [info EXCEPT !.row = [x \in DOMAIN info.row \cup {d} |-> IF x = d THEN row ELSE @[x]]]

\* Where the table keeps whether message m has a fast channel: of the four
\* fields of PERFORMANCE_CMD_FAST_CH_SUPPORT_s two are used.
FastSlot(m) ==
  IF m \in {PERFORMANCE_LIMITS_SET, PERFORMANCE_LEVEL_SET}
  THEN PERFORMANCE_LEVEL_SET ELSE PERFORMANCE_LEVEL_GET

HasFastChannel(m) == FastSlot(m) \in info.fastSlots

\* Mutant: the id right after the last, which some handlers take for a domain.
FirstPastLast == info.domains

InvalidDomain == info.domains + 1

\* 32-bit arithmetic at zero; Highest is above every level there is.
Highest == 2147483647
Below(level) == IF level = 0 THEN Highest ELSE level - 1

\* The tests of all domains, of those that are capable and of the others.
IfDomains(program) == IfSome(info.domains, program)
ForDomains(Capable(_), Steps(_)) == ForCapable(info.domains, Capable, Steps)

Limitable(d)   == Domain(d).limitable
Levelable(d)   == Domain(d).levelable
LimitNotify(d) == Domain(d).limitNotify
LevelNotify(d) == Domain(d).levelNotify
Fast(d)        == Domain(d).fast
Unlimitable(d) == ~Limitable(d)
Unlevelable(d) == ~Levelable(d)
LimitSilent(d) == ~LimitNotify(d)
LevelSilent(d) == ~LevelNotify(d)
Slow(d)        == ~Fast(d)

-----------------------------------------------------------------------------
(* Discovery.                                                              *)

TestD001 == VersionTest(PROTOCOL_PERFORMANCE)

TestD002 ==
  <<[PerfValue(PROTOCOL_ATTRIBUTES, <<>>,
               [domains |-> expected.domains, statistics |-> expected.statistics])
       EXCEPT !.learn = "attributes"]>>

HasNone(c)  == PerfValue(PROTOCOL_MESSAGE_ATTRIBUTES, <<c>>, [fast |-> FALSE])
LearnHas(c) == PerfLearn(PROTOCOL_MESSAGE_ATTRIBUTES, <<c>>, "fast")

TestD003 ==
  <<HasNone(PERFORMANCE_DOMAIN_ATTRIBUTES), HasNone(PERFORMANCE_DESCRIBE_LEVELS),
    LearnHas(PERFORMANCE_LIMITS_SET), LearnHas(PERFORMANCE_LIMITS_GET),
    LearnHas(PERFORMANCE_LEVEL_SET), LearnHas(PERFORMANCE_LEVEL_GET)>>

TestD003_v1 ==
  [i \in 1..6 |-> HasNone(PERFORMANCE_DOMAIN_ATTRIBUTES + i - 1)]

TestD004 == UnknownCommandTest(PROTOCOL_PERFORMANCE, PERFORMANCE_INVALID_COMMAND)

DomainIs(d, w, l) ==
  <<[PerfValue(PERFORMANCE_DOMAIN_ATTRIBUTES, <<d>>, w) EXCEPT !.learn = l]>>

TestD005 ==
  LET Discover(d) == DomainIs(d, [name |-> d], "domain")
  IN IfDomains(ForEach(info.domains, Discover))
TestD005_v1 ==
  LET Discover(d) == DomainIs(d, [fast |-> FALSE, name |-> d], "domain_v1")
  IN IfDomains(ForEach(info.domains, Discover))

TestD006 == <<Perf(PERFORMANCE_DOMAIN_ATTRIBUTES, <<InvalidDomain>>, SCMI_NOT_FOUND)>>

LevelsFrom(d, levels) ==
  [PerfLearn(PERFORMANCE_DESCRIBE_LEVELS, <<d, Len(levels)>>, "levels") EXCEPT !.seen = levels]

TestD007 ==
  LET Discover(d) == <<LevelsFrom(d, <<>>)>> IN IfDomains(ForEach(info.domains, Discover))

TestD008 == <<Perf(PERFORMANCE_DESCRIBE_LEVELS, <<InvalidDomain, 0>>, SCMI_NOT_FOUND)>>

-----------------------------------------------------------------------------
(* Limits and levels.                                                      *)

LimitsSet(d, max, min, e) == Perf(PERFORMANCE_LIMITS_SET, <<d, max, min>>, e)
LevelSet(d, level, e)     == Perf(PERFORMANCE_LEVEL_SET, <<d, level>>, e)

TestD009 ==
  LET Change(d) == <<PerfLearn(PERFORMANCE_LIMITS_GET, <<d>>, "limits")>>
  IN IfDomains(WhenAny(ForDomains(Limitable, Change)))

TestD010 ==
  LET Exceed(d) ==
        LET row == Domain(d)
        IN <<LimitsSet(d, row.max + 1, row.min, SCMI_OUT_OF_RANGE),
             LimitsSet(d, row.max, Below(row.min), SCMI_OUT_OF_RANGE),
             LimitsSet(d, row.min, row.max, SCMI_INVALID_PARAMETERS)>>
  IN IfDomains(WhenAny(ForDomains(Limitable, Exceed)))

TestD011 ==
  LET Try(d, e) == <<LimitsSet(d, Domain(d).max, Domain(d).min, e)>>
      Refused(d) == Try(d, SCMI_DENIED)
  IN IfDomains(ForDomains(Unlimitable, Refused) \o Try(InvalidDomain, SCMI_NOT_FOUND))

TestD012 == <<Perf(PERFORMANCE_LIMITS_GET, <<InvalidDomain>>, SCMI_NOT_FOUND)>>

TestD013 ==
  LET Change(d) == <<PerfLearn(PERFORMANCE_LEVEL_GET, <<d>>, "level")>>
  IN IfDomains(WhenAny(ForDomains(Levelable, Change)))

TestD014 ==
  LET Exceed(d) == <<LevelSet(d, Domain(d).max + 1, SCMI_OUT_OF_RANGE),
                     LevelSet(d, Below(Domain(d).min), SCMI_OUT_OF_RANGE)>>
  IN IfDomains(WhenAny(ForDomains(Levelable, Exceed)))

TestD015 ==
  LET Refused(d) == <<LevelSet(d, Domain(d).max, SCMI_DENIED)>>
  IN IfDomains(ForDomains(Unlevelable, Refused)
               \o <<LevelSet(InvalidDomain, Domain(InvalidDomain).max, SCMI_NOT_FOUND)>>)

TestD016 == <<Perf(PERFORMANCE_LEVEL_GET, <<InvalidDomain>>, SCMI_NOT_FOUND)>>

-----------------------------------------------------------------------------
(* Notifications.                                                          *)

NotifyInvalid(m, Capable(_)) ==
  LET Enable(d) == <<Perf(m, <<d, INVALID_NOTIFY_EN_VAL>>, SCMI_INVALID_PARAMETERS)>>
  IN <<Probe(PROTOCOL_PERFORMANCE, m)>> \o IfDomains(WhenAny(ForDomains(Capable, Enable)))

NotifyUnsupported(m, Silent(_)) ==
  LET Enable(d) == <<Perf(m, <<d, NOTIFY_ENABLE>>, SCMI_NOT_SUPPORTED)>>
  IN <<Probe(PROTOCOL_PERFORMANCE, m)>>
     \o IfDomains(ForDomains(Silent, Enable)
                  \o <<Perf(m, <<InvalidDomain, NOTIFY_ENABLE>>, SCMI_NOT_FOUND)>>)

TestD017 == NotifyInvalid(PERFORMANCE_NOTIFY_LIMITS, LimitNotify)
TestD018 == NotifyUnsupported(PERFORMANCE_NOTIFY_LIMITS, LimitSilent)
TestD019 == NotifyInvalid(PERFORMANCE_NOTIFY_LEVEL, LevelNotify)
TestD020 == NotifyUnsupported(PERFORMANCE_NOTIFY_LEVEL, LevelSilent)

\* The first domain that is capable of both is looked for with a command each.
FindFrom(d, l) ==
  IF d < info.domains THEN <<PerfLearn(PERFORMANCE_DOMAIN_ATTRIBUTES, <<d>>, l)>> ELSE <<Skip>>

TestD026 == FindFrom(0, "limits_notified")
TestD027 == FindFrom(0, "level_notified")

-----------------------------------------------------------------------------
(* Fast channels.                                                          *)

Describe(d, m, e) == Perf(PERFORMANCE_DESCRIBE_FASTCHANNEL, <<d, m>>, e)
ProbeFast == <<Probe(PROTOCOL_PERFORMANCE, PERFORMANCE_DESCRIBE_FASTCHANNEL)>>

\* The four messages that may have one, as far as the table says they do.
ForFastMessages(d, e) ==
  LET Of(i) == LET m == PERFORMANCE_LIMITS_SET + i
               IN IF HasFastChannel(m) THEN <<Describe(d, m, e)>> ELSE <<>>
  IN ForEach(4, Of)

TestD021 ==
  LET Described(d) == ForFastMessages(d, SCMI_SUCCESS)
  IN ProbeFast \o IfDomains(WhenAny(ForDomains(Fast, Described)))

TestD022 == ProbeFast \o <<Describe(InvalidDomain, PERFORMANCE_LEVEL_SET, SCMI_NOT_FOUND)>>

TestD023 ==
  LET Invalid(d) == <<Describe(d, PERFORMANCE_INVALID_COMMAND, SCMI_NOT_FOUND)>>
  IN ProbeFast \o IfDomains(WhenAny(ForDomains(Fast, Invalid)))

TestD024 ==
  LET Unsupported(d) == ForFastMessages(d, SCMI_NOT_SUPPORTED)
  IN ProbeFast \o IfDomains(WhenAny(ForDomains(Slow, Unsupported)))

TestD025 ==
  LET Unsupported(d) ==
        [i \in 1..PERFORMANCE_LIMITS_SET |-> Describe(d, i - 1, SCMI_NOT_SUPPORTED)]
  IN ProbeFast \o IfDomains(WhenAny(ForDomains(Fast, Unsupported)))

\* The channel itself is memory of the platform (external): it is taken to
\* hold what the command tells.
ReadThrough(m) ==
  LET Read(d) == IF HasFastChannel(m)
                 THEN <<PerfValue(PERFORMANCE_DESCRIBE_FASTCHANNEL, <<d, m>>, [doorbell |-> FALSE]),
                        Perf(m, <<d>>, SCMI_SUCCESS)>>
                 ELSE <<>>
  IN ProbeFast \o IfDomains(WhenAny(ForDomains(Fast, Read)))

TestD028 == ReadThrough(PERFORMANCE_LEVEL_GET)
TestD029 == ReadThrough(PERFORMANCE_LIMITS_GET)

Program(t) ==
  CASE t = "d001" -> TestD001 [] t = "d002" -> TestD002 [] t = "d003" -> TestD003
    [] t = "d003_v1" -> TestD003_v1 [] t = "d004" -> TestD004
    [] t = "d005" -> TestD005 [] t = "d005_v1" -> TestD005_v1 [] t = "d006" -> TestD006
    [] t = "d007" -> TestD007 [] t = "d008" -> TestD008 [] t = "d009" -> TestD009
    [] t = "d010" -> TestD010 [] t = "d011" -> TestD011 [] t = "d012" -> TestD012
    [] t = "d013" -> TestD013 [] t = "d014" -> TestD014 [] t = "d015" -> TestD015
    [] t = "d016" -> TestD016 [] t = "d017" -> TestD017 [] t = "d018" -> TestD018
    [] t = "d019" -> TestD019 [] t = "d020" -> TestD020 [] t = "d021" -> TestD021
    [] t = "d022" -> TestD022 [] t = "d023" -> TestD023 [] t = "d024" -> TestD024
    [] t = "d025" -> TestD025 [] t = "d026" -> TestD026 [] t = "d027" -> TestD027
    [] t = "d028" -> TestD028 [] t = "d029" -> TestD029

-----------------------------------------------------------------------------
(* val_performance_execute_tests.                                          *)

\* Mutant: limits are tried before the domains are described.
DescribeLate(v) ==
  <<"d002", "d003", "d004", "d006", "d007", "d008", "d009", "d010", "d005">>

Schedule(v) ==
  <<"d002">>
  \o (IF v = 1 THEN <<"d003_v1", "d004", "d005_v1">> ELSE <<>>)
  \o (IF v = 2 THEN <<"d003", "d004", "d005">> ELSE <<>>)
  \o <<"d006", "d007", "d008", "d009", "d010", "d011", "d012", "d013", "d014", "d015",
       "d016", "d017", "d018", "d019", "d020">>
  \o (IF v = 2 THEN <<"d021", "d022", "d023", "d024", "d025">> ELSE <<>>)
  \o <<"d026", "d027">>
  \o (IF v = 2 THEN <<"d028", "d029">> ELSE <<>>)

-----------------------------------------------------------------------------
(* The steps answer v to step s adds.                                      *)

\* A limit and a level that differ from the present ones.
OtherMax(d, v)   == IF v.max # Domain(d).max THEN Domain(d).max ELSE Domain(d).mid
OtherLevel(d, v) == IF v.level # Domain(d).max THEN Domain(d).max ELSE Domain(d).min

ChangeLimits(d, v) ==
  <<LimitsSet(d, OtherMax(d, v), v.min, SCMI_SUCCESS),
    PerfValue(PERFORMANCE_LIMITS_GET, <<d>>, [max |-> OtherMax(d, v), min |-> v.min]),
    LimitsSet(d, v.max, v.min, SCMI_SUCCESS)>>

ChangeLevel(d, v) ==
  <<LevelSet(d, OtherLevel(d, v), SCMI_SUCCESS),
    PerfValue(PERFORMANCE_LEVEL_GET, <<d>>, [level |-> OtherLevel(d, v)]),
    LevelSet(d, v.level, SCMI_SUCCESS)>>

NotifiedLimits(d, v) ==
  <<LimitsSet(d, OtherMax(d, v), v.min, SCMI_SUCCESS),
    Receive(PROTOCOL_PERFORMANCE, PERFORMANCE_LIMITS_CHANGED, <<d, OtherMax(d, v), v.min>>),
    Perf(PERFORMANCE_NOTIFY_LIMITS, <<d, NOTIFY_DISABLE>>, SCMI_SUCCESS),
    LimitsSet(d, v.max, v.min, SCMI_SUCCESS)>>

NotifiedLevel(d, v) ==
  <<LevelSet(d, OtherLevel(d, v), SCMI_SUCCESS),
    Receive(PROTOCOL_PERFORMANCE, PERFORMANCE_LEVEL_CHANGED, <<d, OtherLevel(d, v)>>),
    Perf(PERFORMANCE_NOTIFY_LEVEL, <<d, NOTIFY_DISABLE>>, SCMI_SUCCESS),
    LevelSet(d, v.level, SCMI_SUCCESS)>>

\* The next page, or the index past the last level, unless there are not as
\* many as expected.
AllLevels(s, v) == s.seen \o v.levels
MoreLevels(s, v) ==
  LET d == s.args[1]
      levels == AllLevels(s, v)
  IN IF v.remaining > 0 THEN <<LevelsFrom(d, levels)>>
     ELSE IF Len(levels) # expected.levels[d] THEN <<Fail>>
     ELSE <<Perf(PERFORMANCE_DESCRIBE_LEVELS, <<d, Len(levels) + 1>>, SCMI_INVALID_PARAMETERS)>>

Enable(d, notify, get, l) ==
  <<Perf(notify, <<d, NOTIFY_ENABLE>>, SCMI_SUCCESS), PerfLearn(get, <<d>>, l)>>

\* Mutant: the search does not go on.
SameDomain(s) == FindFrom(s.args[1], s.learn)

NextDomain(s) == FindFrom(s.args[1] + 1, s.learn)

More(s, v) ==
  LET d == s.args[1]
  IN CASE s.learn = "levels" -> MoreLevels(s, v)
       [] s.learn = "limits" -> ChangeLimits(d, v)
       [] s.learn = "level"  -> ChangeLevel(d, v)
       [] s.learn = "limits_notified" ->
            IF v.limit /\ v.limitNotify
            THEN Enable(d, PERFORMANCE_NOTIFY_LIMITS, PERFORMANCE_LIMITS_GET, "limits_before")
            ELSE NextDomain(s)
       [] s.learn = "level_notified" ->
            IF v.level /\ v.levelNotify
            THEN Enable(d, PERFORMANCE_NOTIFY_LEVEL, PERFORMANCE_LEVEL_GET, "level_before")
            ELSE NextDomain(s)
       [] s.learn = "limits_before" -> NotifiedLimits(d, v)
       [] s.learn = "level_before"  -> NotifiedLevel(d, v)
       [] OTHER -> <<>>

-----------------------------------------------------------------------------
(* val_performance_save_info: what the table becomes when answer v to step *)
(* s has the right header and status.  A field is saved before the next    *)
(* one is compared; two of them are bytes.                                 *)

LearnAttributes(v) ==
  LET is == v.statistics
      ok == expected.statistics
      low  == v.domains = expected.domains
      high == low /\ is.low = ok.low
      len  == high /\ is.high = ok.high
  IN [info EXCEPT !.domains = IF low THEN v.domains ELSE @,
                  !.statistics.low  = IF high THEN is.low ELSE @,
                  !.statistics.high = IF len THEN is.high % 256 ELSE @,
                  !.statistics.len  = IF len /\ is.len = ok.len THEN is.len % 256 ELSE @]

LearnFast(m, v) ==
  [info EXCEPT !.fastSlots = IF v.fast THEN @ \cup {FastSlot(m)} ELSE @ \ {FastSlot(m)}]

\* The first version knows no fast channels: the bit is reserved, and checked
\* before anything is saved.
LearnDomain(d, v, fast) ==
  WithDomain(d, [Domain(d) EXCEPT !.limitable = v.limit, !.levelable = v.level,
                                  !.limitNotify = v.limitNotify, !.levelNotify = v.levelNotify,
                                  !.fast = fast])

\* Mutant: the last level is taken for the intermediate one.
LastLevel(levels) == levels[Len(levels)]

\* The second level of a page, or of two the first.
Intermediate(levels) == IF Len(levels) = 2 THEN levels[1] ELSE levels[2]

Largest(levels)  == Lists!Max(Lists!ToSet(levels))
Smallest(levels) == Lists!Min(Lists!ToSet(levels))

LearnLevels(s, v) ==
  LET d == s.args[1]
      levels == AllLevels(s, v)
      row == IF Len(v.levels) >= 2 THEN [Domain(d) EXCEPT !.mid = Intermediate(v.levels)]
             ELSE Domain(d)
  IN WithDomain(d, IF v.remaining = 0 /\ Len(levels) = expected.levels[d]
                   THEN [row EXCEPT !.max = Largest(levels), !.min = Smallest(levels)]
                   ELSE row)

Learned(s, v) ==
  CASE s.learn = "attributes" -> LearnAttributes(v)
    [] s.learn = "fast"       -> LearnFast(s.args[1], v)
    [] s.learn = "domain"     -> LearnDomain(s.args[1], v, v.fast)
    [] s.learn = "domain_v1"  -> IF v.fast THEN info
                                 ELSE LearnDomain(s.args[1], v, Domain(s.args[1]).fast)
    [] s.learn = "levels"     -> LearnLevels(s, v)
    [] OTHER                  -> info

=============================================================================
