------------------------- MODULE PoolSettingsProofs -------------------------
(***************************************************************************)
(* What holds of a pool between the form and the running mergerfs, for     *)
(* every set of forms and clients, whatever fails and is cut short.        *)
(***************************************************************************)
EXTENDS PoolSettings, SequenceTheorems, FiniteSetTheorems, TLAPS

-----------------------------------------------------------------------------
(* Options                                                                 *)

Pools == UNION {Pool(keys) : keys \in SUBSET OptionKeys}

SomeOptions == UNION {[keys -> Values] : keys \in SUBSET OptionKeys}

Unit == [options : SomeOptions, branches : Branches]

LEMMA PoolsArePools == \A form : IsPool(form) <=> form \in Pools
  BY DEF IsPool, Pools

LEMMA MergedOptions ==
  ASSUME NEW pool \in Pools
  PROVE  /\ merged_options(pool) \in SomeOptions
         /\ {"cache.files", "cache.writeback", "moveonenospc"} \subseteq DOMAIN merged_options(pool)
         /\ DOMAIN pool.extra \subseteq OptionKeys
         /\ DOMAIN merged_options(pool) \subseteq
              {"cache.files", "cache.writeback", "moveonenospc", "passthrough"} \cup DOMAIN pool.extra
         /\ DOMAIN pool.extra \subseteq DOMAIN merged_options(pool)
         /\ pool_unit(pool) \in Unit /\ pool_unit(pool).options = merged_options(pool)
         /\ pool_unit(pool).branches = pool.branches
  <1>1. PICK keys \in SUBSET OptionKeys : pool \in Pool(keys)
    BY DEF Pools
  <1>2. /\ pool.extra \in [keys -> Values] /\ pool.branches \in Branches
        /\ pool.cache_files \in Values /\ pool.passthrough \in Values
    BY <1>1 DEF Pool
  <1> DEFINE fields == {"cache.files", "cache.writeback", "moveonenospc"}
                         \cup (IF pool.passthrough # "off" THEN {"passthrough"} ELSE {})
             all    == fields \cup keys
  <1>3. FieldOptions(pool) \in [fields -> Values]
    <2>1. Switch(pool.cache_writeback) \in Values /\ Switch(pool.moveonenospc) \in Values
      BY OptionsAssumption DEF Switch
    <2> DEFINE value(k) == CASE k = "cache.files"     -> pool.cache_files
                             [] k = "cache.writeback" -> Switch(pool.cache_writeback)
                             [] k = "moveonenospc"    -> Switch(pool.moveonenospc)
                             [] OTHER                 -> pool.passthrough
    <2>2. \A k \in fields : value(k) \in Values
      BY <1>2, <2>1
    <2>3. FieldOptions(pool) = [k \in fields |-> value(k)]
      BY DEF FieldOptions
    <2> HIDE DEF value
    <2> QED BY <2>2, <2>3
  <1>4. merged_options(pool) \in [all -> Values]
    <2>1. DOMAIN FieldOptions(pool) = fields /\ DOMAIN pool.extra = keys
      BY <1>2, <1>3
    <2>2. \A k \in all : (IF k \in DOMAIN pool.extra THEN pool.extra[k] ELSE FieldOptions(pool)[k]) \in Values
      BY <1>2, <1>3, <2>1
    <2> QED BY <2>1, <2>2 DEF merged_options
  <1>5. all \in SUBSET OptionKeys
    BY DEF OptionKeys, VERIFIABLE_OPTIONS
  <1>6. DOMAIN merged_options(pool) = all
    BY <1>4
  <1>7. merged_options(pool) \in SomeOptions
    BY <1>4, <1>5 DEF SomeOptions
  <1> QED BY <1>2, <1>6, <1>7 DEF pool_unit, Unit

LEMMA SomeAsked ==
  ASSUME NEW options \in SomeOptions, NEW k \in OptionKeys
  PROVE  Asked(options, k) \in Values
  <1>1. Default(k) \in Values
    BY OptionsAssumption DEF Default
  <1>2. PICK keys \in SUBSET OptionKeys : options \in [keys -> Values]
    BY DEF SomeOptions
  <1>3. k \in DOMAIN options => options[k] \in Values
    BY <1>2
  <1> QED BY <1>1, <1>3 DEF Asked

\* What mergerfs makes of the options of a unit.
LEMMA StartedRuns ==
  ASSUME NEW u \in Unit, NEW age \in BOOLEAN
  PROVE  /\ Started(u, age) \in Running /\ Started(u, age) # NotMounted
         /\ Started(u, age).branches = u.branches /\ Started(u, age).recent = age
         /\ Started(u, age).options = Resolved(u.options)
         /\ \A k \in DOMAIN u.options \ VERIFIABLE_OPTIONS : Resolved(u.options)[k] = u.options[k]
         /\ Resolved(u.options)["passthrough"] = Asked(u.options, "passthrough")
         /\ Accepts(u.options, age) /\ ~age => Started(u, age).options["passthrough"] = "off"
  <1>1. u.options \in SomeOptions /\ u.branches \in Branches
    BY DEF Unit
  <1>2. /\ DOMAIN u.options \subseteq OptionKeys
        /\ \A k \in OptionKeys : Asked(u.options, k) \in Values
    BY <1>1, SomeAsked DEF SomeOptions
  <1>3. Resolved(u.options) \in [OptionKeys -> Values]
    <2> DEFINE value(k) == IF Asked(u.options, "passthrough") = "off" THEN Asked(u.options, k)
                           ELSE CASE k = "cache.files" /\ Asked(u.options, k) = "off" -> "auto-full"
                                  [] k = "cache.writeback" -> "false"
                                  [] OTHER -> Asked(u.options, k)
    <2>1. \A k \in OptionKeys : value(k) \in Values
      BY <1>2, OptionsAssumption
    <2>2. Resolved(u.options) = [k \in OptionKeys |-> value(k)]
      BY DEF Resolved
    <2> HIDE DEF value
    <2> QED BY <2>1, <2>2
  <1>4. Started(u, age) \in Running /\ Started(u, age) # NotMounted
    BY <1>1, <1>3, SettingsAssumption DEF Started, Running
  <1>5. \A k \in DOMAIN u.options \ VERIFIABLE_OPTIONS : Resolved(u.options)[k] = u.options[k]
    BY <1>2 DEF Resolved, Asked, VERIFIABLE_OPTIONS
  <1>6. Resolved(u.options)["passthrough"] = Asked(u.options, "passthrough")
    BY DEF Resolved, OptionKeys, VERIFIABLE_OPTIONS
  <1>7. Accepts(u.options, age) /\ ~age => Asked(u.options, "passthrough") = "off"
    BY DEF Accepts, Asked, Default
  <1> QED BY <1>4, <1>5, <1>6, <1>7 DEF Started

-----------------------------------------------------------------------------
(* Plans                                                                   *)

Step == [do : Steps] \cup [do : Steps, key : {"branches"} \cup OptionKeys]

LEMMA DoSteps ==
  ASSUME NEW s \in Seq(Steps)
  PROVE  /\ Do(s) \in Seq(Step) /\ Len(Do(s)) = Len(s)
         /\ \A i \in 1..Len(s) : Do(s)[i] = [do |-> s[i]]
  <1>1. Len(s) \in Nat /\ \A i \in 1..Len(s) : s[i] \in Steps
    BY LenProperties, ElementOfSeq
  <1>2. Do(s) \in [1..Len(s) -> Step]
    BY <1>1 DEF Do, Step
  <1>3. Do(s) \in Seq(Step)
    BY <1>1, <1>2, SeqDef
  <1>4. Len(Do(s)) = Len(s)
    BY <1>1, <1>2, <1>3, LenProperties
  <1> QED BY <1>3, <1>4 DEF Do

LEMMA TailOfDo ==
  ASSUME NEW s \in Seq(Steps), s # <<>>
  PROVE  /\ Do(s) # <<>> /\ Head(Do(s)).do = s[1]
         /\ Tail(Do(s)) = Do(Tail(s))
  <1>1. Len(s) \in Nat \ {0} /\ Len(Do(s)) = Len(s) /\ Do(s) \in Seq(Step)
    BY DoSteps, EmptySeq
  <1>2. Do(s) # <<>>
    BY <1>1, EmptySeq
  <1>3. Head(Do(s)) = Do(s)[1] /\ Do(s)[1] = [do |-> s[1]]
    BY <1>1, <1>2, DoSteps
  <1>4. /\ Tail(s) \in Seq(Steps) /\ Len(Tail(s)) = Len(s) - 1
        /\ \A i \in 1..Len(Tail(s)) : Tail(s)[i] = s[i + 1]
    BY HeadTailProperties
  <1>5. /\ Tail(Do(s)) \in Seq(Step) /\ Len(Tail(Do(s))) = Len(s) - 1
        /\ \A i \in 1..Len(Tail(Do(s))) : Tail(Do(s))[i] = Do(s)[i + 1]
    BY <1>1, <1>2, HeadTailProperties
  <1>6. Do(Tail(s)) \in Seq(Step) /\ Len(Do(Tail(s))) = Len(s) - 1
    BY <1>4, DoSteps
  <1>7. ASSUME NEW i \in 1..(Len(s) - 1) PROVE Tail(Do(s))[i] = Do(Tail(s))[i]
    <2>1. Do(Tail(s))[i] = [do |-> Tail(s)[i]]
      BY <1>4, DoSteps
    <2>2. Do(s)[i + 1] = [do |-> s[i + 1]]
      BY <1>1, DoSteps
    <2> QED BY <1>4, <1>5, <2>1, <2>2
  <1>8. Tail(Do(s)) = Do(Tail(s))
    BY <1>5, <1>6, <1>7, SeqEqual
  <1> QED BY <1>2, <1>3, <1>8

LEMMA ShortPlans ==
  ASSUME NEW S, NEW a \in S, NEW b \in S, NEW c \in S, NEW d \in S, NEW e \in S
  PROVE  /\ <<a>> \in Seq(S) /\ <<a>> # <<>> /\ <<a>>[1] = a
         /\ <<a, b>> \in Seq(S) /\ <<a, b>> # <<>> /\ <<a, b>>[1] = a /\ Tail(<<a, b>>) = <<b>>
         /\ <<a, b, c>> \in Seq(S) /\ <<a, b, c>> # <<>> /\ <<a, b, c>>[1] = a
         /\ Tail(<<a, b, c>>) = <<b, c>>
         /\ <<a, b, c, d>> \in Seq(S) /\ <<a, b, c, d>> # <<>> /\ <<a, b, c, d>>[1] = a
         /\ Tail(<<a, b, c, d>>) = <<b, c, d>>
         /\ <<a, b, c, d, e>> \in Seq(S) /\ <<a, b, c, d, e>> # <<>> /\ <<a, b, c, d, e>>[1] = a
         /\ Tail(<<a, b, c, d, e>>) = <<b, c, d, e>>
  <1>1. <<a>> \in Seq(S) /\ <<a>> # <<>> /\ <<a>>[1] = a
    OBVIOUS
  <1>2. <<a, b>> \in Seq(S) /\ <<a, b>> # <<>> /\ <<a, b>>[1] = a
    OBVIOUS
  <1>3. <<a, b, c>> \in Seq(S) /\ <<a, b, c>> # <<>> /\ <<a, b, c>>[1] = a
    OBVIOUS
  <1>4. <<a, b, c, d>> \in Seq(S) /\ <<a, b, c, d>> # <<>> /\ <<a, b, c, d>>[1] = a
    OBVIOUS
  <1>5. <<a, b, c, d, e>> \in Seq(S) /\ <<a, b, c, d, e>> # <<>> /\ <<a, b, c, d, e>>[1] = a
    OBVIOUS
  <1>6. Tail(<<a, b>>) = <<b>>
    OBVIOUS
  <1>7. Tail(<<a, b, c>>) = <<b, c>>
    OBVIOUS
  <1>8. Tail(<<a, b, c, d>>) = <<b, c, d>>
    OBVIOUS
  <1>9. Tail(<<a, b, c, d, e>>) = <<b, c, d, e>>
    OBVIOUS
  <1> QED BY <1>1, <1>2, <1>3, <1>4, <1>5, <1>6, <1>7, <1>8, <1>9

\* The extra options that are tried, each at some place.
LEMMA TriesAll ==
  ASSUME NEW pool \in Pools
  PROVE  /\ Tries(pool) \in Seq(Step)
         /\ \A i \in 1..Len(Tries(pool)) :
              Tries(pool)[i].do = "try" /\ Tries(pool)[i].key \in DOMAIN pool.extra \cap ExtraOnly
         /\ \A k \in DOMAIN pool.extra \cap ExtraOnly :
              \E i \in 1..Len(Tries(pool)) : Tries(pool)[i].key = k
  <1> DEFINE keys == DOMAIN pool.extra \cap ExtraOnly
             sent == SetToSeq(keys)
             size == Cardinality(keys)
  <1>1. IsFiniteSet(keys)
    <2>1. IsFiniteSet({"cache.attr"} \cup {"inodecalc"})
      BY FS_Singleton, FS_AddElement
    <2>2. ExtraOnly = {"cache.attr"} \cup {"inodecalc"} /\ keys \in SUBSET ExtraOnly
      BY DEF ExtraOnly
    <2> QED BY <2>1, <2>2, FS_Subset
  <1>2. size \in Nat /\ \E f \in [1..size -> keys] : IsInjective(f)
    BY <1>1, FS_CardinalityType DEF ExistsBijection, Bijection, Injection
  <1>3. sent \in [1..size -> keys] /\ IsInjective(sent)
    BY <1>2 DEF SetToSeq
  <1> HIDE DEF sent
  <1>4. sent \in Injection(1..size, keys)
    BY <1>3 DEF Injection
  <1>5. IsFiniteSet(1..size) /\ Cardinality(1..size) = size
    BY <1>2, FS_Interval
  <1>6. sent \in Surjection(1..size, keys)
    BY <1>1, <1>4, <1>5, FS_Injection
  <1>7. \A k \in keys : \E i \in 1..size : sent[i] = k
    BY <1>6 DEF Surjection
  <1>8. Len(sent) = size
    BY <1>2, <1>3, SeqDef, LenProperties
  <1>9. Tries(pool) = [i \in 1..size |-> [do |-> "try", key |-> sent[i]]]
    BY <1>8 DEF Tries, sent
  <1>10. \A i \in 1..size : sent[i] \in keys /\ sent[i] \in OptionKeys
    BY <1>3 DEF OptionKeys
  <1> HIDE DEF keys, size
  <1>11. [i \in 1..size |-> [do |-> "try", key |-> sent[i]]] \in [1..size -> Step]
    BY <1>10 DEF Step, Steps
  <1>12. Tries(pool) \in Seq(Step) /\ Len(Tries(pool)) = size
    <2>1. Tries(pool) \in [1..size -> Step] /\ size \in Nat
      BY <1>2, <1>9, <1>11
    <2>2. Tries(pool) \in Seq(Step)
      BY <2>1, SeqDef
    <2>3. DOMAIN Tries(pool) = 1..size /\ DOMAIN Tries(pool) = 1..Len(Tries(pool))
      BY <2>1, <2>2, LenProperties
    <2> QED BY <2>1, <2>2, <2>3, LenProperties
  <1>13. \A i \in 1..size : Tries(pool)[i] = [do |-> "try", key |-> sent[i]]
    BY <1>9
  <1> USE DEF keys
  <1> QED BY <1>7, <1>10, <1>12, <1>13

-----------------------------------------------------------------------------
(* Types                                                                   *)

PushKeys == {"branches", "moveonenospc", "cache.files"}

Job == [kind : RequestKinds \cup {"none"}, form : Pools, plan : Seq(Step),
        stale : SUBSET OptionKeys, alone : BOOLEAN]

\* The options a plan names are among those of its form.
PlanOK(plan, form) ==
  \A i \in 1..Len(plan) :
    /\ plan[i].do = "push" => plan[i].key \in PushKeys
    /\ plan[i].do = "try" => plan[i].key \in DOMAIN form.extra \cap ExtraOnly

\* A mergerfs that does not answer for passthrough does not do it.
LiveOK ==
  Mounted => live \in Running /\ (~live.recent => live.options["passthrough"] = "off")

TypeInv ==
  /\ saved \in Pools /\ unit \in Unit /\ recent \in BOOLEAN
  /\ LiveOK
  /\ lock \in Clients \cup {NoClient}
  /\ job \in [Clients -> Job]
  /\ \A c \in Clients : PlanOK(job[c].plan, Form(c))

LEMMA IdleJob ==
  /\ Idle \in Job /\ Idle.kind = "none" /\ Idle.plan = <<>> /\ ~Idle.alone
  /\ Idle.stale = {} /\ PlanOK(<<>>, FirstForm)
  <1>1. FirstForm \in Pools
    BY SettingsAssumption, PoolsArePools
  <1>2. <<>> \in Seq(Step) /\ Len(<<>>) = 0
    BY EmptySeq
  <1> QED BY <1>1, <1>2 DEF Idle, Job, PlanOK

LEMMA AloneAlready ==
  ASSUME NEW j \in Job, ~j.alone
  PROVE  [j EXCEPT !.alone = FALSE] = j
  BY DEF Job

LEMMA JobFields ==
  ASSUME TypeInv, NEW c \in Clients
  PROVE  /\ job[c] \in Job /\ job[c].form \in Pools /\ job[c].plan \in Seq(Step)
         /\ job[c].stale \in SUBSET OptionKeys /\ job[c].alone \in BOOLEAN
         /\ job[c].kind \in RequestKinds \cup {"none"}
         /\ PlanOK(job[c].plan, Form(c)) /\ Len(job[c].plan) \in Nat
  <1>1. job[c] \in Job
    BY DEF TypeInv
  <1> QED BY <1>1, LenProperties DEF Job, TypeInv

\* A request begins.
LEMMA Accepted ==
  ASSUME TypeInv, NEW c \in Clients, NEW kind, NEW form \in Pools, NEW plan \in Seq(Step),
         Accept(c, kind, form, plan)
  PROVE  /\ job' \in [Clients -> Job]
         /\ job[c] = Idle /\ kind \in Requests /\ kind \in RequestKinds
         /\ job'[c] = [kind |-> kind, form |-> form, plan |-> plan, stale |-> {}, alone |-> Alone(c)]
         /\ \A d \in Clients \ {c} :
              /\ job'[d].kind = job[d].kind /\ job'[d].form = job[d].form
              /\ job'[d].plan = job[d].plan /\ job'[d].stale = job[d].stale
              /\ ~job'[d].alone
              /\ job[d] = Idle => job'[d] = Idle
         /\ UNCHANGED <<saved, unit, live, recent, told, calm>>
  <1>1. job' = [d \in Clients |->
          IF d = c THEN [kind |-> kind, form |-> form, plan |-> plan, stale |-> {}, alone |-> Alone(c)]
          ELSE [job[d] EXCEPT !.alone = FALSE]]
    BY DEF Accept
  <1>2. job[c] = Idle /\ kind \in Requests /\ kind \in RequestKinds
    BY SettingsAssumption DEF Accept
  <1>3. Alone(c) \in BOOLEAN
    BY DEF Alone
  <1>4. [kind |-> kind, form |-> form, plan |-> plan, stale |-> {}, alone |-> Alone(c)] \in Job
    BY <1>2, <1>3 DEF Job
  <1>5. \A d \in Clients : /\ [job[d] EXCEPT !.alone = FALSE] \in Job
                           /\ [job[d] EXCEPT !.alone = FALSE].kind = job[d].kind
                           /\ [job[d] EXCEPT !.alone = FALSE].form = job[d].form
                           /\ [job[d] EXCEPT !.alone = FALSE].plan = job[d].plan
                           /\ [job[d] EXCEPT !.alone = FALSE].stale = job[d].stale
                           /\ ~[job[d] EXCEPT !.alone = FALSE].alone
    BY JobFields DEF Job
  <1>6. [Idle EXCEPT !.alone = FALSE] = Idle
    BY IdleJob, AloneAlready
  <1>7. job' \in [Clients -> Job]
    BY <1>1, <1>4, <1>5
  <1>8. job'[c] = [kind |-> kind, form |-> form, plan |-> plan, stale |-> {}, alone |-> Alone(c)]
    BY <1>1
  <1>9. \A d \in Clients \ {c} : job'[d] = [job[d] EXCEPT !.alone = FALSE]
    BY <1>1
  <1>10. UNCHANGED <<saved, unit, live, recent, told, calm>>
    BY DEF Accept
  <1> QED BY <1>2, <1>5, <1>6, <1>7, <1>8, <1>9, <1>10

\* A request has less, or something else, to do.
LEMMA Continued ==
  ASSUME TypeInv, NEW c \in Clients, NEW plan \in Seq(Step),
         job' = [job EXCEPT ![c].plan = plan]
  PROVE  /\ job' \in [Clients -> Job]
         /\ job'[c].plan = plan /\ job'[c].kind = job[c].kind /\ job'[c].form = job[c].form
         /\ job'[c].stale = job[c].stale /\ job'[c].alone = job[c].alone
         /\ \A d \in Clients \ {c} : job'[d] = job[d]
  BY JobFields DEF TypeInv, Job

LEMMA Ended ==
  ASSUME TypeInv, NEW c \in Clients, Ends(c)
  PROVE  /\ job' \in [Clients -> Job] /\ job'[c] = Idle
         /\ \A d \in Clients \ {c} : job'[d] = job[d]
         /\ lock' = (IF lock = c THEN NoClient ELSE lock)
  BY IdleJob DEF TypeInv, Ends, Frees

LEMMA TailOfPlan ==
  ASSUME NEW plan \in Seq(Step), plan # <<>>
  PROVE  /\ Tail(plan) \in Seq(Step) /\ Len(Tail(plan)) = Len(plan) - 1
         /\ \A i \in 1..Len(Tail(plan)) : i + 1 \in 1..Len(plan) /\ Tail(plan)[i] = plan[i + 1]
         /\ Len(plan) \in Nat \ {0} /\ Head(plan) = plan[1] /\ 1 \in 1..Len(plan)
         /\ \A j \in 1..Len(plan) : j = 1 \/ (j - 1 \in 1..Len(Tail(plan)) /\ plan[j] = Tail(plan)[j - 1])
         /\ \A form : PlanOK(plan, form) => PlanOK(Tail(plan), form)
  <1>1. Len(plan) \in Nat \ {0}
    BY EmptySeq
  <1>2. /\ Tail(plan) \in Seq(Step) /\ Len(Tail(plan)) = Len(plan) - 1
        /\ \A i \in 1..Len(Tail(plan)) : Tail(plan)[i] = plan[i + 1]
    BY HeadTailProperties
  <1>3. \A i \in 1..Len(Tail(plan)) : i + 1 \in 1..Len(plan)
    BY <1>1, <1>2
  <1>4. \A j \in 1..Len(plan) : j = 1 \/ (j - 1 \in 1..Len(Tail(plan)) /\ plan[j] = Tail(plan)[j - 1])
    BY <1>1, <1>2
  <1>5. \A form : PlanOK(plan, form) => PlanOK(Tail(plan), form)
    BY <1>2, <1>3 DEF PlanOK
  <1> QED BY <1>1, <1>2, <1>3, <1>4, <1>5

LEMMA DoPlanOK ==
  ASSUME NEW s \in Seq(Steps), \A i \in 1..Len(s) : s[i] \notin {"push", "try"}
  PROVE  Do(s) \in Seq(Step) /\ \A form : PlanOK(Do(s), form)
  <1>1. \A i \in 1..Len(s) : Do(s)[i].do = s[i]
    <2> TAKE i \in 1..Len(s)
    <2>1. Do(s)[i] = [do |-> s[i]]
      BY DoSteps
    <2> QED BY <2>1
  <1>2. Do(s) \in Seq(Step) /\ Len(Do(s)) = Len(s)
    BY DoSteps
  <1> QED BY <1>1, <1>2 DEF PlanOK

LEMMA OneThenTwo ==
  ASSUME NEW S, NEW a \in S, NEW b \in S, NEW c \in S
  PROVE  <<a>> \o <<b, c>> = <<a, b, c>>
  <1>1. <<a>> \in Seq(S) /\ <<b, c>> \in Seq(S) /\ <<a, b, c>> \in Seq(S)
    OBVIOUS
  <1> DEFINE s == <<a>>
             t == <<b, c>>
             u == <<a, b, c>>
  <1>2. /\ Len(s) = 1 /\ Len(t) = 2 /\ Len(u) = 3
        /\ s[1] = a /\ t[1] = b /\ t[2] = c /\ u[1] = a /\ u[2] = b /\ u[3] = c
    OBVIOUS
  <1>3. s \in Seq(S) /\ t \in Seq(S) /\ u \in Seq(S)
    BY <1>1
  <1> HIDE DEF s, t, u
  <1>4. /\ s \o t \in Seq(S) /\ Len(s \o t) = 3
        /\ \A i \in 1..3 : (s \o t)[i] = IF i <= 1 THEN s[i] ELSE t[i - 1]
    <2>1. s \o t \in Seq(S) /\ Len(s \o t) = Len(s) + Len(t)
      BY <1>3, ConcatProperties
    <2>2. \A i \in 1..Len(s) + Len(t) : (s \o t)[i] = IF i <= Len(s) THEN s[i] ELSE t[i - Len(s)]
      BY <1>3, ConcatProperties
    <2>3. Len(s) = 1 /\ Len(s) + Len(t) = 3
      BY <1>2
    <2> QED BY <2>1, <2>2, <2>3
  <1>5. \A i \in 1..3 : (s \o t)[i] = u[i]
    BY <1>2, <1>4
  <1>6. s \o t = u
    BY <1>2, <1>3, <1>4, <1>5, SeqEqual
  <1> QED BY <1>6 DEF s, t, u

LEMMA Joined ==
  ASSUME NEW S, NEW s \in Seq(S), NEW t \in Seq(S), NEW u, u = s \o t
  PROVE  /\ u \in Seq(S) /\ Len(u) = Len(s) + Len(t)
         /\ \A i \in 1..Len(s) : u[i] = s[i]
         /\ \A i \in 1..Len(t) : u[Len(s) + i] = t[i]
  <1>1. Len(s) \in Nat /\ Len(t) \in Nat
    BY LenProperties
  <1>2. /\ s \o t \in Seq(S) /\ Len(s \o t) = Len(s) + Len(t)
        /\ \A i \in 1..Len(s) + Len(t) :
             (s \o t)[i] = IF i <= Len(s) THEN s[i] ELSE t[i - Len(s)]
    BY ConcatProperties
  <1>3. \A i \in 1..Len(s) : i \in 1..Len(s) + Len(t) /\ i <= Len(s)
    BY <1>1
  <1>4. \A i \in 1..Len(t) : /\ Len(s) + i \in 1..Len(s) + Len(t) /\ ~(Len(s) + i <= Len(s))
                             /\ Len(s) + i - Len(s) = i
    BY <1>1
  <1>5. \A i \in 1..Len(s) : (s \o t)[i] = s[i]
    BY <1>2, <1>3
  <1>6. \A i \in 1..Len(t) : (s \o t)[Len(s) + i] = t[i]
    BY <1>2, <1>4
  <1> QED BY <1>2, <1>5, <1>6

LEMMA PlansJoined ==
  ASSUME NEW s \in Seq(Step), NEW t \in Seq(Step), NEW form, PlanOK(s, form), PlanOK(t, form)
  PROVE  s \o t \in Seq(Step) /\ PlanOK(s \o t, form)
  <1>1. Len(s) \in Nat /\ Len(t) \in Nat
    BY LenProperties
  <1> DEFINE u == s \o t
  <1>u. u = s \o t
    OBVIOUS
  <1> HIDE DEF u
  <1>2. /\ u \in Seq(Step) /\ Len(u) = Len(s) + Len(t)
        /\ \A i \in 1..Len(s) : u[i] = s[i]
        /\ \A i \in 1..Len(t) : u[Len(s) + i] = t[i]
    BY <1>u, Joined
  <1>3. \A i \in 1..Len(u) : i \in 1..Len(s) \/ (i - Len(s) \in 1..Len(t) /\ Len(s) + (i - Len(s)) = i)
    BY <1>1, <1>2
  <1>4. PlanOK(u, form)
    BY <1>2, <1>3 DEF PlanOK
  <1> QED BY <1>2, <1>4 DEF u

\* What runtime_update and remount_needed have to do.
LEMMA UpdatePlan ==
  ASSUME NEW form \in Pools
  PROVE  LET plan == Pushes \o Do(<<"compare">>) \o Tries(form) \o Do(<<"answer">>)
         IN  /\ plan \in Seq(Step) /\ PlanOK(plan, form)
             /\ \A i \in 1..Len(plan) :
                  /\ plan[i].do \in {"push", "compare", "try", "answer"}
                  /\ plan[i].do = "answer" => i = Len(plan)
                  /\ plan[i].do = "compare" => \A j \in 1..(i - 1) : plan[j].do = "push"
             /\ \A k \in PushKeys \cup (DOMAIN form.extra \cap ExtraOnly) :
                  \E i \in 1..Len(plan) : plan[i].do \in {"push", "try"} /\ plan[i].key = k
  <1> DEFINE tries == Tries(form)
             n     == Len(tries)
             plan  == Pushes \o Do(<<"compare">>) \o tries \o Do(<<"answer">>)
  <1>1. /\ Pushes = <<[do |-> "push", key |-> "branches"], [do |-> "push", key |-> "moveonenospc"],
                      [do |-> "push", key |-> "cache.files"]>>
    <2> DEFINE keys == <<"branches">> \o RUNTIME_OPTIONS
    <2>1. keys = <<"branches", "moveonenospc", "cache.files">>
      <3>1. /\ "branches" \in PushKeys /\ "moveonenospc" \in PushKeys /\ "cache.files" \in PushKeys
        BY DEF PushKeys
      <3> QED BY <3>1, OneThenTwo DEF RUNTIME_OPTIONS
    <2> HIDE DEF keys
    <2>2. Len(keys) = 3 /\ keys[1] = "branches" /\ keys[2] = "moveonenospc" /\ keys[3] = "cache.files"
      BY <2>1
    <2>3. PushAll(keys) = [i \in 1..3 |-> [do |-> "push", key |-> keys[i]]]
      BY <2>2 DEF PushAll
    <2> QED BY <2>2, <2>3 DEF Pushes, keys
  <1>2. /\ Pushes \in Seq(Step) /\ Len(Pushes) = 3
        /\ \A i \in 1..3 : Pushes[i].do = "push" /\ Pushes[i].key \in PushKeys
        /\ \A k \in PushKeys : \E i \in 1..3 : Pushes[i].key = k
    <2> DEFINE s == <<[do |-> "push", key |-> "branches"], [do |-> "push", key |-> "moveonenospc"],
                      [do |-> "push", key |-> "cache.files"]>>
    <2>1. \A k \in PushKeys : [do |-> "push", key |-> k] \in Step
      BY DEF PushKeys, Step, Steps, OptionKeys, VERIFIABLE_OPTIONS
    <2>2. s \in Seq(Step) /\ Len(s) = 3
      BY <2>1 DEF PushKeys
    <2>3. /\ s[1] = [do |-> "push", key |-> "branches"]
          /\ s[2] = [do |-> "push", key |-> "moveonenospc"]
          /\ s[3] = [do |-> "push", key |-> "cache.files"]
      OBVIOUS
    <2> HIDE DEF s
    <2>4. /\ s[1].do = "push" /\ s[1].key = "branches"
          /\ s[2].do = "push" /\ s[2].key = "moveonenospc"
          /\ s[3].do = "push" /\ s[3].key = "cache.files"
      BY <2>3
    <2>5. Pushes = s
      BY <1>1 DEF s
    <2>6. \A i \in 1..3 : i = 1 \/ i = 2 \/ i = 3
      OBVIOUS
    <2>7. \A i \in 1..3 : s[i].do = "push" /\ s[i].key \in PushKeys
      BY <2>4, <2>6 DEF PushKeys
    <2>8. \A k \in PushKeys : \E i \in 1..3 : s[i].key = k
      BY <2>4 DEF PushKeys
    <2> QED BY <2>2, <2>5, <2>7, <2>8
  <1>3. \A step \in Steps : /\ Do(<<step>>) \in Seq(Step) /\ Len(Do(<<step>>)) = 1
                            /\ Do(<<step>>)[1].do = step
    <2> TAKE step \in Steps
    <2> DEFINE s == <<step>>
    <2>1. s \in Seq(Steps) /\ Len(s) = 1 /\ s[1] = step
      OBVIOUS
    <2> HIDE DEF s
    <2>2. Do(s) \in Seq(Step) /\ Len(Do(s)) = Len(s) /\ \A i \in 1..Len(s) : Do(s)[i] = [do |-> s[i]]
      BY <2>1, DoSteps
    <2>3. Do(s)[1] = [do |-> step]
      BY <2>1, <2>2
    <2>4. Do(s)[1].do = step
      BY <2>3
    <2> QED BY <2>1, <2>2, <2>4 DEF s
  <1>4. "compare" \in Steps /\ "answer" \in Steps
    BY DEF Steps
  <1>5. /\ tries \in Seq(Step) /\ n \in Nat
        /\ \A i \in 1..n : tries[i].do = "try" /\ tries[i].key \in DOMAIN form.extra \cap ExtraOnly
        /\ \A k \in DOMAIN form.extra \cap ExtraOnly : \E i \in 1..n : tries[i].key = k
    BY TriesAll, LenProperties
  <1> DEFINE p == Pushes \o Do(<<"compare">>)
             q == p \o tries
  <1> HIDE DEF tries, n
  <1>6. /\ p \in Seq(Step) /\ Len(p) = 4
        /\ \A i \in 1..3 : p[i] = Pushes[i]
        /\ p[4].do = "compare"
    <2> DEFINE d == Do(<<"compare">>)
    <2>1. d \in Seq(Step) /\ Len(d) = 1 /\ d[1].do = "compare"
      BY <1>3, <1>4
    <2> HIDE DEF d
    <2>2. Pushes \in Seq(Step) /\ Len(Pushes) = 3
      BY <1>2
    <2>3. p = Pushes \o d
      BY DEF d
    <2> HIDE DEF p
    <2>4. /\ p \in Seq(Step) /\ Len(p) = Len(Pushes) + Len(d)
          /\ \A i \in 1..Len(Pushes) : p[i] = Pushes[i]
          /\ \A i \in 1..Len(d) : p[Len(Pushes) + i] = d[i]
      <3>1. Pushes \in Seq(Step) /\ d \in Seq(Step)
        BY <2>1, <2>2
      <3> QED BY <2>3, <3>1, Joined
    <2>5. p[4] = d[1]
      <3>1. 1 \in 1..Len(d) /\ Len(Pushes) + 1 = 4
        BY <2>1, <2>2
      <3> QED BY <2>4, <3>1
    <2> QED BY <2>1, <2>2, <2>4, <2>5
  <1> HIDE DEF p
  <1>7. /\ q \in Seq(Step) /\ Len(q) = 4 + n
        /\ \A i \in 1..4 : q[i] = p[i]
        /\ \A i \in 1..n : q[4 + i] = tries[i]
    <2>1. n = Len(tries)
      BY DEF n, tries
    <2>2. q = p \o tries
      OBVIOUS
    <2> HIDE DEF q
    <2>3. /\ q \in Seq(Step) /\ Len(q) = Len(p) + Len(tries)
          /\ \A i \in 1..Len(p) : q[i] = p[i]
          /\ \A i \in 1..Len(tries) : q[Len(p) + i] = tries[i]
      <3>1. p \in Seq(Step) /\ tries \in Seq(Step)
        BY <1>5, <1>6
      <3> QED BY <2>2, <3>1, Joined
    <2> QED BY <1>6, <2>1, <2>3
  <1> HIDE DEF q
  <1>8. /\ plan \in Seq(Step) /\ Len(plan) = 5 + n
        /\ \A i \in 1..4 + n : plan[i] = q[i]
        /\ plan[5 + n].do = "answer"
    <2> DEFINE d == Do(<<"answer">>)
    <2>1. d \in Seq(Step) /\ Len(d) = 1 /\ d[1].do = "answer"
      BY <1>3, <1>4
    <2>2. plan = q \o d
      BY DEF q, p, tries
    <2> HIDE DEF d, plan
    <2>3. /\ plan \in Seq(Step) /\ Len(plan) = Len(q) + Len(d)
          /\ \A i \in 1..Len(q) : plan[i] = q[i]
          /\ \A i \in 1..Len(d) : plan[Len(q) + i] = d[i]
      <3>1. q \in Seq(Step) /\ d \in Seq(Step)
        BY <1>7, <2>1
      <3> QED BY <2>2, <3>1, Joined
    <2>4. plan[5 + n] = d[1]
      <3>1. 1 \in 1..Len(d) /\ Len(q) + 1 = 5 + n
        BY <1>5, <1>7, <2>1
      <3> QED BY <2>3, <3>1
    <2>5. Len(q) + Len(d) = 5 + n
      BY <1>5, <1>7, <2>1
    <2> QED BY <1>7, <2>1, <2>3, <2>4, <2>5
  <1> HIDE DEF plan
  <1>9. /\ \A i \in 1..3 : plan[i].do = "push" /\ plan[i].key \in PushKeys /\ plan[i] = Pushes[i]
        /\ plan[4].do = "compare"
        /\ \A i \in 5..4 + n : /\ plan[i] = tries[i - 4] /\ plan[i].do = "try"
                              /\ plan[i].key \in DOMAIN form.extra \cap ExtraOnly
        /\ \A i \in 1..5 + n : i \in 1..3 \/ i = 4 \/ i \in 5..4 + n \/ i = 5 + n
    <2>1. \A i \in 1..3 : plan[i] = Pushes[i]
      <3>1. \A i \in 1..3 : i \in 1..4 + n /\ i \in 1..4
        BY <1>5
      <3> QED BY <1>6, <1>7, <1>8, <3>1
    <2>2. plan[4] = p[4]
      <3>1. 4 \in 1..4 + n /\ 4 \in 1..4
        BY <1>5
      <3>2. plan[4] = q[4] /\ q[4] = p[4]
        BY <1>7, <1>8, <3>1
      <3> QED BY <3>2
    <2>3. \A i \in 5..4 + n : plan[i] = tries[i - 4] /\ i - 4 \in 1..n
      <3>1. \A i \in 5..4 + n : i - 4 \in 1..n /\ 4 + (i - 4) = i /\ i \in 1..4 + n
        BY <1>5
      <3> QED BY <1>7, <1>8, <3>1
    <2>4. \A i \in 1..5 + n : i \in 1..3 \/ i = 4 \/ i \in 5..4 + n \/ i = 5 + n
      BY <1>5
    <2> QED BY <1>2, <1>5, <1>6, <2>1, <2>2, <2>3, <2>4
  <1>10. PlanOK(plan, form)
    BY <1>8, <1>9 DEF PlanOK
  <1>11. \A i \in 1..Len(plan) : /\ plan[i].do \in {"push", "compare", "try", "answer"}
                                 /\ plan[i].do = "answer" => i = Len(plan)
                                 /\ plan[i].do = "compare" => \A j \in 1..(i - 1) : plan[j].do = "push"
    BY <1>8, <1>9
  <1>12. ASSUME NEW k \in PushKeys
         PROVE  \E i \in 1..Len(plan) : plan[i].do \in {"push", "try"} /\ plan[i].key = k
    <2>1. PICK i \in 1..3 : Pushes[i].key = k
      BY <1>2
    <2>2. i \in 1..Len(plan)
      BY <1>5, <1>8
    <2> QED BY <1>9, <2>1, <2>2
  <1>13. ASSUME NEW k \in DOMAIN form.extra \cap ExtraOnly
         PROVE  \E i \in 1..Len(plan) : plan[i].do \in {"push", "try"} /\ plan[i].key = k
    <2>1. PICK i \in 1..n : tries[i].key = k
      BY <1>5
    <2>2. i + 4 \in 1..Len(plan) /\ i + 4 \in 5..4 + n /\ i + 4 - 4 = i
      BY <1>5, <1>8
    <2> QED BY <1>9, <2>1, <2>2
  <1>14. plan \in Seq(Step)
    BY <1>8
  <1> QED BY <1>10, <1>11, <1>12, <1>13, <1>14 DEF plan, tries

-----------------------------------------------------------------------------
(* Requests as they begin                                                  *)

\* What a request of this kind begins with.
Opening(kind, form, steps) ==
  \/ /\ kind = "save" /\ steps = <<"unit", "save", "update", "answer">>
  \/ /\ kind = "save" /\ steps = <<"unit", "save", "start", "answer">> /\ ~Mounted
  \/ /\ kind = "mount" /\ steps = <<"start", "answer">>
  \/ /\ kind = "unmount" /\ steps = <<"stop", "answer">>
  \/ /\ kind = "remount" /\ steps = <<"unit", "stop", "start", "answer">> /\ form = saved
  \/ /\ kind = "unit" /\ steps = <<"unit", "startIfDown", "answer">> /\ form = saved
  \/ /\ kind = "passthrough" /\ steps = <<"unit", "stop", "start", "save", "answer">>
     /\ form.passthrough # "off"
  \/ /\ kind = "passthrough" /\ steps = <<"unit", "start", "save", "answer">> /\ ~Mounted
     /\ form.passthrough # "off"

Opens(c, kind, form, steps) ==
  /\ form \in Pools /\ steps \in Seq(Steps)
  /\ \A i \in 1..Len(steps) : steps[i] \notin {"push", "try"}
  /\ Accept(c, kind, form, Do(steps))
  /\ Opening(kind, form, steps)
  /\ \/ kind \in {"save", "passthrough"} /\ lock = NoClient /\ lock' = c
     \/ kind \notin {"save", "passthrough"} /\ lock' = lock

LEMMA PassthroughPool ==
  ASSUME NEW pool \in Pools
  PROVE  WithPassthrough(pool) \in Pools /\ WithPassthrough(pool).passthrough # "off"
  <1>1. PICK keys \in SUBSET OptionKeys : pool \in Pool(keys)
    BY DEF Pools
  <1>2. WithPassthrough(pool) \in Pool(keys) /\ WithPassthrough(pool).passthrough = "rw"
    BY <1>1, OptionsAssumption DEF WithPassthrough, Pool
  <1> QED BY <1>2 DEF Pools

LEMMA PlainSteps ==
  ASSUME NEW a \in Steps \ {"push", "try"}, NEW b \in Steps \ {"push", "try"},
         NEW c \in Steps \ {"push", "try"}, NEW d \in Steps \ {"push", "try"},
         NEW e \in Steps \ {"push", "try"},
         NEW s \in {<<a, b>>, <<a, b, c>>, <<a, b, c, d>>, <<a, b, c, d, e>>}
  PROVE  s \in Seq(Steps) /\ \A i \in 1..Len(s) : s[i] \notin {"push", "try"}
  <1>1. CASE s = <<a, b>>
    BY <1>1
  <1>2. CASE s = <<a, b, c>>
    BY <1>2
  <1>3. CASE s = <<a, b, c, d>>
    BY <1>3
  <1>4. CASE s = <<a, b, c, d, e>>
    BY <1>4
  <1> QED BY <1>1, <1>2, <1>3, <1>4

LEMMA Opened ==
  ASSUME TypeInv, NEW c \in Clients,
         \/ \E form \in Forms : Save(c, form)
         \/ MountNow(c) \/ UnmountNow(c) \/ Remount(c) \/ FixUnit(c) \/ FixPassthrough(c)
  PROVE  \E kind, form, steps : Opens(c, kind, form, steps)
  <1>0. saved \in Pools /\ Forms \subseteq Pools
    BY SettingsAssumption, PoolsArePools DEF TypeInv
  <1>w. {"unit", "save", "update", "start", "stop", "startIfDown", "answer"} \subseteq Steps \ {"push", "try"}
    BY DEF Steps
  <1>1. ASSUME NEW form \in Forms, Save(c, form)
        PROVE  \E kind, fm, steps : Opens(c, kind, fm, steps)
    <2> DEFINE steps == <<"unit", "save", IF Mounted THEN "update" ELSE "start", "answer">>
    <2>1. Accept(c, "save", form, Do(steps)) /\ lock = NoClient /\ lock' = c
      BY <1>1 DEF Save, Locks
    <2>2. steps \in Seq(Steps) /\ \A i \in 1..Len(steps) : steps[i] \notin {"push", "try"}
      BY <1>w, PlainSteps
    <2>3. Opening("save", form, steps)
      BY DEF Opening
    <2> HIDE DEF steps
    <2>4. Opens(c, "save", form, steps)
      BY <1>0, <2>1, <2>2, <2>3 DEF Opens
    <2> QED BY <2>4
  <1>2. ASSUME MountNow(c) PROVE \E kind, form, steps : Opens(c, kind, form, steps)
    <2> DEFINE steps == <<"start", "answer">>
    <2>1. Accept(c, "mount", saved, Do(steps)) /\ lock' = lock
      BY <1>2 DEF MountNow
    <2>2. steps \in Seq(Steps) /\ \A i \in 1..Len(steps) : steps[i] \notin {"push", "try"}
      BY <1>w, PlainSteps
    <2>3. Opening("mount", saved, steps)
      BY DEF Opening
    <2> HIDE DEF steps
    <2>4. Opens(c, "mount", saved, steps)
      BY <1>0, <2>1, <2>2, <2>3 DEF Opens
    <2> QED BY <2>4
  <1>3. ASSUME UnmountNow(c) PROVE \E kind, form, steps : Opens(c, kind, form, steps)
    <2> DEFINE steps == <<"stop", "answer">>
    <2>1. Accept(c, "unmount", saved, Do(steps)) /\ lock' = lock
      BY <1>3 DEF UnmountNow
    <2>2. steps \in Seq(Steps) /\ \A i \in 1..Len(steps) : steps[i] \notin {"push", "try"}
      BY <1>w, PlainSteps
    <2>3. Opening("unmount", saved, steps)
      BY DEF Opening
    <2> HIDE DEF steps
    <2>4. Opens(c, "unmount", saved, steps)
      BY <1>0, <2>1, <2>2, <2>3 DEF Opens
    <2> QED BY <2>4
  <1>4. ASSUME Remount(c) PROVE \E kind, form, steps : Opens(c, kind, form, steps)
    <2> DEFINE steps == <<"unit", "stop", "start", "answer">>
    <2>1. Accept(c, "remount", saved, Do(steps)) /\ lock' = lock
      BY <1>4 DEF Remount
    <2>2. steps \in Seq(Steps) /\ \A i \in 1..Len(steps) : steps[i] \notin {"push", "try"}
      BY <1>w, PlainSteps
    <2>3. Opening("remount", saved, steps)
      BY DEF Opening
    <2> HIDE DEF steps
    <2>4. Opens(c, "remount", saved, steps)
      BY <1>0, <2>1, <2>2, <2>3 DEF Opens
    <2> QED BY <2>4
  <1>5. ASSUME FixUnit(c) PROVE \E kind, form, steps : Opens(c, kind, form, steps)
    <2> DEFINE steps == <<"unit", "startIfDown", "answer">>
    <2>1. Accept(c, "unit", saved, Do(steps)) /\ lock' = lock
      BY <1>5 DEF FixUnit
    <2>2. steps \in Seq(Steps) /\ \A i \in 1..Len(steps) : steps[i] \notin {"push", "try"}
      BY <1>w, PlainSteps
    <2>3. Opening("unit", saved, steps)
      BY DEF Opening
    <2> HIDE DEF steps
    <2>4. Opens(c, "unit", saved, steps)
      BY <1>0, <2>1, <2>2, <2>3 DEF Opens
    <2> QED BY <2>4
  <1>6. ASSUME FixPassthrough(c) PROVE \E kind, form, steps : Opens(c, kind, form, steps)
    <2> DEFINE steps == PassthroughSteps
               form  == WithPassthrough(saved)
    <2>1. Accept(c, "passthrough", form, Do(steps)) /\ lock = NoClient /\ lock' = c
      BY <1>6 DEF FixPassthrough, Locks
    <2>2. steps = IF Mounted THEN <<"unit", "stop", "start", "save", "answer">>
                  ELSE <<"unit", "start", "save", "answer">>
      BY DEF PassthroughSteps
    <2>3. steps \in Seq(Steps) /\ \A i \in 1..Len(steps) : steps[i] \notin {"push", "try"}
      BY <1>w, <2>2, PlainSteps
    <2>4. form \in Pools /\ form.passthrough # "off"
      BY <1>0, PassthroughPool
    <2> HIDE DEF form, steps
    <2>5. Opening("passthrough", form, steps)
      BY <2>2, <2>4 DEF Opening
    <2>6. Opens(c, "passthrough", form, steps)
      BY <1>0, <2>1, <2>3, <2>4, <2>5 DEF Opens
    <2> QED BY <2>6
  <1> QED BY <1>1, <1>2, <1>3, <1>4, <1>5, <1>6

LEMMA TypeOfRequests ==
  ASSUME TypeInv, NEW c \in Clients, NEW kind, NEW form, NEW steps, Opens(c, kind, form, steps)
  PROVE  TypeInv'
  <1>1. form \in Pools /\ steps \in Seq(Steps) /\ Do(steps) \in Seq(Step) /\ PlanOK(Do(steps), form)
    BY DoPlanOK DEF Opens
  <1>2. Accept(c, kind, form, Do(steps)) /\ lock' \in Clients \cup {NoClient}
    BY DEF Opens, TypeInv
  <1>3. /\ job' \in [Clients -> Job]
        /\ job'[c] = [kind |-> kind, form |-> form, plan |-> Do(steps), stale |-> {}, alone |-> Alone(c)]
        /\ \A d \in Clients \ {c} : job'[d].form = job[d].form /\ job'[d].plan = job[d].plan
        /\ UNCHANGED <<saved, unit, live, recent>>
    BY <1>1, <1>2, Accepted
  <1>4. ASSUME NEW d \in Clients PROVE PlanOK(job'[d].plan, job'[d].form)
    <2>1. CASE d = c
      BY <1>1, <1>3, <2>1
    <2>2. CASE d # c
      BY <1>3, <2>2, JobFields DEF Form
    <2> QED BY <2>1, <2>2
  <1>5. LiveOK'
    BY <1>3 DEF TypeInv, LiveOK, Mounted
  <1>6. saved' \in Pools /\ unit' \in Unit /\ recent' \in BOOLEAN
    BY <1>3 DEF TypeInv
  <1>7. \A d \in Clients : PlanOK(job[d].plan, Form(d))'
    BY <1>4 DEF PlanOK, Form
  <1> QED BY <1>2, <1>3, <1>5, <1>6, <1>7 DEF TypeInv

-----------------------------------------------------------------------------
(* Types, step by step                                                     *)

LEMMA TypeKept ==
  ASSUME TypeInv, NEW c \in Clients,
         saved' \in Pools, unit' \in Unit, UNCHANGED recent, LiveOK',
         lock' \in Clients \cup {NoClient}, job' \in [Clients -> Job],
         \A d \in Clients \ {c} : job'[d] = job[d],
         PlanOK(job'[c].plan, job'[c].form)
  PROVE  TypeInv'
  <1>1. ASSUME NEW d \in Clients PROVE PlanOK(job'[d].plan, job'[d].form)
    <2>1. CASE d = c
      BY <2>1
    <2>2. CASE d # c
      BY <2>2, JobFields DEF Form
    <2> QED BY <2>1, <2>2
  <1>2. \A d \in Clients : PlanOK(job[d].plan, Form(d))'
    BY <1>1 DEF PlanOK, Form
  <1> QED BY <1>2 DEF TypeInv

\* Going on with the plan.
LEMMA Proceeded ==
  ASSUME TypeInv, NEW c \in Clients, job[c].plan # <<>>, Proceed(c)
  PROVE  /\ job' \in [Clients -> Job] /\ lock' \in Clients \cup {NoClient} /\ lock' = lock
         /\ job'[c].plan = Tail(job[c].plan)
         /\ job'[c].kind = job[c].kind /\ job'[c].form = job[c].form
         /\ job'[c].stale = job[c].stale /\ job'[c].alone = job[c].alone
         /\ \A d \in Clients \ {c} : job'[d] = job[d]
         /\ PlanOK(job'[c].plan, job'[c].form)
  <1> DEFINE plan == Tail(job[c].plan)
  <1>1. job[c].plan \in Seq(Step) /\ PlanOK(job[c].plan, job[c].form)
    BY JobFields DEF Form
  <1>2. plan \in Seq(Step) /\ PlanOK(plan, job[c].form)
    BY <1>1, TailOfPlan
  <1>3. job' = [job EXCEPT ![c].plan = plan] /\ lock' = lock
    BY DEF Proceed, Continue
  <1> HIDE DEF plan
  <1>4. /\ job' \in [Clients -> Job]
        /\ job'[c].plan = plan /\ job'[c].kind = job[c].kind /\ job'[c].form = job[c].form
        /\ job'[c].stale = job[c].stale /\ job'[c].alone = job[c].alone
        /\ \A d \in Clients \ {c} : job'[d] = job[d]
    BY <1>2, <1>3, Continued
  <1> QED BY <1>2, <1>3, <1>4 DEF TypeInv, plan

LEMMA Stopped ==
  ASSUME TypeInv, NEW c \in Clients, Ends(c)
  PROVE  /\ job' \in [Clients -> Job] /\ lock' \in Clients \cup {NoClient}
         /\ job'[c] = Idle /\ PlanOK(job'[c].plan, job'[c].form)
         /\ \A d \in Clients \ {c} : job'[d] = job[d]
         /\ lock' = (IF lock = c THEN NoClient ELSE lock)
  <1>1. PlanOK(Idle.plan, Idle.form)
    BY IdleJob DEF PlanOK, Idle
  <1> QED BY <1>1, Ended DEF TypeInv

\* An option the pool takes.
LEMMA Taken ==
  ASSUME TypeInv, Mounted, NEW pool \in Pools, NEW key, Takes(key, pool),
         key \in PushKeys \cup (DOMAIN pool.extra \cap ExtraOnly)
  PROVE  /\ LiveOK' /\ Mounted' /\ live'.recent = live.recent
         /\ key = "branches" => live'.branches = pool.branches /\ live'.options = live.options
         /\ key # "branches" =>
              /\ live'.branches = live.branches
              /\ live'.options[key] = merged_options(pool)[key]
              /\ \A k \in OptionKeys \ {key} : live'.options[k] = live.options[k]
  <1>1. live \in Running /\ (~live.recent => live.options["passthrough"] = "off")
    BY DEF TypeInv, LiveOK
  <1>2. /\ live.options \in [OptionKeys -> Values] /\ live.branches \in Branches
        /\ live.recent \in BOOLEAN
    BY <1>1 DEF Running
  <1>3. CASE key = "branches"
    <2>1. live' = [live EXCEPT !.branches = pool.branches]
      BY <1>3 DEF Takes
    <2>2. pool.branches \in Branches
      BY DEF Pools, Pool
    <2>3. /\ live' \in Running /\ live'.branches = pool.branches /\ live'.options = live.options
          /\ live'.recent = live.recent
      BY <1>1, <2>1, <2>2 DEF Running
    <2>4. Mounted'
      BY <2>3, SettingsAssumption DEF Mounted
    <2> QED BY <1>1, <1>3, <2>3, <2>4 DEF LiveOK
  <1>4. CASE key # "branches"
    <2> DEFINE value == merged_options(pool)[key]
    <2>1. live' = [live EXCEPT !.options[key] = value]
      BY <1>4 DEF Takes
    <2>2. key \in DOMAIN merged_options(pool) /\ key \in OptionKeys /\ key # "passthrough"
      BY <1>4, MergedOptions DEF PushKeys, OptionKeys, ExtraOnly, VERIFIABLE_OPTIONS
    <2>3. value \in Values
      BY <2>2, MergedOptions DEF SomeOptions
    <2> HIDE DEF value
    <2>4. /\ live' \in Running /\ live'.options = [live.options EXCEPT ![key] = value]
          /\ live'.branches = live.branches /\ live'.recent = live.recent
      BY <1>1, <2>1, <2>2, <2>3 DEF Running
    <2>5. live'.options[key] = value /\ \A k \in OptionKeys \ {key} : live'.options[k] = live.options[k]
      BY <1>2, <2>2, <2>4
    <2>6. Mounted'
      BY <2>4, SettingsAssumption DEF Mounted
    <2>7. "passthrough" \in OptionKeys \ {key}
      BY <2>2 DEF OptionKeys, VERIFIABLE_OPTIONS
    <2>8. LiveOK'
      BY <1>1, <2>4, <2>5, <2>7 DEF LiveOK
    <2> QED BY <1>4, <2>4, <2>5, <2>6, <2>8 DEF value
  <1> QED BY <1>3, <1>4

\* A pool that is mounted anew.
LEMMA MountedAnew ==
  ASSUME TypeInv, Accepts(unit.options, recent), live' = Started(unit, recent)
  PROVE  LiveOK' /\ Mounted' /\ live'.recent = recent
  BY StartedRuns DEF TypeInv, LiveOK, Mounted

LEMMA HeadOfPlan ==
  ASSUME TypeInv, NEW c \in Clients, job[c].plan # <<>>
  PROVE  /\ Head(job[c].plan).do = "push" => Head(job[c].plan).key \in PushKeys
         /\ Head(job[c].plan).do = "try" =>
              Head(job[c].plan).key \in DOMAIN Form(c).extra \cap ExtraOnly
  <1>1. Head(job[c].plan) = job[c].plan[1] /\ 1 \in 1..Len(job[c].plan)
    BY JobFields, TailOfPlan
  <1> QED BY <1>1, JobFields DEF PlanOK

LEMMA TypeOfWork ==
  ASSUME TypeInv, NEW c \in Clients, Work(c)
  PROVE  TypeInv'
  <1>0. /\ saved \in Pools /\ unit \in Unit /\ LiveOK /\ Form(c) \in Pools
        /\ lock \in Clients \cup {NoClient}
    BY JobFields DEF TypeInv, Form
  <1>l. ASSUME UNCHANGED live PROVE LiveOK'
    BY <1>l, <1>0 DEF LiveOK, Mounted
  <1>1. ASSUME WriteUnit(c) PROVE TypeInv'
    <2>1. pool_unit(Form(c)) \in Unit
      BY <1>0, MergedOptions
    <2> QED BY <1>0, <1>1, <1>l, <2>1, Proceeded, TypeKept DEF WriteUnit, At
  <1>2. ASSUME SaveState(c) PROVE TypeInv'
    BY <1>0, <1>2, <1>l, Proceeded, TypeKept DEF SaveState, At
  <1>3. ASSUME RuntimeUpdate(c) PROVE TypeInv'
    <2> DEFINE long  == Pushes \o Do(<<"compare">>) \o Tries(Form(c)) \o Do(<<"answer">>)
               short == Do(<<"answer">>)
               plan  == IF Mounted THEN long ELSE short
    <2>1. long \in Seq(Step) /\ PlanOK(long, Form(c))
      BY <1>0, UpdatePlan
    <2>2. short \in Seq(Step) /\ PlanOK(short, Form(c))
      <3> DEFINE s == <<"answer">>
      <3>1. s \in Seq(Steps) /\ \A i \in 1..Len(s) : s[i] \notin {"push", "try"}
        BY DEF Steps
      <3> HIDE DEF s
      <3>2. Do(s) \in Seq(Step) /\ PlanOK(Do(s), Form(c))
        BY <3>1, DoPlanOK
      <3> QED BY <3>2 DEF s
    <2>3. Continue(c, plan) /\ UNCHANGED <<saved, unit, live, recent>>
      BY <1>3 DEF RuntimeUpdate
    <2> HIDE DEF long, short
    <2>4. plan \in Seq(Step) /\ PlanOK(plan, Form(c))
      BY <2>1, <2>2
    <2> HIDE DEF plan
    <2>5. job' = [job EXCEPT ![c].plan = plan] /\ lock' = lock
      BY <2>3 DEF Continue
    <2>6. /\ job' \in [Clients -> Job] /\ \A d \in Clients \ {c} : job'[d] = job[d]
          /\ job'[c].plan = plan /\ job'[c].form = Form(c)
      BY <2>4, <2>5, Continued DEF Form
    <2> QED BY <1>0, <1>l, <2>3, <2>4, <2>5, <2>6, TypeKept
  <1>4. ASSUME Push(c) PROVE TypeInv'
    <2> DEFINE key == Head(job[c].plan).key
    <2>1. key \in PushKeys /\ job[c].plan # <<>>
      BY <1>4, HeadOfPlan DEF Push, At
    <2>2. UNCHANGED <<saved, unit, recent>>
      BY <1>4 DEF Push
    <2>3. CASE Mounted /\ Takes(key, Form(c)) /\ Proceed(c)
      <3>1. LiveOK'
        BY <1>0, <2>1, <2>3, Taken
      <3> QED BY <1>0, <2>1, <2>2, <2>3, <3>1, Proceeded, TypeKept
    <2>4. CASE Ends(c) /\ UNCHANGED live
      BY <1>0, <1>l, <2>2, <2>4, Stopped, TypeKept
    <2> QED BY <1>4, <2>3, <2>4 DEF Push
  <1>5. ASSUME Compare(c) PROVE TypeInv'
    <2> DEFINE plan  == Tail(job[c].plan)
               stale == IF Mounted THEN Differs(Form(c), MOUNT_TIME_OPTIONS) ELSE {}
    <2>1. plan \in Seq(Step) /\ PlanOK(plan, Form(c))
      BY <1>5, JobFields, TailOfPlan DEF Compare, At
    <2>2. stale \in SUBSET OptionKeys
      BY DEF Differs, MOUNT_TIME_OPTIONS, OptionKeys, VERIFIABLE_OPTIONS
    <2>3. job' = [job EXCEPT ![c].plan = plan, ![c].stale = stale]
      BY <1>5 DEF Compare
    <2> HIDE DEF plan, stale
    <2>4. /\ job' \in [Clients -> Job] /\ \A d \in Clients \ {c} : job'[d] = job[d]
          /\ job'[c].plan = plan /\ job'[c].form = Form(c)
      BY <2>1, <2>2, <2>3, JobFields DEF TypeInv, Job, Form
    <2>5. UNCHANGED <<saved, unit, live, recent, lock>>
      BY <1>5 DEF Compare
    <2> QED BY <1>0, <1>l, <2>1, <2>4, <2>5, TypeKept
  <1>6. ASSUME Try(c) PROVE TypeInv'
    <2> DEFINE key == Head(job[c].plan).key
    <2>1. key \in DOMAIN Form(c).extra \cap ExtraOnly /\ job[c].plan # <<>>
      BY <1>6, HeadOfPlan DEF Try, At
    <2>2. UNCHANGED <<saved, unit, recent>>
      BY <1>6 DEF Try
    <2>3. CASE Mounted /\ Takes(key, Form(c)) /\ Proceed(c)
      <3>1. LiveOK'
        BY <1>0, <2>1, <2>3, Taken
      <3> QED BY <1>0, <2>1, <2>2, <2>3, <3>1, Proceeded, TypeKept
    <2>4. CASE /\ job' = [job EXCEPT ![c].plan = Tail(@), ![c].stale = @ \cup {key}]
               /\ UNCHANGED <<live, lock>>
      <3> DEFINE plan  == Tail(job[c].plan)
                 stale == job[c].stale \cup {key}
      <3>1. plan \in Seq(Step) /\ PlanOK(plan, Form(c))
        BY <2>1, JobFields, TailOfPlan
      <3>2. stale \in SUBSET OptionKeys
        BY <2>1, JobFields DEF OptionKeys
      <3>3. job' = [job EXCEPT ![c].plan = plan, ![c].stale = stale]
        BY <2>4
      <3> HIDE DEF plan, stale
      <3>4. /\ job' \in [Clients -> Job] /\ \A d \in Clients \ {c} : job'[d] = job[d]
            /\ job'[c].plan = plan /\ job'[c].form = Form(c)
        BY <3>1, <3>2, <3>3, JobFields DEF TypeInv, Job, Form
      <3> QED BY <1>0, <1>l, <2>2, <2>4, <3>1, <3>4, TypeKept
    <2> QED BY <1>6, <2>3, <2>4 DEF Try
  <1>7. ASSUME Stop(c) PROVE TypeInv'
    <2>1. UNCHANGED <<saved, unit, recent>> /\ job[c].plan # <<>>
      BY <1>7 DEF Stop, At
    <2>2. CASE live' = NotMounted /\ Proceed(c)
      <3>1. LiveOK'
        BY <2>2 DEF LiveOK, Mounted
      <3> QED BY <1>0, <2>1, <2>2, <3>1, Proceeded, TypeKept
    <2>3. CASE UNCHANGED live /\ Ends(c)
      BY <1>0, <1>l, <2>1, <2>3, Stopped, TypeKept
    <2> QED BY <1>7, <2>2, <2>3 DEF Stop, Raises
  <1>8. ASSUME Start(c) PROVE TypeInv'
    <2>1. UNCHANGED <<saved, unit, recent>> /\ job[c].plan # <<>>
      BY <1>8 DEF Start, At
    <2>2. CASE UNCHANGED live /\ Proceed(c)
      BY <1>0, <1>l, <2>1, <2>2, Proceeded, TypeKept
    <2>3. CASE Accepts(unit.options, recent) /\ live' = Started(unit, recent) /\ Proceed(c)
      BY <1>0, <2>1, <2>3, MountedAnew, Proceeded, TypeKept
    <2>4. CASE UNCHANGED live /\ Ends(c)
      BY <1>0, <1>l, <2>1, <2>4, Stopped, TypeKept
    <2> QED BY <1>8, <2>2, <2>3, <2>4 DEF Start, Raises
  <1>9. ASSUME StartIfDown(c) PROVE TypeInv'
    <2> DEFINE rest == Tail(job[c].plan)
               plan == (IF Mounted THEN <<>> ELSE Do(<<"start">>)) \o rest
    <2>1. /\ Continue(c, plan) /\ job[c].plan # <<>>
          /\ UNCHANGED <<saved, unit, live, recent>>
      BY <1>9 DEF StartIfDown, At
    <2>2. rest \in Seq(Step) /\ PlanOK(rest, Form(c))
      BY <2>1, JobFields, TailOfPlan
    <2>3. Do(<<"start">>) \in Seq(Step) /\ PlanOK(Do(<<"start">>), Form(c))
      <3> DEFINE s == <<"start">>
      <3>1. s \in Seq(Steps) /\ \A i \in 1..Len(s) : s[i] \notin {"push", "try"}
        BY DEF Steps
      <3> HIDE DEF s
      <3>2. Do(s) \in Seq(Step) /\ PlanOK(Do(s), Form(c))
        BY <3>1, DoPlanOK
      <3> QED BY <3>2 DEF s
    <2> HIDE DEF rest
    <2>4. plan \in Seq(Step) /\ PlanOK(plan, Form(c))
      <3>1. CASE Mounted
        <4>1. plan = rest
          BY <2>2, <3>1, ConcatEmptySeq
        <4> QED BY <2>2, <4>1
      <3>2. CASE ~Mounted
        <4> DEFINE s == Do(<<"start">>)
        <4>1. plan = s \o rest /\ s \in Seq(Step) /\ PlanOK(s, Form(c))
          BY <2>3, <3>2
        <4> HIDE DEF s
        <4>2. s \o rest \in Seq(Step) /\ PlanOK(s \o rest, Form(c))
          BY <2>2, <4>1, PlansJoined
        <4> HIDE DEF plan
        <4> QED BY <4>1, <4>2
      <3> QED BY <3>1, <3>2
    <2> HIDE DEF plan
    <2>5. job' = [job EXCEPT ![c].plan = plan] /\ lock' = lock
      BY <2>1 DEF Continue
    <2>6. /\ job' \in [Clients -> Job] /\ \A d \in Clients \ {c} : job'[d] = job[d]
          /\ job'[c].plan = plan /\ job'[c].form = Form(c)
      BY <2>4, <2>5, Continued DEF Form
    <2> QED BY <1>0, <1>l, <2>1, <2>4, <2>5, <2>6, TypeKept
  <1>10. ASSUME Answer(c) PROVE TypeInv'
    BY <1>0, <1>10, <1>l, Stopped, TypeKept DEF Answer
  <1> QED BY <1>1, <1>2, <1>3, <1>4, <1>5, <1>6, <1>7, <1>8, <1>9, <1>10 DEF Work

LEMMA AllDropped ==
  ASSUME TypeInv, Dropped
  PROVE  /\ job' \in [Clients -> Job] /\ lock' = NoClient
         /\ \A c \in Clients : job'[c] = Idle /\ PlanOK(job[c].plan, Form(c))'
  <1>1. PlanOK(Idle.plan, Idle.form) /\ Idle \in Job
    BY IdleJob DEF PlanOK, Idle
  <1>2. job' \in [Clients -> Job] /\ \A c \in Clients : job'[c] = Idle
    BY <1>1 DEF Dropped
  <1>3. \A c \in Clients : PlanOK(job[c].plan, Form(c))'
    BY <1>1, <1>2 DEF PlanOK, Form
  <1> QED BY <1>2, <1>3 DEF Dropped

LEMMA TypeOfHost ==
  ASSUME TypeInv, Restart \/ Reboot \/ Upgrade \/ CalmDown
  PROVE  TypeInv'
  <1>l. ASSUME UNCHANGED live PROVE LiveOK'
    BY <1>l DEF TypeInv, LiveOK, Mounted
  <1>1. ASSUME Restart PROVE TypeInv'
    BY <1>1, <1>l, AllDropped DEF Restart, TypeInv
  <1>2. ASSUME Reboot PROVE TypeInv'
    <2>1. CASE Accepts(unit.options, recent) /\ live' = Started(unit, recent)
      <3>1. LiveOK'
        BY <2>1, MountedAnew
      <3> QED BY <1>2, <3>1, AllDropped DEF Reboot, TypeInv
    <2>2. CASE live' = NotMounted
      <3>1. LiveOK'
        BY <2>2 DEF LiveOK, Mounted
      <3> QED BY <1>2, <3>1, AllDropped DEF Reboot, TypeInv
    <2> QED BY <1>2, <2>1, <2>2 DEF Reboot
  <1>3. ASSUME UNCHANGED <<saved, unit, live, lock, job>>, recent' \in BOOLEAN PROVE TypeInv'
    <2>1. \A d \in Clients : PlanOK(job[d].plan, Form(d))'
      BY <1>3 DEF TypeInv, PlanOK, Form
    <2> QED BY <1>3, <1>l, <2>1 DEF TypeInv
  <1>4. ASSUME Upgrade \/ CalmDown PROVE TypeInv'
    BY <1>3, <1>4 DEF Upgrade, CalmDown, TypeInv
  <1> QED BY <1>1, <1>2, <1>4

LEMMA TypeInit == Init => TypeInv
  <1> SUFFICES ASSUME Init PROVE TypeInv
    OBVIOUS
  <1>1. FirstForm \in Pools
    BY SettingsAssumption, PoolsArePools
  <1>2. saved \in Pools /\ unit \in Unit
    BY <1>1, MergedOptions DEF Init
  <1>3. recent \in BOOLEAN
    BY SettingsAssumption DEF Init
  <1>4. LiveOK
    BY DEF Init, LiveOK, Mounted
  <1>5. job \in [Clients -> Job] /\ \A c \in Clients : job[c] = Idle
    BY IdleJob DEF Init
  <1>6. \A c \in Clients : PlanOK(job[c].plan, Form(c))
    BY <1>5, IdleJob DEF Form, PlanOK
  <1> QED BY <1>2, <1>3, <1>4, <1>5, <1>6 DEF Init, TypeInv

\* Every step is the beginning of a request, work on one, or the host's.
LEMMA EveryStep ==
  ASSUME TypeInv, Next
  PROVE  \/ \E c \in Clients : \E kind, form, steps : Opens(c, kind, form, steps)
         \/ \E c \in Clients : Work(c)
         \/ Restart \/ Reboot \/ Upgrade \/ CalmDown
  <1>1. ASSUME NEW c \in Clients, Request(c) \/ \E f \in DOMAIN FixFor : Repair(c, f)
        PROVE  \E kind, form, steps : Opens(c, kind, form, steps)
    <2>1. \/ \E form \in Forms : Save(c, form)
          \/ MountNow(c) \/ UnmountNow(c) \/ Remount(c) \/ FixUnit(c) \/ FixPassthrough(c)
      BY <1>1 DEF Request, Repair
    <2> QED BY <2>1, Opened
  <1> QED BY <1>1 DEF Next

LEMMA Unchanged ==
  ASSUME TypeInv, UNCHANGED vars
  PROVE  TypeInv'
  <1>1. \A d \in Clients : PlanOK(job[d].plan, Form(d))'
    BY DEF TypeInv, PlanOK, Form, vars
  <1> QED BY <1>1 DEF TypeInv, LiveOK, Mounted, vars

LEMMA TypeNext ==
  ASSUME TypeInv, [Next]_vars
  PROVE  TypeInv'
  BY EveryStep, TypeOfRequests, TypeOfWork, TypeOfHost, Unchanged

\* The running pool has a value for every option, and an old mergerfs does
\* not do passthrough.
THEOREM TypeInvHolds == Spec => []TypeInv
  <1>1. TypeInv /\ [Next]_vars => TypeInv'
    BY TypeNext
  <1> QED BY TypeInit, <1>1, PTL DEF Spec

-----------------------------------------------------------------------------
(* What a step of a plan does                                              *)

\* What is left of a plan.
Left(c, steps) == job[c].plan = Do(steps)

\* c has steps left, or nothing; the others are where they were.
Moved(c, steps) ==
  /\ job'[c].plan = Do(steps)
  /\ job'[c].kind = job[c].kind /\ job'[c].form = job[c].form
  /\ job'[c].stale = job[c].stale /\ job'[c].alone = job[c].alone
  /\ \A d \in Clients \ {c} : job'[d] = job[d]
  /\ lock' = lock

Gone(c) ==
  /\ job'[c] = Idle
  /\ \A d \in Clients \ {c} : job'[d] = job[d]
  /\ lock' = IF lock = c THEN NoClient ELSE lock

Did(c, step, rest) ==
  /\ step = "unit" =>
       /\ Moved(c, rest) /\ unit' = pool_unit(Form(c)) /\ UNCHANGED <<saved, live, told>>
  /\ step = "save" =>
       /\ Moved(c, rest) /\ saved' = Form(c) /\ UNCHANGED <<unit, live, told>>
  /\ step = "stop" =>
       /\ UNCHANGED <<saved, unit>>
       /\ \/ Moved(c, rest) /\ live' = NotMounted /\ UNCHANGED told
          \/ Gone(c) /\ UNCHANGED live /\ told'
  /\ step = "start" =>
       /\ UNCHANGED <<saved, unit>>
       /\ \/ Moved(c, rest) /\ Mounted /\ UNCHANGED <<live, told>>
          \/ Moved(c, rest) /\ ~Mounted /\ Mounted' /\ live' = Started(unit, live'.recent)
             /\ live'.recent \in BOOLEAN
          \/ Gone(c) /\ ~Mounted /\ UNCHANGED live /\ told'
  /\ step = "answer" =>
       /\ Gone(c) /\ UNCHANGED <<saved, unit, live>> /\ told' = Tells(c)

LEMMA FirstOfPlan ==
  ASSUME TypeInv, NEW c \in Clients, NEW s \in Seq(Steps), s # <<>>, Left(c, s)
  PROVE  /\ job[c].plan # <<>>
         /\ \A step : At(c, step) => step = s[1]
         /\ Proceed(c) => Moved(c, Tail(s))
  <1>1. job[c].plan = Do(s) /\ Do(s) # <<>> /\ Head(Do(s)).do = s[1] /\ Tail(Do(s)) = Do(Tail(s))
    BY TailOfDo DEF Left
  <1>2. \A step : At(c, step) => step = s[1]
    BY <1>1 DEF At
  <1>3. Proceed(c) => Moved(c, Tail(s))
    BY <1>1, Proceeded DEF Moved
  <1> QED BY <1>1, <1>2, <1>3

LEMMA NextOfPlan ==
  ASSUME TypeInv, NEW c \in Clients, NEW s \in Seq(Steps), s # <<>>, Left(c, s), Work(c)
  PROVE  Did(c, s[1], Tail(s))
  <1>1. \A step : At(c, step) => step = s[1]
    BY FirstOfPlan
  <1>2. Proceed(c) => Moved(c, Tail(s))
    BY FirstOfPlan
  <1>3. Ends(c) => Gone(c)
    BY Ended DEF Gone
  <1>4. CASE WriteUnit(c)
    <2>1. s[1] = "unit"
      BY <1>1, <1>4 DEF WriteUnit
    <2> QED BY <1>2, <1>4, <2>1 DEF WriteUnit, Did
  <1>5. CASE SaveState(c)
    <2>1. s[1] = "save"
      BY <1>1, <1>5 DEF SaveState
    <2> QED BY <1>2, <1>5, <2>1 DEF SaveState, Did
  <1>6. CASE Stop(c)
    <2>1. s[1] = "stop"
      BY <1>1, <1>6 DEF Stop
    <2> QED BY <1>2, <1>3, <1>6, <2>1 DEF Stop, Raises, Did
  <1>7. CASE Start(c)
    <2>1. s[1] = "start"
      BY <1>1, <1>7 DEF Start
    <2>2. /\ Accepts(unit.options, recent) /\ live' = Started(unit, recent)
          => Mounted' /\ live' = Started(unit, live'.recent) /\ live'.recent \in BOOLEAN
      BY MountedAnew DEF TypeInv
    <2> QED BY <1>2, <1>3, <1>7, <2>1, <2>2 DEF Start, Raises, Did
  <1>8. CASE Answer(c)
    <2>1. s[1] = "answer"
      BY <1>1, <1>8 DEF Answer
    <2> QED BY <1>3, <1>8, <2>1 DEF Answer, Did
  <1>9. CASE RuntimeUpdate(c) \/ Push(c) \/ Compare(c) \/ Try(c) \/ StartIfDown(c)
    <2>1. s[1] \in {"update", "push", "compare", "try", "startIfDown"}
      BY <1>1, <1>9 DEF RuntimeUpdate, Push, Compare, Try, StartIfDown
    <2> QED BY <2>1 DEF Did
  <1> QED BY <1>4, <1>5, <1>6, <1>7, <1>8, <1>9 DEF Work

LEMMA NextStep ==
  ASSUME TypeInv, NEW c \in Clients, Work(c), NEW a \in Steps, NEW b \in Steps, NEW d \in Steps,
         NEW e \in Steps, NEW f \in Steps
  PROVE  /\ Left(c, <<a>>) => Did(c, a, <<>>)
         /\ Left(c, <<a, b>>) => Did(c, a, <<b>>)
         /\ Left(c, <<a, b, d>>) => Did(c, a, <<b, d>>)
         /\ Left(c, <<a, b, d, e>>) => Did(c, a, <<b, d, e>>)
         /\ Left(c, <<a, b, d, e, f>>) => Did(c, a, <<b, d, e, f>>)
  <1>1. ASSUME NEW s \in Seq(Steps), s # <<>>, Left(c, s) PROVE Did(c, s[1], Tail(s))
    BY <1>1, NextOfPlan
  <1>2. Left(c, <<a>>) => Did(c, a, <<>>)
    <2> DEFINE s == <<a>>
    <2>1. s \in Seq(Steps) /\ s # <<>> /\ s[1] = a /\ Tail(s) = <<>>
      OBVIOUS
    <2> HIDE DEF s
    <2>2. Left(c, s) => Did(c, a, <<>>)
      BY <1>1, <2>1
    <2> QED BY <2>2 DEF s
  <1>3. Left(c, <<a, b>>) => Did(c, a, <<b>>)
    <2> DEFINE s == <<a, b>>
    <2>1. s \in Seq(Steps) /\ s # <<>> /\ s[1] = a /\ Tail(s) = <<b>>
      BY ShortPlans
    <2> HIDE DEF s
    <2>2. Left(c, s) => Did(c, a, <<b>>)
      BY <1>1, <2>1
    <2> QED BY <2>2 DEF s
  <1>4. Left(c, <<a, b, d>>) => Did(c, a, <<b, d>>)
    <2> DEFINE s == <<a, b, d>>
    <2>1. s \in Seq(Steps) /\ s # <<>> /\ s[1] = a /\ Tail(s) = <<b, d>>
      BY ShortPlans
    <2> HIDE DEF s
    <2>2. Left(c, s) => Did(c, a, <<b, d>>)
      BY <1>1, <2>1
    <2> QED BY <2>2 DEF s
  <1>5. Left(c, <<a, b, d, e>>) => Did(c, a, <<b, d, e>>)
    <2> DEFINE s == <<a, b, d, e>>
    <2>1. s \in Seq(Steps) /\ s # <<>> /\ s[1] = a /\ Tail(s) = <<b, d, e>>
      BY ShortPlans
    <2> HIDE DEF s
    <2>2. Left(c, s) => Did(c, a, <<b, d, e>>)
      BY <1>1, <2>1
    <2> QED BY <2>2 DEF s
  <1>6. Left(c, <<a, b, d, e, f>>) => Did(c, a, <<b, d, e, f>>)
    <2> DEFINE s == <<a, b, d, e, f>>
    <2>1. s \in Seq(Steps) /\ s # <<>> /\ s[1] = a /\ Tail(s) = <<b, d, e, f>>
      BY ShortPlans
    <2> HIDE DEF s
    <2>2. Left(c, s) => Did(c, a, <<b, d, e, f>>)
      BY <1>1, <2>1
    <2> QED BY <2>2 DEF s
  <1> QED BY <1>2, <1>3, <1>4, <1>5, <1>6

\* The first step of a plan, for the plans that do not begin with an answer.
LEMMA NotYet ==
  ASSUME TypeInv, NEW c \in Clients, NEW step, At(c, step),
         NEW a \in Steps \ {step}, NEW b \in Steps, NEW d \in Steps, NEW e \in Steps, NEW f \in Steps
  PROVE  /\ ~Left(c, <<a, b>>) /\ ~Left(c, <<a, b, d>>) /\ ~Left(c, <<a, b, d, e>>)
         /\ ~Left(c, <<a, b, d, e, f>>)
  <1>1. ASSUME NEW s \in Seq(Steps), s # <<>>, s[1] = a PROVE ~Left(c, s)
    BY <1>1, FirstOfPlan
  <1>2. \A s \in Seq(Steps) : s # <<>> /\ s[1] = a => ~Left(c, s)
    BY <1>1
  <1>3. /\ <<a, b>> \in Seq(Steps) /\ <<a, b>> # <<>> /\ <<a, b>>[1] = a
        /\ <<a, b, d>> \in Seq(Steps) /\ <<a, b, d>> # <<>> /\ <<a, b, d>>[1] = a
        /\ <<a, b, d, e>> \in Seq(Steps) /\ <<a, b, d, e>> # <<>> /\ <<a, b, d, e>>[1] = a
        /\ <<a, b, d, e, f>> \in Seq(Steps) /\ <<a, b, d, e, f>> # <<>> /\ <<a, b, d, e, f>>[1] = a
    BY ShortPlans
  <1> QED BY <1>2, <1>3, Zenon

\* What startIfDown leaves of the unit's fix.
LEMMA NextIfDown ==
  ASSUME TypeInv, NEW c \in Clients, Left(c, <<"startIfDown", "answer">>), Work(c)
  PROVE  /\ UNCHANGED <<saved, unit, live, told>>
         /\ Mounted => Moved(c, <<"answer">>)
         /\ ~Mounted => Moved(c, <<"start", "answer">>)
  <1> DEFINE s == <<"startIfDown", "answer">>
             t == <<"answer">>
             u == <<"start">>
             w == <<"start", "answer">>
  <1>1. {"startIfDown", "start", "answer"} \subseteq Steps
    BY DEF Steps
  <1>2. /\ s \in Seq(Steps) /\ s # <<>> /\ s[1] = "startIfDown" /\ Tail(s) = t
        /\ t \in Seq(Steps) /\ Len(t) = 1 /\ t[1] = "answer"
        /\ u \in Seq(Steps) /\ Len(u) = 1 /\ u[1] = "start"
        /\ w \in Seq(Steps) /\ Len(w) = 2 /\ w[1] = "start" /\ w[2] = "answer"
    BY <1>1, ShortPlans
  <1>3. Left(c, s)
    OBVIOUS
  <1> HIDE DEF s, t, u, w
  <1>4. job[c].plan = Do(s) /\ Tail(Do(s)) = Do(t) /\ \A step : At(c, step) => step = "startIfDown"
    BY <1>2, <1>3, FirstOfPlan, TailOfDo DEF Left
  <1>5. StartIfDown(c)
    BY <1>4 DEF Work, WriteUnit, SaveState, RuntimeUpdate, Push, Compare, Try, Stop, Start, Answer
  <1>6. Do(u) \o Do(t) = Do(w)
    <2>1. /\ Do(u) \in Seq(Step) /\ Len(Do(u)) = 1 /\ Do(u)[1] = [do |-> "start"]
          /\ Do(t) \in Seq(Step) /\ Len(Do(t)) = 1 /\ Do(t)[1] = [do |-> "answer"]
          /\ Do(w) \in Seq(Step) /\ Len(Do(w)) = 2
          /\ Do(w)[1] = [do |-> "start"] /\ Do(w)[2] = [do |-> "answer"]
      BY <1>2, DoSteps
    <2> DEFINE p == Do(u)
               q == Do(t)
    <2> HIDE DEF p, q
    <2>2. p \in Seq(Step) /\ q \in Seq(Step) /\ Len(p) = 1 /\ Len(q) = 1
      BY <2>1 DEF p, q
    <2> DEFINE r == p \o q
    <2>r. r = p \o q
      OBVIOUS
    <2> HIDE DEF r
    <2>3. /\ r \in Seq(Step) /\ Len(r) = Len(p) + Len(q)
          /\ \A i \in 1..Len(p) : r[i] = p[i]
          /\ \A i \in 1..Len(q) : r[Len(p) + i] = q[i]
      <3>1. p \in Seq(Step) /\ q \in Seq(Step)
        BY <2>2
      <3> QED BY <2>r, <3>1, Joined
    <2>4. r[1] = p[1] /\ r[2] = q[1]
      <3>1. 1 \in 1..Len(p) /\ 1 \in 1..Len(q) /\ Len(p) + 1 = 2
        BY <2>2
      <3> QED BY <2>3, <3>1
    <2>5. r \in Seq(Step) /\ Len(r) = 2 /\ r[1] = [do |-> "start"] /\ r[2] = [do |-> "answer"]
      BY <2>1, <2>2, <2>3, <2>4 DEF p, q
    <2>6. \A i \in 1..Len(r) : r[i] = Do(w)[i]
      BY <2>1, <2>5
    <2>7. r = Do(w)
      BY <2>1, <2>5, <2>6, SeqEqual
    <2> QED BY <2>7 DEF p, q, r
  <1>7. Continue(c, (IF Mounted THEN <<>> ELSE Do(u)) \o Do(t)) /\ UNCHANGED <<saved, unit, live, told>>
    BY <1>4, <1>5 DEF StartIfDown, u
  <1>8. ASSUME NEW v \in {t, w}, Continue(c, Do(v)) PROVE Moved(c, v)
    <2>1. Do(v) \in Seq(Step)
      BY <1>2, DoSteps
    <2> DEFINE plan == Do(v)
    <2>2. job' = [job EXCEPT ![c].plan = plan] /\ lock' = lock
      BY <1>8 DEF Continue
    <2> HIDE DEF plan
    <2>3. /\ job'[c].plan = plan /\ job'[c].kind = job[c].kind /\ job'[c].form = job[c].form
          /\ job'[c].stale = job[c].stale /\ job'[c].alone = job[c].alone
          /\ \A d \in Clients \ {c} : job'[d] = job[d]
      BY <2>1, <2>2, Continued DEF plan
    <2> QED BY <2>2, <2>3 DEF Moved, plan
  <1>9. CASE Mounted
    <2>1. <<>> \o Do(t) = Do(t)
      BY <1>2, DoSteps, ConcatEmptySeq
    <2>2. Continue(c, Do(t))
      BY <1>7, <1>9, <2>1
    <2>3. Moved(c, t)
      BY <1>8, <2>2
    <2> QED BY <1>7, <1>9, <2>3 DEF t
  <1>10. CASE ~Mounted
    <2>1. Continue(c, Do(w))
      BY <1>6, <1>7, <1>10
    <2>2. Moved(c, w)
      BY <1>8, <2>1
    <2> QED BY <1>7, <1>10, <2>2 DEF w
  <1> QED BY <1>9, <1>10

-----------------------------------------------------------------------------
(* Whose turn it is                                                        *)

\* Saves and the passthrough fix hold the lock; who came alone, or may not
\* overlap with others, is alone.
TurnInv ==
  \A c \in Clients :
    /\ job[c].kind = "none" => job[c] = Idle
    /\ job[c].kind \in {"save", "passthrough"} => lock = c
    /\ job[c].kind \notin Concurrent \cup {"none"} => Alone(c)
    /\ job[c].alone => Alone(c)

LEMMA WorkFrame ==
  ASSUME TypeInv, NEW c \in Clients, Work(c)
  PROVE  /\ job[c].plan # <<>> /\ job[c] # Idle
         /\ \A d \in Clients \ {c} : job'[d] = job[d]
         /\ \/ job'[c] = Idle /\ lock' = (IF lock = c THEN NoClient ELSE lock)
            \/ /\ job'[c].kind = job[c].kind /\ job'[c].form = job[c].form
               /\ job'[c].alone = job[c].alone /\ lock' = lock
         /\ UNCHANGED <<recent, calm>>
  <1>1. job[c].plan # <<>> /\ job[c] # Idle
    BY IdleJob DEF Work, At, WriteUnit, SaveState, RuntimeUpdate, Push, Compare, Try, Stop, Start,
       StartIfDown, Answer
  <1>2. UNCHANGED <<recent, calm>>
    BY DEF Work, WriteUnit, SaveState, RuntimeUpdate, Push, Compare, Try, Stop, Start, StartIfDown, Answer
  <1>3. \/ Ends(c) \/ Proceed(c)
        \/ \E plan, stale : job' = [job EXCEPT ![c].plan = plan, ![c].stale = stale] /\ lock' = lock
        \/ \E plan : job' = [job EXCEPT ![c].plan = plan] /\ lock' = lock
    <2>1. CASE RuntimeUpdate(c) \/ StartIfDown(c)
      BY <2>1 DEF RuntimeUpdate, StartIfDown, Continue
    <2>2. CASE Compare(c)
      BY <2>2 DEF Compare
    <2>3. CASE Try(c)
      BY <2>3 DEF Try
    <2>4. CASE WriteUnit(c) \/ SaveState(c) \/ Push(c) \/ Stop(c) \/ Start(c) \/ Answer(c)
      BY <2>4 DEF WriteUnit, SaveState, Push, Stop, Start, Answer, Raises
    <2> QED BY <2>1, <2>2, <2>3, <2>4 DEF Work
  <1>4. CASE Ends(c)
    BY <1>1, <1>2, <1>4, Ended
  <1>5. CASE Proceed(c)
    BY <1>1, <1>2, <1>5, Proceeded
  <1>6. ASSUME NEW plan, NEW stale, lock' = lock,
               \/ job' = [job EXCEPT ![c].plan = plan, ![c].stale = stale]
               \/ job' = [job EXCEPT ![c].plan = plan]
        PROVE  /\ \A d \in Clients \ {c} : job'[d] = job[d]
               /\ job'[c].kind = job[c].kind /\ job'[c].form = job[c].form
               /\ job'[c].alone = job[c].alone
    BY <1>6 DEF TypeInv, Job
  <1> QED BY <1>1, <1>2, <1>3, <1>4, <1>5, <1>6

LEMMA TurnOfRequests ==
  ASSUME TypeInv, TurnInv, NEW c \in Clients, NEW kind, NEW form, NEW steps,
         Opens(c, kind, form, steps)
  PROVE  TurnInv'
  <1>1. form \in Pools /\ Do(steps) \in Seq(Step) /\ Accept(c, kind, form, Do(steps))
    BY DoPlanOK DEF Opens
  <1>2. /\ job[c] = Idle /\ kind \in RequestKinds
        /\ job'[c] = [kind |-> kind, form |-> form, plan |-> Do(steps), stale |-> {}, alone |-> Alone(c)]
        /\ \A d \in Clients \ {c} :
             /\ job'[d].kind = job[d].kind /\ ~job'[d].alone
             /\ job[d] = Idle => job'[d] = Idle
    BY <1>1, Accepted
  <1>3. job'[c].kind = kind /\ job'[c].alone = Alone(c)
    BY <1>2
  <1>4. Quiet \/ {kind} \cup {job[d].kind : d \in Clients \ {c}} \subseteq Concurrent \cup {"none"}
    BY <1>1 DEF Accept
  <1>5. ASSUME Alone(c) PROVE Alone(c)'
    BY <1>2, <1>5 DEF Alone
  <1>6. ASSUME NEW d \in Clients
        PROVE  /\ job'[d].kind = "none" => job'[d] = Idle
               /\ job'[d].kind \in {"save", "passthrough"} => lock' = d
               /\ job'[d].kind \notin Concurrent \cup {"none"} => Alone(d)'
               /\ job'[d].alone => Alone(d)'
    <2>1. CASE d = c
      <3>1. kind \notin Concurrent \cup {"none"} => Alone(c)
        BY <1>4 DEF Quiet, Alone
      <3>2. kind # "none"
        BY <1>2 DEF RequestKinds
      <3>3. kind \in {"save", "passthrough"} => lock' = c
        BY DEF Opens
      <3> QED BY <1>3, <1>5, <2>1, <3>1, <3>2, <3>3
    <2>2. CASE d # c
      <3>1. job'[d].kind = job[d].kind /\ ~job'[d].alone /\ (job[d] = Idle => job'[d] = Idle)
        BY <1>2, <2>2
      <3>2. job[d].kind = "none" => job[d] = Idle
        BY DEF TurnInv
      <3>3. job[d].kind \in {"save", "passthrough"} => lock' = d
        BY SettingsAssumption DEF TurnInv, Opens
      <3>4. job[d].kind \in Concurrent \cup {"none"}
        BY <1>4, <2>2, IdleJob DEF Quiet
      <3> QED BY <3>1, <3>2, <3>3, <3>4
    <2> QED BY <2>1, <2>2
  <1> QED BY <1>6 DEF TurnInv, Alone

LEMMA TurnOfWork ==
  ASSUME TypeInv, TurnInv, NEW c \in Clients, Work(c)
  PROVE  TurnInv'
  <1>1. /\ job[c] # Idle
        /\ \A d \in Clients \ {c} : job'[d] = job[d]
        /\ \/ job'[c] = Idle /\ lock' = (IF lock = c THEN NoClient ELSE lock)
           \/ job'[c].kind = job[c].kind /\ job'[c].alone = job[c].alone /\ lock' = lock
    BY WorkFrame
  <1>2. ASSUME Alone(c) PROVE Alone(c)'
    BY <1>1, <1>2 DEF Alone
  <1>3. ASSUME NEW d \in Clients
        PROVE  /\ job'[d].kind = "none" => job'[d] = Idle
               /\ job'[d].kind \in {"save", "passthrough"} => lock' = d
               /\ job'[d].kind \notin Concurrent \cup {"none"} => Alone(d)'
               /\ job'[d].alone => Alone(d)'
    <2>1. CASE d = c /\ job'[c] = Idle
      BY <2>1, IdleJob
    <2>2. CASE d = c /\ job'[c].kind = job[c].kind /\ job'[c].alone = job[c].alone /\ lock' = lock
      <3>1. job[c].kind # "none"
        BY <1>1 DEF TurnInv
      <3> QED BY <1>2, <2>2, <3>1 DEF TurnInv
    <2>3. CASE d # c
      <3>1. ~Alone(d)
        BY <1>1, <2>3 DEF Alone
      <3> QED BY <1>1, <2>3, <3>1 DEF TurnInv
    <2> QED BY <1>1, <2>1, <2>2, <2>3
  <1> QED BY <1>3 DEF TurnInv, Alone

LEMMA TurnNext ==
  ASSUME TypeInv, TurnInv, [Next]_vars
  PROVE  TurnInv'
  <1>1. ASSUME Restart \/ Reboot PROVE TurnInv'
    BY <1>1, AllDropped, IdleJob DEF TurnInv, Restart, Reboot
  <1>2. ASSUME UNCHANGED <<lock, job>> PROVE TurnInv'
    BY <1>2 DEF TurnInv, Alone
  <1>3. ASSUME Upgrade \/ CalmDown \/ UNCHANGED vars PROVE TurnInv'
    BY <1>2, <1>3 DEF Upgrade, CalmDown, vars
  <1> QED BY <1>1, <1>3, EveryStep, TurnOfRequests, TurnOfWork

LEMMA TurnInit == Init => TurnInv
  <1>1. Init => \A c \in Clients : job[c] = Idle
    BY DEF Init
  <1> QED BY <1>1, IdleJob DEF TurnInv

-----------------------------------------------------------------------------
(* Fixes                                                                   *)

\* A pool that runs exactly what its unit says.
Fresh(pool) == Mounted /\ live = Started(pool_unit(pool), live.recent)

Sure(c) == unit = pool_unit(Form(c))

OnMount(c) == Left(c, <<"start", "answer">>) \/ (Left(c, <<"answer">>) /\ Mounted)

OnRemount(c) ==
  /\ saved = Form(c)
  /\ \/ Left(c, <<"unit", "stop", "start", "answer">>)
     \/ Left(c, <<"stop", "start", "answer">>) /\ Sure(c)
     \/ Left(c, <<"start", "answer">>) /\ Sure(c) /\ ~Mounted
     \/ Left(c, <<"answer">>) /\ Sure(c) /\ Fresh(Form(c))

OnUnit(c) ==
  /\ saved = Form(c)
  /\ \/ Left(c, <<"unit", "startIfDown", "answer">>)
     \/ Left(c, <<"startIfDown", "answer">>) /\ Sure(c)
     \/ Left(c, <<"start", "answer">>) /\ Sure(c)
     \/ Left(c, <<"answer">>) /\ Sure(c) /\ Mounted

OnPassthrough(c) ==
  /\ Form(c).passthrough # "off"
  /\ \/ Left(c, <<"unit", "stop", "start", "save", "answer">>)
     \/ Left(c, <<"unit", "start", "save", "answer">>) /\ ~Mounted
     \/ Left(c, <<"stop", "start", "save", "answer">>) /\ Sure(c)
     \/ Left(c, <<"start", "save", "answer">>) /\ Sure(c) /\ ~Mounted
     \/ Left(c, <<"save", "answer">>) /\ Sure(c) /\ Fresh(Form(c))
     \/ Left(c, <<"answer">>) /\ Sure(c) /\ Fresh(Form(c)) /\ saved = Form(c)

\* A fix that nobody disturbs is somewhere in its plan.
OnCourse(c) ==
  /\ job[c].kind = "mount" => OnMount(c)
  /\ job[c].kind = "remount" => OnRemount(c)
  /\ job[c].kind = "unit" => OnUnit(c)
  /\ job[c].kind = "passthrough" => OnPassthrough(c)

FixInv == \A c \in Clients : job[c].alone => OnCourse(c)

LEMMA CourseOpens ==
  ASSUME TypeInv, NEW c \in Clients, NEW kind, NEW form, NEW steps, Opens(c, kind, form, steps)
  PROVE  OnCourse(c)'
  <1>1. form \in Pools /\ Do(steps) \in Seq(Step) /\ Accept(c, kind, form, Do(steps))
    BY DoPlanOK DEF Opens
  <1>2. /\ job'[c] = [kind |-> kind, form |-> form, plan |-> Do(steps), stale |-> {}, alone |-> Alone(c)]
        /\ UNCHANGED <<saved, unit, live>>
    BY <1>1, Accepted
  <1>3. job'[c].kind = kind /\ job'[c].form = form /\ job'[c].plan = Do(steps)
    BY <1>2
  <1>4. Opening(kind, form, steps)
    BY DEF Opens
  <1>5. kind = "mount" => OnMount(c)'
    BY <1>2, <1>3, <1>4 DEF Opening, OnMount, Left
  <1>6. kind = "remount" => OnRemount(c)'
    BY <1>2, <1>3, <1>4 DEF Opening, OnRemount, Left, Form
  <1>7. kind = "unit" => OnUnit(c)'
    BY <1>2, <1>3, <1>4 DEF Opening, OnUnit, Left, Form
  <1>8. kind = "passthrough" => OnPassthrough(c)'
    BY <1>2, <1>3, <1>4 DEF Opening, OnPassthrough, Left, Form, Mounted
  <1> QED BY <1>3, <1>5, <1>6, <1>7, <1>8 DEF OnCourse

LEMMA CourseWorks ==
  ASSUME TypeInv, NEW c \in Clients, OnCourse(c), Work(c), job'[c] # Idle
  PROVE  OnCourse(c)'
  <1>w. {"unit", "save", "start", "stop", "startIfDown", "answer"} \subseteq Steps
    BY DEF Steps
  <1>0. job'[c].kind = job[c].kind /\ job'[c].form = job[c].form
    BY WorkFrame
  <1>f. ASSUME Sure(c), ~Mounted, Mounted', live' = Started(unit, live'.recent), UNCHANGED unit
        PROVE  Sure(c)' /\ Fresh(Form(c))'
    BY <1>0, <1>f DEF Sure, Fresh, Form
  <1>1. ASSUME OnMount(c) PROVE OnMount(c)'
    <2>1. CASE Left(c, <<"start", "answer">>)
      <3>1. Did(c, "start", <<"answer">>)
        BY <1>w, <2>1, NextStep
      <3> QED BY <3>1 DEF Did, Moved, Gone, OnMount, Left, Mounted
    <2>2. CASE Left(c, <<"answer">>)
      <3>1. Did(c, "answer", <<>>)
        BY <1>w, <2>2, NextStep
      <3> QED BY <3>1 DEF Did, Gone
    <2> QED BY <1>1, <2>1, <2>2 DEF OnMount
  <1>2. ASSUME OnRemount(c) PROVE OnRemount(c)'
    <2>1. CASE Left(c, <<"unit", "stop", "start", "answer">>)
      <3>1. Did(c, "unit", <<"stop", "start", "answer">>)
        BY <1>w, <2>1, NextStep
      <3> QED BY <1>2, <3>1 DEF Did, Moved, OnRemount, Left, Sure, Form
    <2>2. CASE Left(c, <<"stop", "start", "answer">>) /\ Sure(c)
      <3>1. Did(c, "stop", <<"start", "answer">>)
        BY <1>w, <2>2, NextStep
      <3> QED BY <1>2, <2>2, <3>1 DEF Did, Moved, Gone, OnRemount, Left, Sure, Form, Mounted
    <2>3. CASE Left(c, <<"start", "answer">>) /\ Sure(c) /\ ~Mounted
      <3>1. Did(c, "start", <<"answer">>)
        BY <1>w, <2>3, NextStep
      <3>2. Sure(c)' /\ Fresh(Form(c))' /\ Moved(c, <<"answer">>) /\ UNCHANGED saved
        BY <1>f, <2>3, <3>1 DEF Did, Gone
      <3> QED BY <1>2, <3>2 DEF Moved, OnRemount, Left, Form
    <2>4. CASE Left(c, <<"answer">>)
      <3>1. Did(c, "answer", <<>>)
        BY <1>w, <2>4, NextStep
      <3> QED BY <3>1 DEF Did, Gone
    <2> QED BY <1>2, <2>1, <2>2, <2>3, <2>4 DEF OnRemount
  <1>3. ASSUME OnUnit(c) PROVE OnUnit(c)'
    <2>1. CASE Left(c, <<"unit", "startIfDown", "answer">>)
      <3>1. Did(c, "unit", <<"startIfDown", "answer">>)
        BY <1>w, <2>1, NextStep
      <3> QED BY <1>3, <3>1 DEF Did, Moved, OnUnit, Left, Sure, Form
    <2>2. CASE Left(c, <<"startIfDown", "answer">>) /\ Sure(c)
      <3>1. /\ UNCHANGED <<saved, unit, live>>
            /\ Mounted => Moved(c, <<"answer">>)
            /\ ~Mounted => Moved(c, <<"start", "answer">>)
        BY <2>2, NextIfDown
      <3> QED BY <1>3, <2>2, <3>1 DEF Moved, OnUnit, Left, Sure, Form, Mounted
    <2>3. CASE Left(c, <<"start", "answer">>) /\ Sure(c)
      <3>1. Did(c, "start", <<"answer">>)
        BY <1>w, <2>3, NextStep
      <3> QED BY <1>3, <2>3, <3>1 DEF Did, Moved, Gone, OnUnit, Left, Sure, Form, Mounted
    <2>4. CASE Left(c, <<"answer">>)
      <3>1. Did(c, "answer", <<>>)
        BY <1>w, <2>4, NextStep
      <3> QED BY <3>1 DEF Did, Gone
    <2> QED BY <1>3, <2>1, <2>2, <2>3, <2>4 DEF OnUnit
  <1>4. ASSUME OnPassthrough(c) PROVE OnPassthrough(c)'
    <2>1. CASE Left(c, <<"unit", "stop", "start", "save", "answer">>)
      <3>1. Did(c, "unit", <<"stop", "start", "save", "answer">>)
        BY <1>w, <2>1, NextStep
      <3> QED BY <1>4, <3>1 DEF Did, Moved, OnPassthrough, Left, Sure, Form
    <2>2. CASE Left(c, <<"unit", "start", "save", "answer">>) /\ ~Mounted
      <3>1. Did(c, "unit", <<"start", "save", "answer">>)
        BY <1>w, <2>2, NextStep
      <3> QED BY <1>4, <2>2, <3>1 DEF Did, Moved, OnPassthrough, Left, Sure, Form, Mounted
    <2>3. CASE Left(c, <<"stop", "start", "save", "answer">>) /\ Sure(c)
      <3>1. Did(c, "stop", <<"start", "save", "answer">>)
        BY <1>w, <2>3, NextStep
      <3> QED BY <1>4, <2>3, <3>1 DEF Did, Moved, Gone, OnPassthrough, Left, Sure, Form, Mounted
    <2>4. CASE Left(c, <<"start", "save", "answer">>) /\ Sure(c) /\ ~Mounted
      <3>1. Did(c, "start", <<"save", "answer">>)
        BY <1>w, <2>4, NextStep
      <3>2. Sure(c)' /\ Fresh(Form(c))' /\ Moved(c, <<"save", "answer">>)
        BY <1>f, <2>4, <3>1 DEF Did, Gone
      <3> QED BY <1>4, <3>2 DEF Moved, OnPassthrough, Left, Form
    <2>5. CASE Left(c, <<"save", "answer">>) /\ Sure(c) /\ Fresh(Form(c))
      <3>1. Did(c, "save", <<"answer">>)
        BY <1>w, <2>5, NextStep
      <3> QED BY <1>4, <2>5, <3>1 DEF Did, Moved, OnPassthrough, Left, Sure, Form, Fresh, Mounted
    <2>6. CASE Left(c, <<"answer">>)
      <3>1. Did(c, "answer", <<>>)
        BY <1>w, <2>6, NextStep
      <3> QED BY <3>1 DEF Did, Gone
    <2> QED BY <1>4, <2>1, <2>2, <2>3, <2>4, <2>5, <2>6 DEF OnPassthrough
  <1> QED BY <1>0, <1>1, <1>2, <1>3, <1>4 DEF OnCourse

LEMMA FixNext ==
  ASSUME TypeInv, TurnInv, FixInv, [Next]_vars
  PROVE  FixInv'
  <1>1. ASSUME NEW c \in Clients, NEW kind, NEW form, NEW steps, Opens(c, kind, form, steps)
        PROVE  FixInv'
    <2>1. form \in Pools /\ Do(steps) \in Seq(Step) /\ Accept(c, kind, form, Do(steps))
      BY <1>1, DoPlanOK DEF Opens
    <2>2. \A d \in Clients \ {c} : ~job'[d].alone
      BY <2>1, Accepted
    <2>3. OnCourse(c)'
      BY <1>1, CourseOpens
    <2>4. \A d \in Clients : job'[d].alone => d = c
      BY <2>2
    <2> QED BY <2>3, <2>4 DEF FixInv
  <1>2. ASSUME NEW c \in Clients, Work(c) PROVE FixInv'
    <2>1. /\ job[c] # Idle /\ \A d \in Clients \ {c} : job'[d] = job[d]
          /\ job'[c] = Idle \/ job'[c].alone = job[c].alone
      BY <1>2, WorkFrame
    <2>2. \A d \in Clients \ {c} : ~job[d].alone
      BY <2>1 DEF TurnInv, Alone
    <2>3. \A d \in Clients : job'[d].alone => d = c
      BY <2>1, <2>2
    <2>4. job'[c].alone => job'[c] # Idle /\ job[c].alone
      BY <2>1, IdleJob
    <2>5. job'[c].alone => OnCourse(c)'
      BY <1>2, <2>4, CourseWorks DEF FixInv
    <2> QED BY <2>3, <2>5 DEF FixInv
  <1>3. ASSUME Restart \/ Reboot PROVE FixInv'
    BY <1>3, AllDropped, IdleJob DEF FixInv, Restart, Reboot
  <1>4. ASSUME UNCHANGED <<saved, unit, live, job>> PROVE FixInv'
    <2>1. \A c \in Clients : OnCourse(c) => OnCourse(c)'
      BY <1>4 DEF OnCourse, OnMount, OnRemount, OnUnit, OnPassthrough, Left, Sure, Fresh, Form, Mounted
    <2> QED BY <1>4, <2>1 DEF FixInv
  <1>5. ASSUME Upgrade \/ CalmDown \/ UNCHANGED vars PROVE FixInv'
    BY <1>4, <1>5 DEF Upgrade, CalmDown, vars
  <1> QED BY <1>1, <1>2, <1>3, <1>5, EveryStep

LEMMA FixInit == Init => FixInv
  <1>1. Init => \A c \in Clients : job[c] = Idle
    BY DEF Init
  <1> QED BY <1>1, IdleJob DEF FixInv

\* A pool that runs exactly what its unit says differs from it only where two
\* options do not go together.
LEMMA FreshDiffers ==
  ASSUME TypeInv, Fresh(saved), Compatible(merged_options(saved))
  PROVE  option_drift(saved) = {}
  <1> DEFINE options == merged_options(saved)
  <1>1. /\ saved \in Pools /\ pool_unit(saved) \in Unit /\ pool_unit(saved).options = options
        /\ {"cache.files", "cache.writeback"} \subseteq DOMAIN options
    BY MergedOptions DEF TypeInv
  <1>2. live.recent \in BOOLEAN
    BY DEF TypeInv, LiveOK, Fresh, Running
  <1>3. live.options = Resolved(options) /\ Resolved(options)["passthrough"] = Asked(options, "passthrough")
    BY <1>1, <1>2, StartedRuns DEF Fresh
  <1>4. \A k \in DOMAIN options : Resolved(options)[k] = options[k]
    BY DEF Compatible
  <1>5. ASSUME NEW k \in VERIFIABLE_OPTIONS PROVE live.options[k] = Asked(options, k)
    <2>1. CASE k \in DOMAIN options
      BY <1>3, <1>4, <2>1 DEF Asked
    <2>2. CASE k = "passthrough"
      BY <1>3, <2>2
    <2> QED BY <1>1, <2>1, <2>2 DEF VERIFIABLE_OPTIONS
  <1> QED BY <1>5 DEF option_drift, Differs

LEMMA FixDoes ==
  ASSUME TypeInv, FixInv
  PROVE  FixWorks
  <1> SUFFICES ASSUME NEW c \in Clients, At(c, "answer"), job[c].alone,
                      job[c].kind \in {"mount", "remount", "unit", "passthrough"}
               PROVE  /\ Mounted
                      /\ job[c].kind # "mount" => unit = pool_unit(saved)
                      /\ job[c].kind \in {"remount", "passthrough"} =>
                           (Compatible(merged_options(saved)) => option_drift(saved) = {})
                      /\ job[c].kind = "passthrough" => "pool_passthrough_available" \notin Findings
    BY DEF FixWorks
  <1>1. OnCourse(c)
    BY DEF FixInv
  <1>w. {"unit", "stop", "start", "startIfDown", "save"} \subseteq Steps \ {"answer"} /\ "answer" \in Steps
    BY DEF Steps
  <1>2. /\ ~Left(c, <<"start", "answer">>) /\ ~Left(c, <<"startIfDown", "answer">>)
        /\ ~Left(c, <<"save", "answer">>)
        /\ ~Left(c, <<"unit", "startIfDown", "answer">>) /\ ~Left(c, <<"stop", "start", "answer">>)
        /\ ~Left(c, <<"start", "save", "answer">>)
        /\ ~Left(c, <<"unit", "stop", "start", "answer">>)
        /\ ~Left(c, <<"unit", "start", "save", "answer">>)
        /\ ~Left(c, <<"stop", "start", "save", "answer">>)
        /\ ~Left(c, <<"unit", "stop", "start", "save", "answer">>)
    BY <1>w, NotYet
  <1>3. CASE job[c].kind = "mount"
    BY <1>1, <1>2, <1>3 DEF OnCourse, OnMount
  <1>4. CASE job[c].kind = "remount"
    <2>1. saved = Form(c) /\ Sure(c) /\ Fresh(Form(c))
      BY <1>1, <1>2, <1>4 DEF OnCourse, OnRemount
    <2>2. Mounted /\ unit = pool_unit(saved) /\ Fresh(saved)
      BY <2>1 DEF Sure, Fresh
    <2> QED BY <1>4, <2>2, FreshDiffers
  <1>5. CASE job[c].kind = "unit"
    BY <1>1, <1>2, <1>5 DEF OnCourse, OnUnit, Sure
  <1>6. CASE job[c].kind = "passthrough"
    <2>1. saved = Form(c) /\ Sure(c) /\ Fresh(Form(c)) /\ Form(c).passthrough # "off"
      BY <1>1, <1>2, <1>6 DEF OnCourse, OnPassthrough
    <2>2. Mounted /\ unit = pool_unit(saved) /\ Fresh(saved)
      BY <2>1 DEF Sure, Fresh
    <2>3. "pool_passthrough_available" \notin Findings
      BY <2>1 DEF Findings
    <2> QED BY <1>6, <2>2, <2>3, FreshDiffers
  <1> QED BY <1>3, <1>4, <1>5, <1>6

\* A fix that answers with success, alone from its beginning to its end, did
\* away with its finding; whatever users save, and whichever requests overlap
\* otherwise.
THEOREM FixWorksHolds == Spec => []FixWorks
  <1> DEFINE Inv == TypeInv /\ TurnInv /\ FixInv
  <1>1. Init => Inv
    BY TypeInit, TurnInit, FixInit
  <1>2. Inv /\ [Next]_vars => Inv'
    BY TypeNext, TurnNext, FixNext
  <1>3. Inv => FixWorks
    BY FixDoes
  <1> QED BY <1>1, <1>2, <1>3, PTL DEF Spec

-----------------------------------------------------------------------------
(* Silence                                                                 *)

\* The options a pool may be given and nobody reads back.
Unread(pool) == DOMAIN merged_options(pool) \ VERIFIABLE_OPTIONS

Agrees(pool) ==
  /\ live.branches = pool.branches
  /\ \A k \in Unread(pool) : live.options[k] = merged_options(pool)[k]

Writes(c) == job[c].kind \in {"save", "remount", "unit", "passthrough"}

\* What a plan still sends to the control file.
Keys(plan) == {plan[i].key : i \in {j \in 1..Len(plan) : plan[j].do \in {"push", "try"}}}

InOrder(plan) ==
  \A i \in 1..Len(plan) :
    /\ plan[i].do \in {"push", "compare", "try", "answer"}
    /\ plan[i].do = "answer" => i = Len(plan)
    /\ plan[i].do = "compare" => \A j \in 1..(i - 1) : plan[j].do = "push"

Compares(plan) == \E i \in 1..Len(plan) : plan[i].do = "compare"

\* An option the pool does not run yet is ahead, or will be told.
Covered(c, key) == key \in Keys(job[c].plan) \/ job[c].stale # {}

\* A save that updates the running pool.
Updating(c) ==
  /\ saved = Form(c)
  /\ InOrder(job[c].plan)
  /\ Compares(job[c].plan) => job[c].stale = {}
  /\ Mounted =>
       /\ live.branches = Form(c).branches \/ Covered(c, "branches")
       /\ \A k \in Unread(Form(c)) : live.options[k] = merged_options(Form(c))[k] \/ Covered(c, k)

Saving(c) ==
  \/ /\ job[c].stale = {}
     /\ \/ Left(c, <<"unit", "save", "update", "answer">>)
        \/ Left(c, <<"save", "update", "answer">>) /\ Sure(c)
        \/ Left(c, <<"update", "answer">>) /\ Sure(c) /\ saved = Form(c)
        \/ Left(c, <<"unit", "save", "start", "answer">>) /\ ~Mounted
        \/ Left(c, <<"save", "start", "answer">>) /\ Sure(c) /\ ~Mounted
        \/ Left(c, <<"start", "answer">>) /\ Sure(c) /\ saved = Form(c) /\ ~Mounted
  \/ Updating(c)

Remounting(c) ==
  /\ saved = Form(c)
  /\ \/ Left(c, <<"unit", "stop", "start", "answer">>)
     \/ Left(c, <<"stop", "start", "answer">>) /\ Sure(c)
     \/ Left(c, <<"start", "answer">>) /\ Sure(c) /\ ~Mounted
     \/ Left(c, <<"answer">>) /\ (Mounted => Agrees(Form(c)))

GettingPassthrough(c) ==
  \/ Left(c, <<"unit", "stop", "start", "save", "answer">>)
  \/ Left(c, <<"unit", "start", "save", "answer">>) /\ ~Mounted
  \/ Left(c, <<"stop", "start", "save", "answer">>) /\ Sure(c)
  \/ Left(c, <<"start", "save", "answer">>) /\ Sure(c) /\ ~Mounted
  \/ Left(c, <<"save", "answer">>) /\ (Mounted => Agrees(Form(c)))
  \/ Left(c, <<"answer">>) /\ (Mounted => Agrees(Form(c))) /\ saved = Form(c)

\* What a request that others may disturb still keeps.
Promises(c) ==
  /\ job[c].kind = "mount" => Left(c, <<"start", "answer">>) \/ Left(c, <<"answer">>)
  /\ job[c].kind = "unmount" => Left(c, <<"stop", "answer">>) \/ Left(c, <<"answer">>)
  /\ job[c].kind = "save" => Saving(c)
  /\ job[c].kind = "remount" => Remounting(c)
  /\ job[c].kind = "passthrough" => GettingPassthrough(c)

\* Nobody is changing anything: a pool mounted from the saved unit runs it.
Settled == Mounted /\ ~told /\ unit = pool_unit(saved) => Agrees(saved)

SilentInv ==
  /\ \A c \in Clients : Promises(c)
  /\ (\A c \in Clients : ~Writes(c)) => Settled

LEMMA StartedAgrees ==
  ASSUME NEW pool \in Pools, NEW age \in BOOLEAN
  PROVE  /\ Started(pool_unit(pool), age).branches = pool.branches
         /\ \A k \in Unread(pool) :
              Started(pool_unit(pool), age).options[k] = merged_options(pool)[k]
  <1>1. /\ pool_unit(pool) \in Unit /\ pool_unit(pool).options = merged_options(pool)
        /\ pool_unit(pool).branches = pool.branches
    BY MergedOptions
  <1> QED BY <1>1, StartedRuns DEF Unread

LEMMA UnreadKeys ==
  ASSUME NEW pool \in Pools, NEW k \in Unread(pool)
  PROVE  k \in PushKeys \cup (DOMAIN pool.extra \cap ExtraOnly) /\ k # "branches" /\ k \in OptionKeys
  BY MergedOptions DEF Unread, PushKeys, OptionKeys, VERIFIABLE_OPTIONS, ExtraOnly

LEMMA TailInOrder ==
  ASSUME NEW plan \in Seq(Step), plan # <<>>, InOrder(plan)
  PROVE  /\ Tail(plan) \in Seq(Step) /\ InOrder(Tail(plan))
         /\ Head(plan).do \in {"push", "compare", "try", "answer"}
         /\ Head(plan).do = "answer" => Keys(plan) = {}
         /\ Head(plan).do # "push" => ~Compares(Tail(plan))
         /\ Compares(Tail(plan)) => Compares(plan)
         /\ Head(plan).do = "compare" => Compares(plan)
         /\ \A k \in Keys(plan) :
              k \in Keys(Tail(plan)) \/ (Head(plan).do \in {"push", "try"} /\ k = Head(plan).key)
  <1> DEFINE tail == Tail(plan)
  <1>1. /\ tail \in Seq(Step) /\ Len(tail) = Len(plan) - 1
        /\ \A i \in 1..Len(tail) : i + 1 \in 1..Len(plan) /\ tail[i] = plan[i + 1]
        /\ Len(plan) \in Nat \ {0} /\ Head(plan) = plan[1] /\ 1 \in 1..Len(plan)
        /\ \A j \in 1..Len(plan) : j = 1 \/ (j - 1 \in 1..Len(tail) /\ plan[j] = tail[j - 1])
    BY TailOfPlan
  <1> HIDE DEF tail
  <1>2. ASSUME NEW i \in 1..Len(tail), tail[i].do = "compare", NEW j \in 1..(i - 1)
        PROVE  tail[j].do = "push"
    <2>1. j \in 1..Len(tail) /\ j + 1 \in 1..((i + 1) - 1) /\ i + 1 \in 1..Len(plan)
      BY <1>1, <1>2
    <2>2. plan[i + 1].do = "compare" /\ tail[j] = plan[j + 1]
      BY <1>1, <1>2, <2>1
    <2> QED BY <2>1, <2>2 DEF InOrder
  <1>3. ASSUME NEW i \in 1..Len(tail)
        PROVE  /\ tail[i].do \in {"push", "compare", "try", "answer"}
               /\ tail[i].do = "answer" => i = Len(tail)
    BY <1>1 DEF InOrder
  <1>4. InOrder(tail)
    BY <1>2, <1>3 DEF InOrder
  <1>5. Head(plan).do \in {"push", "compare", "try", "answer"}
    BY <1>1 DEF InOrder
  <1>6. ASSUME Head(plan).do = "answer" PROVE Keys(plan) = {}
    <2>1. Len(plan) = 1
      BY <1>1, <1>6 DEF InOrder
    <2>2. \A j \in 1..Len(plan) : plan[j].do = "answer"
      BY <1>1, <1>6, <2>1
    <2> QED BY <2>2 DEF Keys
  <1>7. ASSUME Compares(tail) PROVE Head(plan).do = "push" /\ Compares(plan)
    <2>1. PICK i \in 1..Len(tail) : tail[i].do = "compare"
      BY <1>7 DEF Compares
    <2>2. i + 1 \in 1..Len(plan) /\ plan[i + 1].do = "compare" /\ 1 \in 1..((i + 1) - 1)
      BY <1>1, <2>1
    <2> QED BY <1>1, <2>2 DEF InOrder, Compares
  <1>8. Head(plan).do = "compare" => Compares(plan)
    BY <1>1 DEF Compares
  <1>9. ASSUME NEW k \in Keys(plan)
        PROVE  k \in Keys(tail) \/ (Head(plan).do \in {"push", "try"} /\ k = Head(plan).key)
    <2>1. PICK j \in 1..Len(plan) : plan[j].do \in {"push", "try"} /\ k = plan[j].key
      BY <1>9 DEF Keys
    <2>2. CASE j = 1
      BY <1>1, <2>1, <2>2
    <2>3. CASE j # 1
      <3>1. j - 1 \in 1..Len(tail) /\ plan[j] = tail[j - 1]
        BY <1>1, <2>3
      <3> QED BY <2>1, <3>1 DEF Keys
    <2> QED BY <2>2, <2>3
  <1> QED BY <1>1, <1>4, <1>5, <1>6, <1>7, <1>8, <1>9 DEF tail

LEMMA OnlyAnswer ==
  /\ InOrder(Do(<<"answer">>)) /\ ~Compares(Do(<<"answer">>))
  <1> DEFINE s == <<"answer">>
  <1>1. s \in Seq(Steps) /\ Len(s) = 1 /\ s[1] = "answer"
    BY DEF Steps
  <1> HIDE DEF s
  <1>2. Len(Do(s)) = 1 /\ Do(s)[1] = [do |-> "answer"]
    BY <1>1, DoSteps
  <1>3. Do(s)[1].do = "answer" /\ \A i \in 1..1 : i = 1
    BY <1>2
  <1>4. InOrder(Do(s)) /\ ~Compares(Do(s))
    BY <1>2, <1>3 DEF InOrder, Compares
  <1> QED BY <1>4 DEF s

\* Requests of others take nothing away but the mount.
LEMMA PromisesKept ==
  ASSUME TypeInv, NEW c \in Clients, Promises(c),
         job'[c].kind = job[c].kind, job'[c].form = job[c].form,
         job'[c].plan = job[c].plan, job'[c].stale = job[c].stale,
         UNCHANGED <<saved, unit>>, live' = live \/ live' = NotMounted
  PROVE  Promises(c)'
  <1>1. /\ Form(c)' = Form(c) /\ Sure(c)' = Sure(c) /\ \A s : Left(c, s) => Left(c, s)'
        /\ ~Mounted => ~Mounted'
        /\ Mounted' => live' = live /\ Mounted
    BY DEF Form, Sure, Left, Mounted
  <1>2. (Mounted => Agrees(Form(c))) => (Mounted => Agrees(Form(c)))'
    BY <1>1 DEF Agrees
  <1>3. Updating(c) => Updating(c)'
    BY <1>1 DEF Updating, Covered
  <1>4. Saving(c) => Saving(c)'
    BY <1>1, <1>3 DEF Saving, Left
  <1>5. Remounting(c) => Remounting(c)'
    BY <1>1, <1>2 DEF Remounting, Left
  <1>6. GettingPassthrough(c) => GettingPassthrough(c)'
    BY <1>1, <1>2 DEF GettingPassthrough, Left
  <1> QED BY <1>4, <1>5, <1>6 DEF Promises, Left

LEMMA PromisesOpen ==
  ASSUME TypeInv, NEW c \in Clients, NEW kind, NEW form, NEW steps, Opens(c, kind, form, steps)
  PROVE  Promises(c)'
  <1>1. form \in Pools /\ Do(steps) \in Seq(Step) /\ Accept(c, kind, form, Do(steps))
    BY DoPlanOK DEF Opens
  <1>2. /\ job'[c] = [kind |-> kind, form |-> form, plan |-> Do(steps), stale |-> {}, alone |-> Alone(c)]
        /\ UNCHANGED <<saved, unit, live>>
    BY <1>1, Accepted
  <1>3. /\ job'[c].kind = kind /\ job'[c].form = form /\ job'[c].plan = Do(steps)
        /\ job'[c].stale = {}
    BY <1>2
  <1>4. Opening(kind, form, steps)
    BY DEF Opens
  <1>5. kind = "mount" => Left(c, <<"start", "answer">>)'
    BY <1>3, <1>4 DEF Opening, Left
  <1>6. kind = "unmount" => Left(c, <<"stop", "answer">>)'
    BY <1>3, <1>4 DEF Opening, Left
  <1>7. kind = "save" => Saving(c)'
    BY <1>2, <1>3, <1>4 DEF Opening, Saving, Left, Mounted
  <1>8. kind = "remount" => Remounting(c)'
    BY <1>2, <1>3, <1>4 DEF Opening, Remounting, Left, Form
  <1>9. kind = "passthrough" => GettingPassthrough(c)'
    BY <1>2, <1>3, <1>4 DEF Opening, GettingPassthrough, Left, Mounted
  <1> QED BY <1>3, <1>5, <1>6, <1>7, <1>8, <1>9 DEF Promises

\* A save on its way through the control file.
LEMMA UpdatingWorks ==
  ASSUME TypeInv, NEW c \in Clients, Updating(c), Work(c), job'[c] # Idle
  PROVE  Updating(c)'
  <1> DEFINE plan == job[c].plan
             head == Head(plan)
             tail == Tail(plan)
  <1>0. /\ plan \in Seq(Step) /\ plan # <<>> /\ InOrder(plan)
        /\ Form(c) \in Pools /\ job[c].stale \in SUBSET OptionKeys
    BY WorkFrame, JobFields DEF Updating, Form
  <1>1. /\ InOrder(tail)
        /\ head.do \in {"push", "compare", "try", "answer"}
        /\ head.do # "push" => ~Compares(tail)
        /\ Compares(tail) => Compares(plan)
        /\ head.do = "compare" => Compares(plan)
        /\ \A k \in Keys(plan) :
             k \in Keys(tail) \/ (head.do \in {"push", "try"} /\ k = head.key)
    BY <1>0, TailInOrder
  <1>2. \A step : At(c, step) => head.do = step
    BY DEF At
  <1>3. ~Ends(c)
    BY Ended
  <1>4. job'[c].kind = job[c].kind /\ job'[c].form = job[c].form
    BY WorkFrame
  <1>5. ASSUME Mounted, Takes(head.key, Form(c)), head.do \in {"push", "try"}, Proceed(c),
               UNCHANGED saved
        PROVE  Updating(c)'
    <2> DEFINE key == head.key
    <2>1. key \in PushKeys \cup (DOMAIN Form(c).extra \cap ExtraOnly)
      BY <1>0, <1>5, HeadOfPlan
    <2>2. /\ key = "branches" => live'.branches = Form(c).branches /\ live'.options = live.options
          /\ key # "branches" =>
               /\ live'.branches = live.branches
               /\ live'.options[key] = merged_options(Form(c))[key]
               /\ \A k \in OptionKeys \ {key} : live'.options[k] = live.options[k]
      BY <1>0, <1>5, <2>1, Taken
    <2>3. job'[c].plan = tail /\ job'[c].stale = job[c].stale /\ Form(c)' = Form(c)
      BY <1>0, <1>5, Proceeded DEF Form
    <2>4. \A k : Covered(c, k) => Covered(c, k)' \/ k = key
      BY <1>1, <2>3 DEF Covered
    <2> HIDE DEF key
    <2>5. live'.branches = Form(c).branches \/ Covered(c, "branches")'
      BY <1>5, <2>2, <2>4 DEF Updating
    <2>6. ASSUME NEW k \in Unread(Form(c))
          PROVE  live'.options[k] = merged_options(Form(c))[k] \/ Covered(c, k)'
      <3>1. k \in OptionKeys /\ k # "branches"
        BY <1>0, UnreadKeys
      <3>2. live.options[k] = merged_options(Form(c))[k] \/ Covered(c, k)
        BY <1>5 DEF Updating
      <3> QED BY <2>2, <2>4, <3>1, <3>2
    <2>7. Compares(tail) => job'[c].stale = {}
      BY <1>1, <2>3 DEF Updating
    <2> HIDE DEF tail
    <2> QED BY <1>1, <1>5, <2>3, <2>5, <2>6, <2>7 DEF Updating
  <1>6. ASSUME UNCHANGED <<saved, live>>, job'[c].plan = tail, ~Compares(tail),
               \/ job'[c].stale # {}
               \/ job[c].stale = {} /\ head.do = "compare"
        PROVE  Updating(c)'
    <2>1. Form(c)' = Form(c) /\ Mounted' = Mounted
      BY <1>4, <1>6 DEF Form, Mounted
    <2>2. \A k : Covered(c, k) => Covered(c, k)'
      BY <1>1, <1>6 DEF Covered
    <2> HIDE DEF tail
    <2> QED BY <1>1, <1>6, <2>1, <2>2 DEF Updating
  <1>7. CASE Push(c)
    <2>1. head.do = "push" /\ UNCHANGED saved
      BY <1>2, <1>7 DEF Push
    <2> QED BY <1>3, <1>5, <1>7, <2>1 DEF Push
  <1>8. CASE Compare(c)
    <2>1. head.do = "compare" /\ UNCHANGED <<saved, live>>
      BY <1>2, <1>8 DEF Compare
    <2>2. job[c].stale = {}
      BY <1>1, <2>1 DEF Updating
    <2> DEFINE stale == IF Mounted THEN Differs(Form(c), MOUNT_TIME_OPTIONS) ELSE {}
    <2>3. job' = [job EXCEPT ![c].plan = tail, ![c].stale = stale]
      BY <1>8 DEF Compare
    <2> HIDE DEF tail, stale
    <2>4. job'[c].plan = tail
      BY <2>3 DEF TypeInv, Job
    <2> QED BY <1>1, <1>6, <2>1, <2>2, <2>4
  <1>9. CASE Try(c)
    <2>1. head.do = "try" /\ UNCHANGED saved
      BY <1>2, <1>9 DEF Try
    <2>2. CASE /\ job' = [job EXCEPT ![c].plan = Tail(@), ![c].stale = @ \cup {head.key}]
               /\ UNCHANGED live
      <3> DEFINE stale == job[c].stale \cup {head.key}
      <3>1. job' = [job EXCEPT ![c].plan = tail, ![c].stale = stale]
        BY <2>2
      <3>2. stale # {}
        OBVIOUS
      <3> HIDE DEF tail, stale
      <3>3. job'[c].plan = tail /\ job'[c].stale = stale
        BY <3>1 DEF TypeInv, Job
      <3> QED BY <1>1, <1>6, <2>1, <2>2, <3>2, <3>3
    <2> QED BY <1>5, <1>9, <2>1, <2>2 DEF Try
  <1>10. CASE Answer(c)
    BY <1>3, <1>10 DEF Answer
  <1>11. CASE WriteUnit(c) \/ SaveState(c) \/ RuntimeUpdate(c) \/ Stop(c) \/ Start(c) \/ StartIfDown(c)
    <2>1. head.do \in {"unit", "save", "update", "stop", "start", "startIfDown"}
      BY <1>2, <1>11 DEF WriteUnit, SaveState, RuntimeUpdate, Stop, Start, StartIfDown
    <2> QED BY <1>1, <2>1
  <1> QED BY <1>7, <1>8, <1>9, <1>10, <1>11 DEF Work

LEMMA UpdateBegins ==
  ASSUME TypeInv, NEW c \in Clients, Left(c, <<"update", "answer">>), job[c].stale = {},
         saved = Form(c), Work(c)
  PROVE  Updating(c)'
  <1> DEFINE s     == <<"update", "answer">>
             long  == Pushes \o Do(<<"compare">>) \o Tries(Form(c)) \o Do(<<"answer">>)
             short == Do(<<"answer">>)
             plan  == IF Mounted THEN long ELSE short
  <1>1. s \in Seq(Steps) /\ s # <<>> /\ s[1] = "update"
    BY ShortPlans DEF Steps
  <1>2. Left(c, s)
    OBVIOUS
  <1> HIDE DEF s
  <1>3. \A step : At(c, step) => step = "update"
    BY <1>1, <1>2, FirstOfPlan
  <1>4. RuntimeUpdate(c)
    BY <1>3 DEF Work, WriteUnit, SaveState, StartIfDown, Push, Compare, Try, Stop, Start, Answer
  <1>5. Form(c) \in Pools
    BY JobFields DEF Form
  <1>6. /\ long \in Seq(Step) /\ InOrder(long)
        /\ PushKeys \cup (DOMAIN Form(c).extra \cap ExtraOnly) \subseteq Keys(long)
    <2>1. /\ long \in Seq(Step)
          /\ \A i \in 1..Len(long) :
               /\ long[i].do \in {"push", "compare", "try", "answer"}
               /\ long[i].do = "answer" => i = Len(long)
               /\ long[i].do = "compare" => \A j \in 1..(i - 1) : long[j].do = "push"
          /\ \A k \in PushKeys \cup (DOMAIN Form(c).extra \cap ExtraOnly) :
               \E i \in 1..Len(long) : long[i].do \in {"push", "try"} /\ long[i].key = k
      BY <1>5, UpdatePlan
    <2> HIDE DEF long
    <2> QED BY <2>1 DEF InOrder, Keys
  <1>7. short \in Seq(Step) /\ InOrder(short)
    <2> DEFINE t == <<"answer">>
    <2>1. t \in Seq(Steps)
      BY DEF Steps
    <2> HIDE DEF t
    <2>2. Do(t) \in Seq(Step)
      BY <2>1, DoSteps
    <2> QED BY <2>2, OnlyAnswer DEF t
  <1>8. Continue(c, plan) /\ UNCHANGED <<saved, live>>
    BY <1>4 DEF RuntimeUpdate
  <1> HIDE DEF long, short
  <1>9. plan \in Seq(Step) /\ InOrder(plan)
    BY <1>6, <1>7
  <1>10. Mounted => PushKeys \cup (DOMAIN Form(c).extra \cap ExtraOnly) \subseteq Keys(plan)
    BY <1>6
  <1> HIDE DEF plan
  <1>11. job' = [job EXCEPT ![c].plan = plan]
    BY <1>8 DEF Continue
  <1>12. job'[c].plan = plan /\ job'[c].form = job[c].form /\ job'[c].stale = {}
    BY <1>9, <1>11, Continued
  <1>13. Form(c)' = Form(c) /\ Mounted' = Mounted
    BY <1>8, <1>12 DEF Form, Mounted
  <1>14. Mounted => Covered(c, "branches")' /\ \A k \in Unread(Form(c)) : Covered(c, k)'
    BY <1>5, <1>10, <1>12, UnreadKeys DEF Covered, PushKeys
  <1> QED BY <1>8, <1>9, <1>12, <1>13, <1>14 DEF Updating

LEMMA PromisesWork ==
  ASSUME TypeInv, NEW c \in Clients, Promises(c), Work(c), job'[c] # Idle
  PROVE  Promises(c)'
  <1>w. {"unit", "save", "update", "start", "stop", "answer"} \subseteq Steps
    BY DEF Steps
  <1>0. job'[c].kind = job[c].kind /\ job'[c].form = job[c].form /\ Form(c) \in Pools
    BY WorkFrame, JobFields DEF Form
  <1>a. ~Left(c, <<"answer">>)
    <2>1. Left(c, <<"answer">>) => Did(c, "answer", <<>>)
      BY <1>w, NextStep
    <2> QED BY <2>1 DEF Did, Gone
  <1>f. ASSUME Sure(c), live' = Started(unit, live'.recent), live'.recent \in BOOLEAN
        PROVE  Agrees(Form(c))'
    <2>1. unit = pool_unit(Form(c)) /\ Form(c)' = Form(c)
      BY <1>0, <1>f DEF Sure, Form
    <2>2. /\ live'.branches = Form(c).branches
          /\ \A k \in Unread(Form(c)) : live'.options[k] = merged_options(Form(c))[k]
      BY <1>0, <1>f, <2>1, StartedAgrees
    <2> QED BY <2>1, <2>2 DEF Agrees
  <1>1. ASSUME Left(c, <<"start", "answer">>) PROVE Left(c, <<"answer">>)'
    <2>1. Did(c, "start", <<"answer">>)
      BY <1>w, <1>1, NextStep
    <2> QED BY <2>1 DEF Did, Moved, Gone, Left
  <1>2. ASSUME Left(c, <<"stop", "answer">>) PROVE Left(c, <<"answer">>)'
    <2>1. Did(c, "stop", <<"answer">>)
      BY <1>w, <1>2, NextStep
    <2> QED BY <2>1 DEF Did, Moved, Gone, Left
  <1>3. ASSUME Saving(c) PROVE Saving(c)'
    <2>1. CASE Left(c, <<"unit", "save", "update", "answer">>) /\ job[c].stale = {}
      <3>1. Did(c, "unit", <<"save", "update", "answer">>)
        BY <1>w, <2>1, NextStep
      <3> QED BY <2>1, <3>1 DEF Did, Moved, Saving, Left, Sure, Form
    <2>2. CASE Left(c, <<"save", "update", "answer">>) /\ Sure(c) /\ job[c].stale = {}
      <3>1. Did(c, "save", <<"update", "answer">>)
        BY <1>w, <2>2, NextStep
      <3> QED BY <2>2, <3>1 DEF Did, Moved, Saving, Left, Sure, Form
    <2>3. CASE Left(c, <<"update", "answer">>) /\ saved = Form(c) /\ job[c].stale = {}
      <3>1. Updating(c)'
        BY <2>3, UpdateBegins
      <3> QED BY <3>1 DEF Saving
    <2>4. CASE Left(c, <<"unit", "save", "start", "answer">>) /\ ~Mounted /\ job[c].stale = {}
      <3>1. Did(c, "unit", <<"save", "start", "answer">>)
        BY <1>w, <2>4, NextStep
      <3> QED BY <2>4, <3>1 DEF Did, Moved, Saving, Left, Sure, Form, Mounted
    <2>5. CASE Left(c, <<"save", "start", "answer">>) /\ Sure(c) /\ ~Mounted /\ job[c].stale = {}
      <3>1. Did(c, "save", <<"start", "answer">>)
        BY <1>w, <2>5, NextStep
      <3> QED BY <2>5, <3>1 DEF Did, Moved, Saving, Left, Sure, Form, Mounted
    <2>6. CASE /\ Left(c, <<"start", "answer">>) /\ Sure(c) /\ saved = Form(c) /\ ~Mounted
               /\ job[c].stale = {}
      <3>1. Did(c, "start", <<"answer">>)
        BY <1>w, <2>6, NextStep
      <3>2. /\ Moved(c, <<"answer">>) /\ UNCHANGED saved
            /\ live' = Started(unit, live'.recent) /\ live'.recent \in BOOLEAN
        BY <2>6, <3>1 DEF Did, Gone
      <3>3. Agrees(Form(c))'
        BY <1>f, <2>6, <3>2
      <3>4. job'[c].plan = Do(<<"answer">>) /\ saved' = Form(c)'
        BY <2>6, <3>2 DEF Moved, Form
      <3>5. Updating(c)'
        BY <3>3, <3>4, OnlyAnswer DEF Updating, Agrees
      <3> QED BY <3>5 DEF Saving
    <2>7. CASE Updating(c)
      <3>1. Updating(c)'
        BY <2>7, UpdatingWorks
      <3> QED BY <3>1 DEF Saving
    <2> QED BY <1>3, <2>1, <2>2, <2>3, <2>4, <2>5, <2>6, <2>7 DEF Saving
  <1>4. ASSUME Remounting(c) PROVE Remounting(c)'
    <2>1. CASE Left(c, <<"unit", "stop", "start", "answer">>)
      <3>1. Did(c, "unit", <<"stop", "start", "answer">>)
        BY <1>w, <2>1, NextStep
      <3> QED BY <1>4, <3>1 DEF Did, Moved, Remounting, Left, Sure, Form
    <2>2. CASE Left(c, <<"stop", "start", "answer">>) /\ Sure(c)
      <3>1. Did(c, "stop", <<"start", "answer">>)
        BY <1>w, <2>2, NextStep
      <3> QED BY <1>4, <2>2, <3>1 DEF Did, Moved, Gone, Remounting, Left, Sure, Form, Mounted
    <2>3. CASE Left(c, <<"start", "answer">>) /\ Sure(c) /\ ~Mounted
      <3>1. Did(c, "start", <<"answer">>)
        BY <1>w, <2>3, NextStep
      <3>2. /\ Moved(c, <<"answer">>) /\ UNCHANGED saved
            /\ live' = Started(unit, live'.recent) /\ live'.recent \in BOOLEAN
        BY <2>3, <3>1 DEF Did, Gone
      <3>3. Agrees(Form(c))'
        BY <1>f, <2>3, <3>2
      <3> QED BY <1>4, <3>2, <3>3 DEF Moved, Remounting, Left, Form
    <2> QED BY <1>4, <1>a, <2>1, <2>2, <2>3 DEF Remounting
  <1>5. ASSUME GettingPassthrough(c) PROVE GettingPassthrough(c)'
    <2>1. CASE Left(c, <<"unit", "stop", "start", "save", "answer">>)
      <3>1. Did(c, "unit", <<"stop", "start", "save", "answer">>)
        BY <1>w, <2>1, NextStep
      <3> QED BY <3>1 DEF Did, Moved, GettingPassthrough, Left, Sure, Form
    <2>2. CASE Left(c, <<"unit", "start", "save", "answer">>) /\ ~Mounted
      <3>1. Did(c, "unit", <<"start", "save", "answer">>)
        BY <1>w, <2>2, NextStep
      <3> QED BY <2>2, <3>1 DEF Did, Moved, GettingPassthrough, Left, Sure, Form, Mounted
    <2>3. CASE Left(c, <<"stop", "start", "save", "answer">>) /\ Sure(c)
      <3>1. Did(c, "stop", <<"start", "save", "answer">>)
        BY <1>w, <2>3, NextStep
      <3> QED BY <2>3, <3>1 DEF Did, Moved, Gone, GettingPassthrough, Left, Sure, Form, Mounted
    <2>4. CASE Left(c, <<"start", "save", "answer">>) /\ Sure(c) /\ ~Mounted
      <3>1. Did(c, "start", <<"save", "answer">>)
        BY <1>w, <2>4, NextStep
      <3>2. /\ Moved(c, <<"save", "answer">>)
            /\ live' = Started(unit, live'.recent) /\ live'.recent \in BOOLEAN
        BY <2>4, <3>1 DEF Did, Gone
      <3>3. Agrees(Form(c))'
        BY <1>f, <2>4, <3>2
      <3> QED BY <3>2, <3>3 DEF Moved, GettingPassthrough, Left
    <2>5. CASE Left(c, <<"save", "answer">>) /\ (Mounted => Agrees(Form(c)))
      <3>1. Did(c, "save", <<"answer">>)
        BY <1>w, <2>5, NextStep
      <3>2. /\ Moved(c, <<"answer">>) /\ saved' = Form(c) /\ UNCHANGED live /\ Form(c)' = Form(c)
        BY <3>1 DEF Did, Moved, Form
      <3>3. (Mounted => Agrees(Form(c)))'
        BY <2>5, <3>2 DEF Agrees, Mounted
      <3> QED BY <3>2, <3>3 DEF Moved, GettingPassthrough, Left
    <2> QED BY <1>5, <1>a, <2>1, <2>2, <2>3, <2>4, <2>5 DEF GettingPassthrough
  <1> QED BY <1>0, <1>1, <1>2, <1>3, <1>4, <1>5, <1>a DEF Promises

\* A request that ends with an error tells; the others end with their answer.
LEMMA EndsTold ==
  ASSUME TypeInv, NEW c \in Clients, Work(c), job'[c] = Idle, job[c].kind # "none"
  PROVE  told' \/ Answer(c)
  <1>1. ~Proceed(c)
    <2>1. Proceed(c) => job'[c].kind = job[c].kind
      BY WorkFrame, Proceeded
    <2> QED BY <2>1, IdleJob
  <1>2. ASSUME NEW plan, NEW stale,
               \/ job' = [job EXCEPT ![c].plan = plan, ![c].stale = stale]
               \/ job' = [job EXCEPT ![c].plan = plan]
        PROVE  FALSE
    <2>1. job'[c].kind = job[c].kind
      BY <1>2 DEF TypeInv, Job
    <2> QED BY <2>1, IdleJob
  <1>3. CASE WriteUnit(c) \/ SaveState(c)
    BY <1>1, <1>3 DEF WriteUnit, SaveState
  <1>4. CASE RuntimeUpdate(c) \/ StartIfDown(c)
    BY <1>2, <1>4 DEF RuntimeUpdate, StartIfDown, Continue
  <1>5. CASE Compare(c)
    BY <1>2, <1>5 DEF Compare
  <1>6. CASE Try(c)
    BY <1>1, <1>2, <1>6 DEF Try
  <1>7. CASE Push(c) \/ Stop(c) \/ Start(c)
    BY <1>1, <1>7 DEF Push, Stop, Start, Raises
  <1> QED BY <1>3, <1>4, <1>5, <1>6, <1>7 DEF Work

\* Whoever changes something leaves a pool that runs it, or says so.
LEMMA WriterEnds ==
  ASSUME TypeInv, NEW c \in Clients, Promises(c), Writes(c), Work(c), job'[c] = Idle
  PROVE  Settled'
  <1>1. CASE told'
    BY <1>1 DEF Settled
  <1>2. CASE Answer(c)
    <2>w. {"unit", "save", "update", "start", "stop"} \subseteq Steps \ {"answer"} /\ "answer" \in Steps
      BY DEF Steps
    <2>1. At(c, "answer") /\ UNCHANGED <<saved, unit, live>> /\ told' = Tells(c)
      BY <1>2 DEF Answer
    <2>2. /\ ~Left(c, <<"start", "answer">>) /\ ~Left(c, <<"save", "answer">>)
          /\ ~Left(c, <<"update", "answer">>)
          /\ ~Left(c, <<"stop", "start", "answer">>) /\ ~Left(c, <<"start", "save", "answer">>)
          /\ ~Left(c, <<"save", "update", "answer">>) /\ ~Left(c, <<"save", "start", "answer">>)
          /\ ~Left(c, <<"unit", "stop", "start", "answer">>)
          /\ ~Left(c, <<"unit", "start", "save", "answer">>)
          /\ ~Left(c, <<"unit", "save", "update", "answer">>)
          /\ ~Left(c, <<"unit", "save", "start", "answer">>)
          /\ ~Left(c, <<"stop", "start", "save", "answer">>)
          /\ ~Left(c, <<"unit", "stop", "start", "save", "answer">>)
      BY <2>w, <2>1, NotYet
    <2>3. ASSUME Mounted => Agrees(saved) PROVE Settled'
      <3>1. (Mounted => Agrees(saved))'
        BY <2>1, <2>3 DEF Mounted, Agrees
      <3> QED BY <3>1 DEF Settled
    <2>4. CASE job[c].kind = "unit"
      BY <2>1, <2>4 DEF Tells, Settled
    <2>5. CASE job[c].kind = "remount"
      <3>1. saved = Form(c) /\ (Mounted => Agrees(Form(c)))
        BY <2>2, <2>5 DEF Promises, Remounting
      <3> QED BY <2>3, <3>1
    <2>6. CASE job[c].kind = "passthrough"
      <3>1. saved = Form(c) /\ (Mounted => Agrees(Form(c)))
        BY <2>2, <2>6 DEF Promises, GettingPassthrough
      <3> QED BY <2>3, <3>1
    <2>7. CASE job[c].kind = "save"
      <3>1. Updating(c)
        BY <2>2, <2>7 DEF Promises, Saving
      <3>2. told' = (job[c].stale # {})
        BY <2>1, <2>7 DEF Tells
      <3>3. CASE job[c].stale # {}
        BY <3>2, <3>3 DEF Settled
      <3>4. CASE job[c].stale = {}
        <4>1. Keys(job[c].plan) = {}
          BY <2>1, <3>1, JobFields, TailInOrder DEF At, Updating
        <4>2. saved = Form(c) /\ (Mounted => Agrees(Form(c)))
          BY <3>1, <3>4, <4>1 DEF Updating, Covered, Agrees
        <4> QED BY <2>3, <4>2
      <3> QED BY <3>3, <3>4
    <2> QED BY <2>4, <2>5, <2>6, <2>7 DEF Writes
  <1>3. job[c].kind # "none"
    BY DEF Writes
  <1> QED BY <1>1, <1>2, <1>3, EndsTold

\* A pool mounted while nobody changes anything.
LEMMA SettledAnew ==
  ASSUME TypeInv, UNCHANGED <<saved, unit>>, NEW age \in BOOLEAN, live' = Started(unit, age)
  PROVE  Settled'
  <1>1. ASSUME unit = pool_unit(saved) PROVE Agrees(saved)'
    <2>1. /\ live'.branches = saved.branches
          /\ \A k \in Unread(saved) : live'.options[k] = merged_options(saved)[k]
      BY <1>1, StartedAgrees DEF TypeInv
    <2> QED BY <2>1 DEF Agrees
  <1>2. unit' = pool_unit(saved)' => unit = pool_unit(saved)
    OBVIOUS
  <1> QED BY <1>1, <1>2 DEF Settled

LEMMA SettledKept ==
  ASSUME Settled, UNCHANGED <<saved, unit, live>>, told => told'
  PROVE  Settled'
  BY DEF Settled, Mounted, Agrees

LEMMA OthersSettled ==
  ASSUME TypeInv, NEW c \in Clients, Promises(c), Work(c), job[c].kind \in {"mount", "unmount"}, Settled
  PROVE  Settled'
  <1>w. {"start", "stop", "answer"} \subseteq Steps
    BY DEF Steps
  <1>1. CASE Left(c, <<"answer">>)
    <2>1. Did(c, "answer", <<>>)
      BY <1>w, <1>1, NextStep
    <2>2. Tells(c) = told
      BY DEF Tells
    <2>3. UNCHANGED <<saved, unit, live>> /\ told' = told
      BY <2>1, <2>2 DEF Did
    <2> QED BY <2>3, SettledKept
  <1>2. CASE Left(c, <<"start", "answer">>)
    <2>1. Did(c, "start", <<"answer">>)
      BY <1>w, <1>2, NextStep
    <2>2. CASE UNCHANGED <<saved, unit, live>> /\ (told => told')
      BY <2>2, SettledKept
    <2>3. CASE UNCHANGED <<saved, unit>> /\ live' = Started(unit, live'.recent) /\ live'.recent \in BOOLEAN
      BY <2>3, SettledAnew
    <2> QED BY <2>1, <2>2, <2>3 DEF Did
  <1>3. CASE Left(c, <<"stop", "answer">>)
    <2>1. Did(c, "stop", <<"answer">>)
      BY <1>w, <1>3, NextStep
    <2>2. CASE UNCHANGED <<saved, unit, live>> /\ (told => told')
      BY <2>2, SettledKept
    <2>3. CASE live' = NotMounted
      BY <2>3 DEF Settled, Mounted
    <2> QED BY <2>1, <2>2, <2>3 DEF Did
  <1> QED BY <1>1, <1>2, <1>3 DEF Promises

LEMMA UnmountWorks ==
  ASSUME TypeInv, NEW c \in Clients, Promises(c), Work(c), job[c].kind = "unmount"
  PROVE  UNCHANGED <<saved, unit>> /\ (live' = live \/ live' = NotMounted)
  <1>w. {"stop", "answer"} \subseteq Steps
    BY DEF Steps
  <1>1. CASE Left(c, <<"answer">>)
    <2>1. Did(c, "answer", <<>>)
      BY <1>w, <1>1, NextStep
    <2> QED BY <2>1 DEF Did
  <1>2. CASE Left(c, <<"stop", "answer">>)
    <2>1. Did(c, "stop", <<"answer">>)
      BY <1>w, <1>2, NextStep
    <2> QED BY <2>1 DEF Did
  <1> QED BY <1>1, <1>2 DEF Promises

LEMMA SilentNext ==
  ASSUME Concurrent \subseteq {"save", "unmount", "passthrough"}, TypeInv, TurnInv, SilentInv, [Next]_vars
  PROVE  SilentInv'
  <1>1. ASSUME NEW c \in Clients, NEW kind, NEW form, NEW steps, Opens(c, kind, form, steps)
        PROVE  SilentInv'
    <2>1. form \in Pools /\ Do(steps) \in Seq(Step) /\ Accept(c, kind, form, Do(steps))
      BY <1>1, DoPlanOK DEF Opens
    <2>2. /\ job[c] = Idle
          /\ \A d \in Clients \ {c} :
               /\ job'[d].kind = job[d].kind /\ job'[d].form = job[d].form
               /\ job'[d].plan = job[d].plan /\ job'[d].stale = job[d].stale
          /\ UNCHANGED <<saved, unit, live, told>>
      BY <2>1, Accepted
    <2>3. Promises(c)'
      BY <1>1, PromisesOpen
    <2>4. ASSUME NEW d \in Clients \ {c} PROVE Promises(d)'
      BY <2>2, PromisesKept DEF SilentInv
    <2>5. ASSUME \A d \in Clients : ~Writes(d)' PROVE Settled'
      <3>1. ~Writes(c)
        BY <2>2, IdleJob DEF Writes
      <3>2. \A d \in Clients \ {c} : ~Writes(d)
        BY <2>2, <2>5 DEF Writes
      <3>3. Settled
        BY <3>1, <3>2 DEF SilentInv
      <3> QED BY <2>2, <3>3, SettledKept
    <2> QED BY <2>3, <2>4, <2>5 DEF SilentInv
  <1>2. ASSUME NEW c \in Clients, Work(c) PROVE SilentInv'
    <2>1. /\ job[c] # Idle /\ \A d \in Clients \ {c} : job'[d] = job[d]
          /\ job'[c] = Idle \/ job'[c].kind = job[c].kind
      BY <1>2, WorkFrame
    <2>2. job[c].kind # "none" /\ Promises(c)
      BY <2>1 DEF TurnInv, SilentInv
    <2>3. Promises(c)'
      <3>1. CASE job'[c] = Idle
        BY <3>1, IdleJob DEF Promises
      <3>2. CASE job'[c] # Idle
        BY <1>2, <2>2, <3>2, PromisesWork
      <3> QED BY <3>1, <3>2
    <2>4. ASSUME NEW d \in Clients \ {c} PROVE Promises(d)'
      <3>1. job'[d] = job[d] /\ Promises(d)
        BY <2>1 DEF SilentInv
      <3>2. CASE job[d] = Idle
        BY <3>1, <3>2, IdleJob DEF Promises
      <3>3. CASE job[d] # Idle
        <4>1. ~Alone(c) /\ ~Alone(d)
          BY <2>1, <3>3 DEF Alone
        <4>2. job[d].kind # "none"
          BY <3>3 DEF TurnInv
        <4>3. /\ job[c].kind \in {"save", "unmount", "passthrough"}
              /\ job[d].kind \in {"save", "unmount", "passthrough"}
          BY <2>2, <4>1, <4>2 DEF TurnInv
        <4>4. CASE job[d].kind = "unmount"
          <5>1. Left(d, <<"stop", "answer">>) \/ Left(d, <<"answer">>)
            BY <3>1, <4>4 DEF Promises
          <5>2. Left(d, <<"stop", "answer">>)' \/ Left(d, <<"answer">>)'
            BY <3>1, <5>1 DEF Left
          <5> QED BY <3>1, <4>4, <5>2 DEF Promises
        <4>5. CASE job[d].kind # "unmount"
          <5>1. job[c].kind = "unmount"
            BY <4>3, <4>5 DEF TurnInv
          <5>2. UNCHANGED <<saved, unit>> /\ (live' = live \/ live' = NotMounted)
            BY <1>2, <2>2, <5>1, UnmountWorks
          <5> QED BY <3>1, <5>2, PromisesKept
        <4> QED BY <4>4, <4>5
      <3> QED BY <3>2, <3>3
    <2>5. ASSUME \A d \in Clients : ~Writes(d)' PROVE Settled'
      <3>1. \A d \in Clients \ {c} : ~Writes(d)
        BY <2>1, <2>5 DEF Writes
      <3>2. CASE Writes(c)
        <4>1. job'[c] = Idle
          BY <2>1, <2>5, <3>2 DEF Writes
        <4> QED BY <1>2, <2>2, <3>2, <4>1, WriterEnds
      <3>3. CASE ~Writes(c)
        <4>1. job[c].kind \in {"mount", "unmount"}
          BY <2>2, <3>3, JobFields DEF Writes, RequestKinds
        <4>2. Settled
          BY <3>1, <3>3 DEF SilentInv
        <4> QED BY <1>2, <2>2, <4>1, <4>2, OthersSettled
      <3> QED BY <3>2, <3>3
    <2> QED BY <2>3, <2>4, <2>5 DEF SilentInv
  <1>q. ASSUME Quiet PROVE Settled
    BY <1>q, IdleJob DEF Quiet, SilentInv, Writes
  <1>3. ASSUME Restart \/ Reboot PROVE SilentInv'
    <2>1. \A c \in Clients : job'[c] = Idle
      BY <1>3, AllDropped DEF Restart, Reboot
    <2>2. \A c \in Clients : Promises(c)'
      BY <2>1, IdleJob DEF Promises
    <2>3. Settled'
      <3>1. CASE ~Quiet
        <4>1. told'
          BY <1>3, <3>1 DEF Restart, Reboot
        <4> QED BY <4>1 DEF Settled
      <3>2. CASE Quiet /\ Restart
        BY <1>q, <3>2, SettledKept DEF Restart
      <3>3. CASE Quiet /\ Reboot
        <4>1. UNCHANGED <<saved, unit>> /\ recent \in BOOLEAN
          BY <3>3 DEF Reboot, TypeInv
        <4>2. CASE live' = Started(unit, recent)
          BY <4>1, <4>2, SettledAnew
        <4>3. CASE live' = NotMounted
          BY <4>3 DEF Settled, Mounted
        <4> QED BY <3>3, <4>2, <4>3 DEF Reboot
      <3> QED BY <1>3, <3>1, <3>2, <3>3
    <2> QED BY <2>2, <2>3 DEF SilentInv
  <1>4. ASSUME UNCHANGED <<saved, unit, live, job, told>> PROVE SilentInv'
    <2>1. \A c \in Clients : Promises(c)'
      BY <1>4, PromisesKept DEF SilentInv
    <2>2. ASSUME \A c \in Clients : ~Writes(c)' PROVE Settled'
      <3>1. \A c \in Clients : ~Writes(c)
        BY <1>4, <2>2 DEF Writes
      <3>2. Settled
        BY <3>1 DEF SilentInv
      <3> QED BY <1>4, <3>2, SettledKept
    <2> QED BY <2>1, <2>2 DEF SilentInv
  <1>5. ASSUME Upgrade \/ CalmDown \/ UNCHANGED vars PROVE SilentInv'
    BY <1>4, <1>5 DEF Upgrade, CalmDown, vars
  <1> QED BY <1>1, <1>2, <1>3, <1>5, EveryStep

LEMMA SilentInit == Init => SilentInv
  <1> SUFFICES ASSUME Init PROVE SilentInv
    OBVIOUS
  <1>1. \A c \in Clients : job[c] = Idle
    BY DEF Init
  <1>2. \A c \in Clients : Promises(c)
    BY <1>1, IdleJob DEF Promises
  <1>3. Settled
    BY DEF Init, Settled, Mounted
  <1> QED BY <1>2, <1>3 DEF SilentInv

\* What a settled pool does not run, the diagnostics page can see, unless
\* mergerfs does not answer.
LEMMA SettledIsNews ==
  ASSUME TypeInv, SilentInv
  PROVE  NothingSilent
  <1> SUFFICES ASSUME Quiet, Mounted, ~Runs(saved), ~Unasked, ~told
               PROVE  Findings \ {"pool_passthrough_available"} # {}
    BY DEF NothingSilent, Reported
  <1>1. Settled
    BY IdleJob DEF Quiet, SilentInv, Writes
  <1>2. CASE unit # pool_unit(saved)
    BY <1>2 DEF Findings, FixFor
  <1>3. CASE unit = pool_unit(saved)
    <2>1. Agrees(saved)
      BY <1>1, <1>3 DEF Settled
    <2>2. PICK k \in DOMAIN merged_options(saved) : live.options[k] # merged_options(saved)[k]
      BY <2>1 DEF Agrees, Runs
    <2>3. k \in VERIFIABLE_OPTIONS /\ Asked(merged_options(saved), k) = merged_options(saved)[k]
      BY <2>1, <2>2 DEF Agrees, Unread, Asked
    <2>4. Answers(k)
      <3>1. CASE k = "passthrough" /\ ~live.recent
        <4>1. live.options["passthrough"] = "off"
          BY <3>1 DEF TypeInv, LiveOK
        <4>2. Asked(merged_options(saved), "passthrough") = "off"
          BY <3>1 DEF Unasked
        <4> QED BY <2>2, <2>3, <3>1, <4>1, <4>2
      <3> QED BY <3>1 DEF Answers
    <2>5. k \in option_drift(saved)
      BY <2>2, <2>3, <2>4 DEF option_drift, Differs
    <2>6. "pool_needs_remount" \in Findings
      BY <2>5 DEF Findings, FixFor
    <2> QED BY <2>6
  <1> QED BY <1>2, <1>3

\* When no request is under way, a pool that does not run what is saved was
\* reported or can be seen; for every set of forms, as long as mount, remount
\* and the unit's fix, which take no lock, come one at a time.
THEOREM NothingSilentHolds ==
  ASSUME Concurrent \subseteq {"save", "unmount", "passthrough"}
  PROVE  Spec => []NothingSilent
  <1> DEFINE Inv == TypeInv /\ TurnInv /\ SilentInv
  <1>1. Init => Inv
    BY TypeInit, TurnInit, SilentInit
  <1>2. Inv /\ [Next]_vars => Inv'
    BY TypeNext, TurnNext, SilentNext
  <1>3. Inv => NothingSilent
    BY SettledIsNews
  <1> QED BY <1>1, <1>2, <1>3, PTL DEF Spec
=============================================================================
