------------------------------ MODULE Metrics ------------------------------
(***************************************************************************)
(* The metrics of proxy_wasm_api.h. The host keeps one number per name and  *)
(* gives out ids for names. A metric with tags is a prefix of that name     *)
(* with the tags fixed so far, the tags that are left, and a cache of ids;  *)
(* a plugin resolves it at once, in parts through copies that inherit the   *)
(* cache, or through a longer counter, and keeps ids in simple counters.    *)
(***************************************************************************)
EXTENDS Integers, SequencesExt

CONSTANTS
  Fields,       \* values of tags: sequences of pieces of text
  MaxMetrics,   \* bound: metric objects
  MaxResolved,  \* bound: ids, and counters that keep one
  MaxUpdates    \* bound: increments

VARIABLES
  metrics,   \* the plugin's metric objects; `fixed` lists the tags and values
             \* the plugin has given them
  simple,    \* its SimpleCounters: an id, and the tags it was resolved with
  series,    \* host: the name of each id it gave out
  value,     \* host: [name -> number]
  counted,   \* [tags with their values -> what the plugin counted for them]
  aborted    \* whether the plugin called with the wrong number of fields

metricVars == <<metrics, simple, series, value, counted, aborted>>

Get(f, x) == IF x \in DOMAIN f THEN f[x] ELSE 0
Add(f, x) == [y \in DOMAIN f \cup {x} |-> Get(f, y) + IF y = x THEN 1 ELSE 0]

NoIds == [n \in {} |-> 0]
name == <<"name">>
separator == <<".">>   \* field_separator and value_separator

New(class, tags, prefix, fixed) ==
  [class |-> class, tags |-> tags, prefix |-> prefix, metric_ids |-> NoIds,
   fixed |-> fixed]

MetricsInit ==
  /\ \/ metrics = <<New("Metric", <<"t1", "t2">>, <<>>, <<>>)>>
     \/ metrics = <<New("Counter", <<"t1">>, <<>>, <<>>)>>
  /\ simple = {} /\ series = <<>>
  /\ value = NoIds /\ counted = NoIds
  /\ aborted = FALSE

-----------------------------------------------------------------------------
(* Mutant: the prefix of what is fixed already is lost.                     *)
fieldsWithoutPrefix(m, fields) ==
  FlattenSeq([i \in DOMAIN fields |-> <<m.tags[i]>> \o separator \o fields[i] \o separator])

prefixWithFields(m, fields) ==
  m.prefix \o FlattenSeq([i \in DOMAIN fields |->
                            <<m.tags[i]>> \o separator \o fields[i] \o separator])

Fix(m, fields) == m.fixed \o [i \in DOMAIN fields |-> <<m.tags[i], fields[i]>>]

abort == aborted' = TRUE /\ UNCHANGED <<metrics, simple, series, value, counted>>

(* The host gives a name the id it has for it, or one more.                 *)
defineMetric(n, id) ==
  \/ id \in DOMAIN series /\ series[id] = n /\ UNCHANGED series
  \/ id = Len(series) + 1 /\ series' = Append(series, n)

resolveFullName(k, n, id) ==
  LET ids == metrics[k].metric_ids
  IN  IF n \in DOMAIN ids
        THEN id = ids[n] /\ UNCHANGED <<metrics, series>>
        ELSE /\ defineMetric(n, id)
             /\ metrics' = [metrics EXCEPT ![k].metric_ids =
                              [x \in DOMAIN @ \cup {n} |-> IF x = n THEN id ELSE @[x]]]

resolveWithFields(k, fields, id) ==
  resolveFullName(k, prefixWithFields(metrics[k], fields) \o name, id)

MetricIds == 1 .. MaxResolved

(* Metric takes any number of fields and aborts when it is not the right    *)
(* one, Counter takes as many as its type says.                             *)
WrongNumber(k, fields) ==
  Len(fields) # Len(metrics[k].tags) /\ metrics[k].class = "Metric" /\ abort

RightNumber(k, fields) == Len(fields) = Len(metrics[k].tags)

(* Metric::increment and Counter::increment.                                *)
increment(k, fields) ==
  \/ WrongNumber(k, fields)
  \/ \E id \in MetricIds :
       /\ RightNumber(k, fields)
       /\ resolveWithFields(k, fields, id)
       /\ value' = Add(value, series'[id])
       /\ counted' = Add(counted, Fix(metrics[k], fields))
       /\ UNCHANGED <<simple, aborted>>

(* Counter::resolve, and a Metric's resolve whose id the plugin keeps.      *)
resolve(k, fields) ==
  \/ WrongNumber(k, fields)
  \/ \E id \in MetricIds :
       /\ RightNumber(k, fields)
       /\ resolveWithFields(k, fields, id)
       /\ simple' = simple \cup {[metric_id |-> id, labels |-> Fix(metrics[k], fields)]}
       /\ UNCHANGED <<value, counted, aborted>>

(* Metric::get and Counter::get, which define what they are to read. What   *)
(* they return is Reads, below.                                             *)
get(k, fields) ==
  \/ WrongNumber(k, fields)
  \/ \E id \in MetricIds :
       /\ RightNumber(k, fields)
       /\ resolveWithFields(k, fields, id)
       /\ UNCHANGED <<simple, value, counted, aborted>>

(* It records the offset, which a host adds to a counter.                   *)
SimpleCounter_increment(s) ==
  /\ value' = Add(value, series[s.metric_id])
  /\ counted' = Add(counted, s.labels)
  /\ UNCHANGED <<metrics, simple, series, aborted>>

(* The copy has the cache, a longer prefix and the tags that are left.      *)
partiallyResolve(k, fields) ==
  LET m == metrics[k]
  IN  /\ m.class = "Metric"
      /\ IF Len(fields) >= Len(m.tags)
           THEN abort
           ELSE /\ metrics' = Append(metrics,
                     [m EXCEPT !.prefix = prefixWithFields(m, fields),
                               !.tags = SubSeq(@, Len(fields) + 1, Len(@)),
                               !.fixed = Fix(m, fields)])
                /\ UNCHANGED <<simple, series, value, counted, aborted>>

(* A counter with further tags, on the prefix of this one.                  *)
extendAndResolve(k, fields, tags) ==
  LET m == metrics[k]
  IN  /\ m.class = "Counter" /\ RightNumber(k, fields)
      /\ metrics' = Append(metrics,
           New("Counter", tags, prefixWithFields(m, fields), Fix(m, fields)))
      /\ UNCHANGED <<simple, series, value, counted, aborted>>

Total == FoldFunction(+, 0, counted)

FieldLists == UNION {[1 .. n -> Fields] : n \in 0 .. 2}

(* Any object with any fields, counters extended by one tag.                *)
MetricsNext ==
  /\ ~aborted
  /\ \/ \E k \in DOMAIN metrics, fields \in FieldLists :
          \/ Total < MaxUpdates /\ increment(k, fields)
          \/ Cardinality(simple) < MaxResolved /\ resolve(k, fields)
          \/ get(k, fields)
          \/ Len(metrics) < MaxMetrics /\ partiallyResolve(k, fields)
          \/ Len(metrics) < MaxMetrics /\ extendAndResolve(k, fields, <<"t2">>)
     \/ Total < MaxUpdates /\ \E s \in simple : SimpleCounter_increment(s)

MetricsSpec == MetricsInit /\ [][MetricsNext]_metricVars

-----------------------------------------------------------------------------
(* "Each unique combination of tag values resolves to an independently      *)
(* updatable SimpleCounter" (proxy_wasm_api.h:1710): whichever object reads *)
(* a combination, by a cached id or by its name, finds what was counted for *)
(* this combination, through any object, and for no other.                  *)
Reads(m, fields) ==
  LET n == prefixWithFields(m, fields) \o name
  IN  Get(value, IF n \in DOMAIN m.metric_ids THEN series[m.metric_ids[n]] ELSE n)

CombinationsAreIndependent ==
  \A k \in DOMAIN metrics : \A fields \in [1 .. Len(metrics[k].tags) -> Fields] :
    Reads(metrics[k], fields) = Get(counted, Fix(metrics[k], fields))
=============================================================================
