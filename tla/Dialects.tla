------------------------------ MODULE Dialects ------------------------------
(***************************************************************************)
(* The Dialect interface and its four implementations: how a predicate is  *)
(* written and which arguments it binds.                                   *)
(*                                                                         *)
(* SQL text is a sequence of tokens: connectives, parentheses, and whole   *)
(* predicates.  A predicate token carries its relation, its column, what   *)
(* it inlines, and the placeholders it shows, in textual order; a          *)
(* placeholder is the number that Query.Arg passed to Placeholder.         *)
(* Postgres prints that number ($n), the others print "?".                 *)
(*                                                                         *)
(* An argument is tagged with how the driver sends it: "str", "num",       *)
(* "bool", "list" (an array literal, a JSON array or a Go slice, by        *)
(* dialect), "path" (a JSON path to a key) or "like" (an escaped needle).  *)
(***************************************************************************)
EXTENDS FilterTypes, SequencesExt

Dialect == {"clickhouse", "postgres", "sqlite", "mysql"}

Word(w) == [sym |-> w, col |-> "", lit |-> <<>>, slots |-> <<>>]

\* Faulty: placeholders counted from the arguments bound before, not after.
PredicateOneLow(sym, col, n, k) ==
  [sym |-> sym, col |-> col, lit |-> <<>>, slots |-> [i \in 1 .. k |-> n + i - 1]]

\* A predicate over col that binds k arguments after the n already bound.
Predicate(sym, col, n, k) ==
  [sym |-> sym, col |-> col, lit |-> <<>>, slots |-> [i \in 1 .. k |-> n + i]]

\* What a renderer returns: the text it wrote and the arguments it bound.
One(sym, col, n, bound) ==
  [text |-> <<Predicate(sym, col, n, Len(bound))>>, args |-> bound]

\* Faulty: every predicate after the first starts one argument further only.
JoinedByOne(sym, col, n, k, count, bound) ==
  [text |-> [i \in 1 .. 2 * count - 1 |->
               IF i % 2 = 1 THEN Predicate(sym, col, n + (i - 1) \div 2, k)
                            ELSE Word("AND")],
   args |-> bound]

\* Predicates joined by AND, the i-th over the i-th of the groups of k arguments.
Joined(sym, col, n, k, count, bound) ==
  [text |-> [i \in 1 .. 2 * count - 1 |->
               IF i % 2 = 1 THEN Predicate(sym, col, n + k * ((i - 1) \div 2), k)
                            ELSE Word("AND")],
   args |-> bound]

Nothing == [text |-> <<>>, args |-> <<>>]

(***************************************************************************)
(* How values are bound: one string each, all in one list, or as the path  *)
(* to a key; a needle is escaped and anchored.                             *)
(***************************************************************************)
Strs(vals) == [i \in DOMAIN vals |-> <<"str", vals[i]>>]
List(vals) == <<<<"list", vals>>>>
Paths(keys) == [i \in DOMAIN keys |-> <<"path", keys[i]>>]
Needle(pattern, match) == <<<<"like", match, pattern>>>>

\* Every key with every one of its values, in the order of the two loops.
KeyValues(pairs) ==
  FlattenSeq([i \in DOMAIN pairs |->
                [j \in DOMAIN pairs[i].values |-> <<pairs[i].key, pairs[i].values[j]>>]])

\* One predicate per key and value, binding the key and then the value.
EachPair(sym, keyTag, col, pairs, n) ==
  LET kvs == KeyValues(pairs)
      bound == [i \in 1 .. 2 * Len(kvs) |->
                  LET kv == kvs[(i + 1) \div 2]
                  IN IF i % 2 = 1 THEN <<keyTag, kv[1]>> ELSE <<"str", kv[2]>>]
  IN IF kvs = <<>> THEN Nothing ELSE Joined(sym, col, n, 2, Len(kvs), bound)

\* Relative time is inlined, in minutes from now.
Minutes == [m |-> 1, h |-> 60, d |-> 1440, w |-> 10080]

(***************************************************************************)
(* ClickHouse: a Go slice is bound as one array.                           *)
(***************************************************************************)
ClickHouseLike(col, pattern, match, n) == One("ILIKE", col, n, Needle(pattern, match))

ClickHouseArrayContains(col, vals, all, n) ==
  One(IF all THEN "hasAll" ELSE "hasAny", col, n, List(vals))

ClickHouseMapHasKeys(col, keys, n) ==
  Joined("mapContains", col, n, 1, Len(keys), Strs(keys))

ClickHouseMapHasKeyValues(col, pairs, n) == EachPair("[] =", "str", col, pairs, n)

ClickHouseRelativeTime(amount, unit) == amount * Minutes[unit]

(***************************************************************************)
(* Postgres: lists are array literals, also for membership of text.        *)
(***************************************************************************)
PostgresLike(col, pattern, match, n) == One("ILIKE", col, n, Needle(pattern, match))

PostgresArrayContains(col, vals, all, n) ==
  One(IF all THEN "@>" ELSE "&&", col, n, List(vals))

PostgresMapHasKeys(col, keys, n) ==
  IF Len(keys) = 1 THEN One("?", col, n, Strs(keys)) ELSE One("?&", col, n, List(keys))

PostgresScalarIn(col, vals, negate, n) ==
  One(IF negate THEN "<> ALL" ELSE "= ANY", col, n, List(vals))

PostgresMapHasKeyValues(col, pairs, n) == EachPair("->> =", "str", col, pairs, n)

PostgresRelativeTime(amount, unit) == amount * Minutes[unit]

(***************************************************************************)
(* SQLite: JSON text read with json_each.  An array test spells the values *)
(* out; "all" counts the distinct ones that are present and compares with  *)
(* how many were given.  Weeks are written as days.                        *)
(***************************************************************************)
SQLiteLike(col, pattern, match, n) == One("LIKE ESCAPE", col, n, Needle(pattern, match))

SQLiteArrayContains(col, vals, all, n) ==
  IF all
  THEN One("count distinct =", col, n, Append(Strs(vals), <<"num", Len(vals)>>))
  ELSE One("EXISTS value IN", col, n, Strs(vals))

SQLiteMapHasKeys(col, keys, n) ==
  Joined("EXISTS key", col, n, 1, Len(keys), Strs(keys))

SQLiteScalarIn(col, vals, negate, n) ==
  One(IF negate THEN "NOT IN json_each" ELSE "IN json_each", col, n, List(vals))

SQLiteMapHasKeyValues(col, pairs, n) == EachPair("EXISTS key value", "str", col, pairs, n)

SQLiteRelativeTime(amount, unit) ==
  IF unit = "w" THEN (amount * 7) * Minutes["d"] ELSE amount * Minutes[unit]

(***************************************************************************)
(* MySQL: JSON documents; both sides of LIKE are lower-cased.              *)
(***************************************************************************)
MySQLLike(col, pattern, match, n) == One("LOWER LIKE", col, n, Needle(Lower[pattern], match))

MySQLArrayContains(col, vals, all, n) ==
  One(IF all THEN "JSON_CONTAINS" ELSE "JSON_OVERLAPS", col, n, List(vals))

MySQLMapHasKeys(col, keys, n) ==
  Joined("JSON_CONTAINS_PATH", col, n, 1, Len(keys), Paths(keys))

MySQLMapHasKeyValues(col, pairs, n) == EachPair("JSON_EXTRACT =", "path", col, pairs, n)

MySQLRelativeTime(amount, unit) == amount * Minutes[unit]

(***************************************************************************)
(* The interface.  ScalarIn is optional: two dialects have it.             *)
(***************************************************************************)
Like(d, col, pattern, match, n) ==
  CASE d = "clickhouse" -> ClickHouseLike(col, pattern, match, n)
    [] d = "postgres" -> PostgresLike(col, pattern, match, n)
    [] d = "sqlite" -> SQLiteLike(col, pattern, match, n)
    [] d = "mysql" -> MySQLLike(col, pattern, match, n)

ArrayContains(d, col, vals, all, n) ==
  CASE d = "clickhouse" -> ClickHouseArrayContains(col, vals, all, n)
    [] d = "postgres" -> PostgresArrayContains(col, vals, all, n)
    [] d = "sqlite" -> SQLiteArrayContains(col, vals, all, n)
    [] d = "mysql" -> MySQLArrayContains(col, vals, all, n)

MapHasKeys(d, col, keys, n) ==
  CASE d = "clickhouse" -> ClickHouseMapHasKeys(col, keys, n)
    [] d = "postgres" -> PostgresMapHasKeys(col, keys, n)
    [] d = "sqlite" -> SQLiteMapHasKeys(col, keys, n)
    [] d = "mysql" -> MySQLMapHasKeys(col, keys, n)

MapHasKeyValues(d, col, pairs, n) ==
  CASE d = "clickhouse" -> ClickHouseMapHasKeyValues(col, pairs, n)
    [] d = "postgres" -> PostgresMapHasKeyValues(col, pairs, n)
    [] d = "sqlite" -> SQLiteMapHasKeyValues(col, pairs, n)
    [] d = "mysql" -> MySQLMapHasKeyValues(col, pairs, n)

RelativeTime(d, amount, unit) ==
  CASE d = "clickhouse" -> ClickHouseRelativeTime(amount, unit)
    [] d = "postgres" -> PostgresRelativeTime(amount, unit)
    [] d = "sqlite" -> SQLiteRelativeTime(amount, unit)
    [] d = "mysql" -> MySQLRelativeTime(amount, unit)

HasScalarIn(d) == d \in {"postgres", "sqlite"}

ScalarIn(d, col, vals, negate, n) ==
  CASE d = "postgres" -> PostgresScalarIn(col, vals, negate, n)
    [] d = "sqlite" -> SQLiteScalarIn(col, vals, negate, n)
=============================================================================
