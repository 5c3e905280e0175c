------------------------- MODULE ResponseInitProofs -------------------------
(***************************************************************************)
(* Theorems about ResponseInit, for inputs of any length.  The invariant   *)
(* says what each loop has done so far: the items before the round that    *)
(* comes next are pairs and are what "map" holds, and the headers are the  *)
(* join of those that were appended.                                       *)
(***************************************************************************)
EXTENDS ResponseInit, FiniteSetTheorems, TLAPS

\* The loops of convert_object_map have taken the first items, one by one.
MapIsPrefix ==
    /\ Len(map) <= Len(Items)
    /\ \A i \in 1 .. Len(map) :
          /\ Proper(i)
          /\ map[i] = <<Elems(i)[1], Elems(i)[2]>>

\* Where the constructor is, and what it has done before.
Progress ==
    /\ input.options # "object" => input.headers = Absent
    /\ at \in {"options", "status", "headers"} => map = <<>>
    /\ at \notin {"append", "ok"} => filled = 0 /\ headers = NoHeaders
    /\ at # "ok" => response.headers = NoHeaders
    /\ at = "ok" => response.headers = headers /\ filled = Len(map)
    /\ at \in {"append", "ok"} => Len(map) = Len(Items)
    /\ at = "abort" /\ input.status # "number" =>
          Len(map) < Len(Items) /\ NoString(Len(map) + 1)

IInv == TypeOK /\ MapIsPrefix /\ Progress /\ JoinedUpTo(headers, filled)

-----------------------------------------------------------------------------
(* Lemmas about the inputs.                                                *)

\* The items are a list of the elements of their kind.
LEMMA ItemsAreLists ==
    ASSUME TypeOK
    PROVE  /\ Len(Items) \in Nat /\ DOMAIN Items = 1 .. Len(Items)
           /\ input.headers.kind \in {"array", "object", "other", "absent"}
           /\ input.headers.kind = "array" => \A i \in 1 .. Len(Items) : Items[i] \in Entry
           /\ input.headers.kind = "object" =>
                 \A i \in 1 .. Len(Items) : Items[i] \in Name \X (Value \cup {Symbol})
           /\ input.headers.kind \in {"other", "absent"} => Len(Items) = 0
<1>1. input.headers \in HeadersGiven
    BY DEF TypeOK
<1>2. CASE \E s \in Short(Entry) : input.headers = [kind |-> "array", items |-> s]
    <2>1. PICK n \in 0 .. MaxItems : Items \in [1 .. n -> Entry]
        BY <1>2 DEF Short, Items
    <2>2. Len(Items) = n
        BY <2>1
    <2> QED BY <1>2, <2>1, <2>2 DEF Items
<1>3. CASE \E s \in Short(Name \X (Value \cup {Symbol})) :
              input.headers = [kind |-> "object", items |-> s]
    <2>1. PICK n \in 0 .. MaxItems : Items \in [1 .. n -> Name \X (Value \cup {Symbol})]
        BY <1>3 DEF Short, Items
    <2>2. Len(Items) = n
        BY <2>1
    <2> QED BY <1>3, <2>1, <2>2 DEF Items
<1>4. CASE input.headers \in {[kind |-> "other", items |-> <<>>], Absent}
    BY <1>4 DEF Absent, Items
<1> QED BY <1>1, <1>2, <1>3, <1>4 DEF HeadersGiven

\* Len of Append, for elements of one set.
LEMMA LongerByOne ==
    ASSUME NEW S, NEW s \in Seq(S), NEW x \in S
    PROVE  Len(Append(s, x)) = Len(s) + 1
OBVIOUS

\* An item that passes the checks of the loop has a key and a value.
LEMMA ProperItems ==
    ASSUME TypeOK, NEW i \in 1 .. Len(Items), Proper(i)
    PROVE  Elems(i)[1] \in Name /\ Elems(i)[2] \in Value
<1>1. CASE input.headers.kind = "array"
    <2>1. Items[i] \in Entry /\ Items[i].isArray /\ Len(Items[i].elems) = 2
        BY <1>1, ItemsAreLists DEF Proper, Malformed
    <2>2. Items[i].elems \in Pair
        <3>1. CASE \E p \in Pair : Items[i] = List(p)
            BY <3>1 DEF List
        <3>2. CASE \E n \in Name : Items[i] = List(<<n>>)
            <4>1. PICK n \in Name : Items[i] = List(<<n>>)
                BY <3>2
            <4> QED BY <2>1, <4>1 DEF List
        <3>3. CASE \E p \in Pair : Items[i] = List(Append(p, p[2]))
            <4>1. PICK p \in Pair : Items[i].elems = Append(p, p[2])
                BY <3>3 DEF List
            <4>2. PICK a \in Name \cup {Symbol}, b \in Value \cup {Symbol} : p = <<a, b>>
                BY DEF Pair
            <4> DEFINE S == Name \cup Value \cup {Symbol}
            <4>3. p \in Seq(S) /\ Len(p) = 2 /\ p[2] \in S
                BY <4>2
            <4> HIDE DEF S
            <4>4. Len(Append(p, p[2])) = Len(p) + 1
                BY <4>3, LongerByOne
            <4> QED BY <2>1, <4>1, <4>3, <4>4
        <3>4. CASE Items[i] = NoList
            BY <2>1, <3>4 DEF NoList
        <3> QED BY <2>1, <3>1, <3>2, <3>3, <3>4 DEF Entry
    <2> QED BY <1>1, <2>2 DEF Elems, Pair, Proper, NoString
<1>2. CASE input.headers.kind = "object"
    <2>1. Items[i] \in Name \X (Value \cup {Symbol})
        BY <1>2, ItemsAreLists
    <2> QED BY <1>2, <2>1 DEF Elems, Proper, NoString
<1>3. input.headers.kind \in {"array", "object"}
    BY ItemsAreLists
<1> QED BY <1>1, <1>2, <1>3

-----------------------------------------------------------------------------
(* Lemmas about the join.                                                  *)

\* The items that give a value for one name can be counted.
LEMMA GivenIsFinite ==
    ASSUME NEW n, NEW k \in Nat
    PROVE  /\ IsFiniteSet(Given(n, k)) /\ Cardinality(Given(n, k)) \in Nat
           /\ Cardinality(Given(n, k)) = 0 <=> Given(n, k) = {}
           /\ \A i \in Given(n, k) :
                 Cardinality(Given(n, i)) \in 1 .. Cardinality(Given(n, k))
<1>1. ASSUME NEW j \in Nat
      PROVE  /\ IsFiniteSet(Given(n, j)) /\ Cardinality(Given(n, j)) \in Nat
             /\ Cardinality(Given(n, j)) = 0 <=> Given(n, j) = {}
    <2>1. IsFiniteSet(1 .. j) /\ Given(n, j) \subseteq 1 .. j
        BY FS_Interval DEF Given
    <2> QED BY <2>1, FS_Subset, FS_CardinalityType, FS_EmptySet
<1>2. ASSUME NEW i \in Given(n, k)
      PROVE  Cardinality(Given(n, i)) \in 1 .. Cardinality(Given(n, k))
    <2>1. i \in Nat /\ Given(n, i) \subseteq Given(n, k) /\ i \in Given(n, i)
        BY DEF Given
    <2>2. Cardinality(Given(n, i)) <= Cardinality(Given(n, k))
        BY <1>1, <2>1, FS_Subset
    <2>3. Cardinality(Given(n, i)) # 0
        BY <1>1, <2>1
    <2> QED BY <1>1, <2>1, <2>2, <2>3
<1> QED BY <1>1, <1>2

\* One more item is counted for its own name and for no other.
LEMMA GivenGrows ==
    ASSUME NEW n, NEW k \in Nat
    PROVE  IF Lower[Elems(k + 1)[1]] = n
           THEN /\ Given(n, k + 1) = Given(n, k) \cup {k + 1}
                /\ Cardinality(Given(n, k + 1)) = Cardinality(Given(n, k)) + 1
           ELSE Given(n, k + 1) = Given(n, k)
<1>1. 1 .. k + 1 = (1 .. k) \cup {k + 1} /\ k + 1 \notin 1 .. k
    OBVIOUS
<1>2. CASE Lower[Elems(k + 1)[1]] = n
    <2>1. Given(n, k + 1) = Given(n, k) \cup {k + 1} /\ k + 1 \notin Given(n, k)
        BY <1>1, <1>2 DEF Given
    <2>2. Cardinality(Given(n, k) \cup {k + 1}) = Cardinality(Given(n, k)) + 1
        BY <2>1, GivenIsFinite, FS_AddElement
    <2> QED BY <1>2, <2>1, <2>2
<1>3. CASE Lower[Elems(k + 1)[1]] # n
    BY <1>1, <1>3 DEF Given
<1> QED BY <1>2, <1>3

\* FetchHeaders::append keeps the headers joined.
LEMMA AppendJoins ==
    ASSUME TypeOK, NEW k \in 0 .. Len(Items) - 1, JoinedUpTo(headers, k),
           Proper(k + 1)
    PROVE  /\ JoinedUpTo(Appended(headers, Elems(k + 1)[1], Elems(k + 1)[2]), k + 1)
           /\ LET h == Appended(headers, Elems(k + 1)[1], Elems(k + 1)[2])
              IN  DOMAIN h \subseteq Name /\ h \in [DOMAIN h -> Seq(Value)]
<1> DEFINE m == Lower[Elems(k + 1)[1]]
           v == Elems(k + 1)[2]
           h == Appended(headers, Elems(k + 1)[1], v)
<1>1. k \in Nat /\ k + 1 \in 1 .. Len(Items)
    BY ItemsAreLists
<1>2. m \in Name /\ v \in Value
    BY <1>1, ProperItems, LowerAssumption
<1>3. /\ DOMAIN headers \subseteq Name
      /\ \A n \in DOMAIN headers : headers[n] \in Seq(Value)
    BY DEF TypeOK
<1>4. /\ DOMAIN h = DOMAIN headers \cup {m}
      /\ \A n \in DOMAIN headers : n # m => h[n] = headers[n]
      /\ h[m] = IF m \in DOMAIN headers THEN Append(headers[m], v) ELSE <<v>>
    BY DEF Appended
<1>5. /\ m = Lower[Elems(k + 1)[1]] /\ v = Elems(k + 1)[2]
      /\ h = [n \in DOMAIN h |-> h[n]]
    BY DEF Appended
<1> HIDE DEF m, v, h
<1>6. DOMAIN h \subseteq Name /\ h \in [DOMAIN h -> Seq(Value)]
    <2>1. <<v>> \in Seq(Value)
        BY <1>2
    <2>2. h[m] \in Seq(Value)
        BY <1>2, <1>3, <1>4, <2>1
    <2>3. \A n \in DOMAIN h : h[n] \in Seq(Value)
        BY <1>3, <1>4, <2>2
    <2> QED BY <1>2, <1>3, <1>4, <1>5, <2>3
<1>7. ASSUME NEW n \in Name, n # m
      PROVE  IF Given(n, k + 1) = {} THEN n \notin DOMAIN h
             ELSE /\ n \in DOMAIN h
                  /\ Len(h[n]) = Cardinality(Given(n, k + 1))
                  /\ \A i \in Given(n, k + 1) :
                        h[n][Cardinality(Given(n, i))] = Elems(i)[2]
    <2>1. Given(n, k + 1) = Given(n, k)
        BY <1>1, <1>5, <1>7, GivenGrows
    <2>2. n \in DOMAIN h <=> n \in DOMAIN headers
        BY <1>4, <1>7
    <2>3. n \in DOMAIN headers => h[n] = headers[n]
        BY <1>4, <1>7
    <2> QED BY <2>1, <2>2, <2>3 DEF JoinedUpTo
<1>8. /\ m \in DOMAIN h
      /\ Len(h[m]) = Cardinality(Given(m, k + 1))
      /\ \A i \in Given(m, k + 1) : h[m][Cardinality(Given(m, i))] = Elems(i)[2]
    <2>1. /\ Given(m, k + 1) = Given(m, k) \cup {k + 1}
          /\ Cardinality(Given(m, k + 1)) = Cardinality(Given(m, k)) + 1
        BY <1>1, <1>5, GivenGrows
    <2>2. Cardinality(Given(m, k)) \in Nat
        BY <1>1, GivenIsFinite
    <2>3. CASE Given(m, k) = {}
        <3>1. h[m] = <<v>>
            BY <1>2, <1>4, <2>3 DEF JoinedUpTo
        <3>2. Cardinality(Given(m, k + 1)) = 1
            BY <1>1, <2>1, <2>3, GivenIsFinite
        <3>3. Given(m, k + 1) = {k + 1}
            BY <2>1, <2>3
        <3>4. Len(h[m]) = 1 /\ h[m][1] = v
            BY <3>1
        <3> QED BY <1>4, <1>5, <3>2, <3>3, <3>4
    <2>4. CASE Given(m, k) # {}
        <3>1. /\ m \in DOMAIN headers
              /\ Len(headers[m]) = Cardinality(Given(m, k))
              /\ \A i \in Given(m, k) : headers[m][Cardinality(Given(m, i))] = Elems(i)[2]
            BY <1>2, <2>4 DEF JoinedUpTo
        <3>2. h[m] = Append(headers[m], v) /\ headers[m] \in Seq(Value)
            BY <1>3, <1>4, <3>1
        <3>3. /\ Len(h[m]) = Len(headers[m]) + 1
              /\ h[m][Len(headers[m]) + 1] = v
              /\ \A j \in 1 .. Len(headers[m]) : h[m][j] = headers[m][j]
            BY <1>2, <3>2
        <3>4. \A i \in Given(m, k) :
                 Cardinality(Given(m, i)) \in 1 .. Cardinality(Given(m, k))
            BY <1>1, GivenIsFinite
        <3>5. \A i \in Given(m, k) : h[m][Cardinality(Given(m, i))] = Elems(i)[2]
            BY <3>1, <3>3, <3>4
        <3>6. h[m][Cardinality(Given(m, k + 1))] = Elems(k + 1)[2]
            BY <1>5, <2>1, <3>1, <3>3
        <3> QED BY <1>4, <2>1, <3>1, <3>3, <3>5, <3>6
    <2> QED BY <2>3, <2>4
<1>9. Given(m, k + 1) # {}
    BY <1>1, <1>5, GivenGrows
<1>10. JoinedUpTo(h, k + 1)
    BY <1>7, <1>8, <1>9 DEF JoinedUpTo
<1> QED BY <1>6, <1>10 DEF h, v

-----------------------------------------------------------------------------
(* The invariant.                                                          *)

\* Before the first step nothing is converted or appended.
LEMMA InitIInv == Init => IInv
<1> SUFFICES ASSUME Init PROVE IInv
    OBVIOUS
<1>1. TypeOK
    BY DEF Init, TypeOK, NoHeaders
<1>2. MapIsPrefix
    BY <1>1, ItemsAreLists DEF Init, MapIsPrefix
<1>3. JoinedUpTo(headers, filled)
    <2>1. \A n : Given(n, 0) = {}
        BY DEF Given
    <2> QED BY <2>1 DEF Init, JoinedUpTo, NoHeaders
<1> QED BY <1>1, <1>2, <1>3 DEF IInv, Init, Progress

\* What was joined stays joined while the input and the headers are the same.
LEMMA SameJoin ==
    ASSUME JoinedUpTo(headers, filled), UNCHANGED <<input, filled, headers>>
    PROVE  JoinedUpTo(headers, filled)'
<1>1. \A i : Elems(i)' = Elems(i)
    BY DEF Elems, Items
<1>2. \A n, k : Given(n, k)' = Given(n, k)
    BY <1>1 DEF Given
<1> QED BY <1>1, <1>2 DEF JoinedUpTo

\* And what was converted stays converted while the map is.
LEMMA SamePrefix ==
    ASSUME MapIsPrefix, UNCHANGED <<input, map>>
    PROVE  MapIsPrefix'
BY DEF MapIsPrefix, Items, Elems, Proper, Malformed, NoString

\* Actions that only move the constructor on: everything up to the loops, and
\* their ends.
LEMMA MovesKeepIInv ==
    ASSUME IInv, ReadOptions \/ ReadStatus \/ ReadHeaders \/ RejectEntry
                 \/ Converted \/ SetHeaders
    PROVE  IInv'
<1>1. UNCHANGED <<input, map, filled, headers>>
    BY DEF ReadOptions, ReadStatus, ReadHeaders, RejectEntry, Converted, SetHeaders
<1>2. MapIsPrefix' /\ JoinedUpTo(headers, filled)'
    BY <1>1, SameJoin, SamePrefix DEF IInv
<1>3. CASE ReadOptions
    <2>1. TypeOK'
        BY <1>1, <1>3 DEF IInv, ReadOptions, TypeOK, OptionsGiven
    <2>2. Progress'
        BY <1>1, <1>3 DEF IInv, ReadOptions, TypeOK, OptionsGiven, Progress, Absent, Items
    <2> QED BY <1>2, <2>1, <2>2 DEF IInv
<1>4. CASE ReadStatus
    <2>1. TypeOK'
        BY <1>1, <1>4 DEF IInv, ReadStatus, TypeOK
    <2>2. Progress'
        BY <1>1, <1>4 DEF IInv, ReadStatus, TypeOK, Progress
    <2> QED BY <1>2, <2>1, <2>2 DEF IInv
<1>5. CASE ReadHeaders
    <2>1. TypeOK'
        BY <1>1, <1>5 DEF IInv, ReadHeaders, TypeOK
    <2>2. Progress'
        BY <1>1, <1>5 DEF IInv, ReadHeaders, TypeOK, Progress, Absent, Items
    <2> QED BY <1>2, <2>1, <2>2 DEF IInv
<1>6. CASE RejectEntry
    <2>1. TypeOK'
        BY <1>1, <1>6 DEF IInv, RejectEntry, HasNext, TypeOK
    <2>2. Progress'
        BY <1>1, <1>6 DEF IInv, RejectEntry, HasNext, TypeOK, Progress
    <2> QED BY <1>2, <2>1, <2>2 DEF IInv
<1>7. CASE Converted
    <2>1. TypeOK'
        BY <1>1, <1>7 DEF IInv, Converted, TypeOK
    <2>2. Progress'
        BY <1>1, <1>7 DEF IInv, Converted, TypeOK, Progress, Items
    <2> QED BY <1>2, <2>1, <2>2 DEF IInv
<1>8. CASE SetHeaders
    <2>1. TypeOK'
        BY <1>1, <1>8 DEF IInv, SetHeaders, TypeOK
    <2>2. Progress'
        BY <1>1, <1>8 DEF IInv, SetHeaders, TypeOK, Progress, Items
    <2> QED BY <1>2, <2>1, <2>2 DEF IInv
<1> QED BY <1>3, <1>4, <1>5, <1>6, <1>7, <1>8

\* A round of either loop of convert_object_map, for an item that is a pair.
LEMMA PushBackKeepsIInv ==
    ASSUME IInv, HasNext, NEW k, k = Len(map) + 1, ~Malformed(k),
           PushBack(Elems(k)[1], Elems(k)[2])
    PROVE  IInv'
<1>1. /\ map \in Seq(Name \X Value) /\ Len(map) \in Nat
      /\ Len(Items) \in Nat /\ k \in 1 .. Len(Items)
    BY ItemsAreLists DEF IInv, TypeOK, HasNext
<1>2. /\ UNCHANGED <<input, filled, headers, response>>
      /\ Items' = Items
    BY DEF PushBack, Items
<1>3. JoinedUpTo(headers, filled)'
    BY <1>2, SameJoin DEF IInv
<1>4. CASE Symbol \in {Elems(k)[1], Elems(k)[2]}
    <2>1. NoString(k) /\ at' = "abort" /\ map' = map
        BY <1>4 DEF PushBack, NoString
    <2>2. TypeOK'
        BY <1>2, <2>1 DEF IInv, TypeOK
    <2>3. MapIsPrefix'
        BY <1>2, <2>1, SamePrefix DEF IInv
    <2>4. NoString(k)'
        BY <1>2, <2>1 DEF NoString, Malformed, Elems
    <2>5. Progress'
        BY <1>1, <1>2, <2>1, <2>4 DEF IInv, Progress, HasNext
    <2> QED BY <1>3, <2>2, <2>3, <2>5 DEF IInv
<1>5. CASE Symbol \notin {Elems(k)[1], Elems(k)[2]}
    <2> DEFINE pair == <<Elems(k)[1], Elems(k)[2]>>
    <2>1. Proper(k) /\ at' = at /\ map' = Append(map, pair)
        BY <1>5 DEF PushBack, Proper, NoString
    <2>2. pair \in Name \X Value
        BY <1>1, <2>1, ProperItems DEF IInv
    <2> HIDE DEF pair
    <2>3. /\ map' \in Seq(Name \X Value) /\ Len(map') = k
          /\ map'[k] = pair
          /\ \A i \in 1 .. Len(map) : map'[i] = map[i]
        BY <1>1, <2>1, <2>2
    <2>4. TypeOK'
        BY <1>1, <1>2, <2>1, <2>3 DEF IInv, TypeOK
    <2>5. MapIsPrefix'
        <3>1. \A i : Elems(i)' = Elems(i) /\ Proper(i)' = Proper(i)
            BY <1>2 DEF Elems, Proper, NoString, Malformed
        <3>2. \A i \in 1 .. k : Proper(i) /\ map'[i] = <<Elems(i)[1], Elems(i)[2]>>
            BY <1>1, <2>1, <2>3 DEF IInv, MapIsPrefix, pair
        <3> QED BY <1>1, <1>2, <2>3, <3>1, <3>2 DEF MapIsPrefix
    <2>6. Progress'
        BY <1>2, <2>1 DEF IInv, Progress, HasNext
    <2> QED BY <1>3, <2>4, <2>5, <2>6 DEF IInv
<1> QED BY <1>4, <1>5

\* The rounds of both loops, for an entry of an array and for a property.
LEMMA ConvertKeepsIInv == ASSUME IInv, ConvertEntry \/ ConvertProperty PROVE IInv'
<1> DEFINE k == Len(map) + 1
<1>1. CASE ConvertEntry
    <2>1. HasNext /\ ~Malformed(k) /\ PushBack(Elems(k)[1], Elems(k)[2])
        BY <1>1 DEF ConvertEntry, NextItem, Malformed, WrongLength, Elems
    <2> QED BY <2>1, PushBackKeepsIInv
<1>2. CASE ConvertProperty
    <2>1. HasNext /\ ~Malformed(k) /\ PushBack(Elems(k)[1], Elems(k)[2])
        BY <1>2 DEF ConvertProperty, NextItem, Malformed, Elems
    <2> QED BY <2>1, PushBackKeepsIInv
<1> QED BY <1>1, <1>2

\* A round of the loop of init_headers appends the item that comes next.
LEMMA AppendHeaderKeepsIInv == ASSUME IInv, AppendHeader PROVE IInv'
<1> DEFINE k == filled
           h == Appended(headers, Elems(k + 1)[1], Elems(k + 1)[2])
<1>1. /\ k \in 0 .. Len(Items) - 1 /\ k + 1 \in 1 .. Len(map)
      /\ Len(Items) \in Nat /\ Len(map) \in Nat
    BY ItemsAreLists DEF IInv, TypeOK, AppendHeader, MapIsPrefix
<1>2. /\ Proper(k + 1)
      /\ map[k + 1][1] = Elems(k + 1)[1] /\ map[k + 1][2] = Elems(k + 1)[2]
    BY <1>1 DEF IInv, MapIsPrefix
<1>3. /\ headers' = h /\ filled' = k + 1
      /\ UNCHANGED <<input, at, map, response>> /\ at = "append"
    BY <1>2 DEF AppendHeader
<1>4. JoinedUpTo(h, k + 1) /\ DOMAIN h \subseteq Name /\ h \in [DOMAIN h -> Seq(Value)]
    BY <1>1, <1>2, AppendJoins DEF IInv
<1> HIDE DEF h
<1>5. TypeOK'
    BY <1>1, <1>3, <1>4 DEF IInv, TypeOK, Progress
<1>6. MapIsPrefix'
    BY <1>3, SamePrefix DEF IInv
<1>7. Progress'
    BY <1>3 DEF IInv, Progress, Items
<1>8. JoinedUpTo(headers, filled)'
    <2>1. \A i : Elems(i)' = Elems(i)
        BY <1>3 DEF Elems, Items
    <2>2. \A n, j : Given(n, j)' = Given(n, j)
        BY <2>1 DEF Given
    <2> QED BY <1>3, <1>4, <2>1, <2>2 DEF JoinedUpTo
<1> QED BY <1>5, <1>6, <1>7, <1>8 DEF IInv

\* Every step of the constructor keeps the invariant.
LEMMA NextKeepsIInv == IInv /\ [Next]_vars => IInv'
<1>1. ASSUME IInv, UNCHANGED vars PROVE IInv'
    <2>1. MapIsPrefix' /\ JoinedUpTo(headers, filled)'
        BY <1>1, SameJoin, SamePrefix DEF vars, IInv
    <2>2. TypeOK'
        BY <1>1 DEF vars, IInv, TypeOK
    <2>3. Progress'
        BY <1>1 DEF vars, IInv, Progress, Items, Malformed, NoString, Elems
    <2> QED BY <2>1, <2>2, <2>3 DEF IInv
<1>2. ASSUME IInv, Next PROVE IInv'
    BY <1>1, <1>2, MovesKeepIInv, ConvertKeepsIInv, AppendHeaderKeepsIInv
       DEF Next, Ended
<1> QED BY <1>1, <1>2

-----------------------------------------------------------------------------
(* Theorems.                                                               *)

\* The loops do what MapIsPrefix and JoinedUpTo say, wherever they are.
LEMMA Invariance == Spec => []IInv
<1> QED BY InitIInv, NextKeepsIInv, PTL DEF Spec

\* The values of a header are joined in order whatever the script gives.
THEOREM HeadersJoin == Spec => []HeadersAreJoined
<1>1. IInv => HeadersAreJoined
    <2> SUFFICES ASSUME IInv, at = "ok" PROVE JoinedUpTo(response.headers, Len(Items))
        BY DEF HeadersAreJoined
    <2>1. response.headers = headers /\ filled = Len(Items)
        BY DEF IInv, Progress
    <2> QED BY <2>1 DEF IInv
<1> QED BY <1>1, Invariance, PTL

\* The first entry that is no pair decides, and headers are taken all or none.
THEOREM PairsOnly == Spec => []OnlyPairsAreTaken
<1>1. IInv => OnlyPairsAreTaken
    <2> SUFFICES ASSUME IInv PROVE OnlyPairsAreTaken
        OBVIOUS
    <2>1. /\ DOMAIN Items = 1 .. Len(Items) /\ Len(Items) \in Nat /\ Len(map) \in Nat
          /\ \A i \in 1 .. Len(map) : Proper(i)
        BY ItemsAreLists DEF IInv, TypeOK, MapIsPrefix
    <2>2. at = "ok" => Len(map) = Len(Items)
        BY DEF IInv, Progress
    <2>3. at = "throws" => response.headers = NoHeaders
        BY DEF IInv, Progress
    <2>4. ASSUME at \in {"ok", "throws", "abort"}, input.status # "number",
                 NEW i \in DOMAIN Items, Malformed(i), \A j \in 1 .. i - 1 : Proper(j)
          PROVE  at = "throws"
        <3>1. i \notin 1 .. Len(map)
            BY <2>1, <2>4 DEF Proper
        <3>2. ASSUME at = "abort" PROVE FALSE
            <4>1. NoString(Len(map) + 1)
                BY <2>4, <3>2 DEF IInv, Progress
            <4>2. Len(map) + 1 # i /\ ~Proper(Len(map) + 1)
                BY <2>4, <4>1 DEF NoString, Proper
            <4> QED BY <2>1, <2>4, <3>1, <4>2
        <3> QED BY <2>1, <2>2, <2>4, <3>1, <3>2
    <2> QED BY <2>1, <2>2, <2>3, <2>4 DEF OnlyPairsAreTaken
<1> QED BY <1>1, Invariance, PTL
=============================================================================
