-------------------------- MODULE Settings_proofs --------------------------
(***************************************************************************)
(* Theorems about Settings, for every set of sections, keys and values,    *)
(* whatever bucket a key falls into, and for files of any length.          *)
(***************************************************************************)
EXTENDS Settings, SequenceTheorems, WellFoundedInduction, TLAPS

-----------------------------------------------------------------------------
(* Searching: the loops of get_pair and get_section *)

LEMMA FirstOf ==
    ASSUME NEW S \in SUBSET (Nat \ {0})
    PROVE  /\ First(S) = 0 <=> S = {}
           /\ S # {} => First(S) \in S /\ \A k \in S : First(S) <= k
<1>1. CASE S = {}
  BY <1>1 DEF First
<1>2. CASE S # {}
  <2>1. PICK m \in S : \A k \in S : <<k, m>> \notin OpToRel(<, Nat)
    <3>1. S \subseteq Nat
      OBVIOUS
    <3> QED BY <1>2, <3>1, WFMin, NatLessThanWellFounded, Zenon
  <2>2. \A k \in S : ~(k < m)
    BY <2>1, Zenon DEF OpToRel
  <2>3. \A k \in S : m <= k
    BY <2>2, SMT
  <2>4. First(S) \in S /\ \A k \in S : First(S) <= k
    BY <1>2, <2>3, Zenon DEF First
  <2> QED BY <1>2, <2>4
<1> QED BY <1>1, <1>2

LEMMA FirstIs ==
    ASSUME NEW S \in SUBSET (Nat \ {0}), NEW m \in S, \A k \in S : m <= k
    PROVE  First(S) = m
<1>1. \A i \in S : (\A j \in S : i <= j) => i = m
  OBVIOUS
<1>2. First(S) = CHOOSE i \in S : \A j \in S : i <= j
  BY Zenon DEF First
<1> QED BY <1>1, <1>2, Zenon

-----------------------------------------------------------------------------
(* The string map *)

LEMMA BucketOf == \A k \in Keys : bucket_of[k] \in Buckets
  BY BucketAssumption

\* The places of a key in the chain of its bucket.
Places(map, k) == {i \in DOMAIN map[bucket_of[k]] : map[bucket_of[k]][i].key = k}

LEMMA PairPlaces ==
    ASSUME NEW map \in Maps, NEW k \in Keys
    PROVE  /\ map[bucket_of[k]] \in Seq(Pairs)
           /\ Places(map, k) \in SUBSET (Nat \ {0})
           /\ get_pair(map, k) = First(Places(map, k))
<1>1. map[bucket_of[k]] \in Seq(Pairs)
  BY BucketOf DEF Maps
<1>2. DOMAIN map[bucket_of[k]] \in SUBSET (Nat \ {0})
  BY <1>1
<1>3. get_pair(map, k) = First(Places(map, k))
  BY Zenon DEF get_pair, Places
<1> QED BY <1>1, <1>2, <1>3 DEF Places

LEMMA GetPair ==
    ASSUME NEW map \in Maps, NEW k \in Keys, get_pair(map, k) # 0
    PROVE  /\ get_pair(map, k) \in DOMAIN map[bucket_of[k]]
           /\ map[bucket_of[k]][get_pair(map, k)].key = k
<1>1. Places(map, k) \in SUBSET (Nat \ {0}) /\ get_pair(map, k) = First(Places(map, k))
  BY PairPlaces
<1>2. get_pair(map, k) \in Places(map, k)
  BY <1>1, FirstOf
<1> QED BY <1>2, Zenon DEF Places

\* A pair keeps its key, gets the value, and the place fits it if it fitted the
\* value before: sm_put may compare the lengths of the values.
LEMMA Replaced ==
    ASSUME NEW pair \in Pairs, NEW v \in Values
    PROVE  /\ replaced(pair, v) \in Pairs
           /\ replaced(pair, v).key = pair.key
           /\ replaced(pair, v).value = v
           /\ strlen[pair.value] <= pair.space => strlen[v] <= replaced(pair, v).space
<1>1. strlen[v] \in Nat /\ strlen[pair.value] \in Nat
  BY LengthAssumption DEF Pairs
<1>2. replaced(pair, v) \in Pairs
  BY <1>1 DEF Pairs, replaced
<1>3. replaced(pair, v).key = pair.key /\ replaced(pair, v).value = v
  BY DEF Pairs, replaced
<1>4. replaced(pair, v).space = IF grows(pair, v) THEN strlen[v] ELSE pair.space
  BY DEF Pairs, replaced
<1>5. pair.space \in Nat /\ (grows(pair, v) <=> strlen[pair.value] < strlen[v])
  BY DEF Pairs, grows
<1> QED BY <1>1, <1>2, <1>3, <1>4, <1>5

Fits(map) ==
    \A b \in Buckets : \A j \in DOMAIN map[b] : strlen[map[b][j].value] <= map[b][j].space

\* What sm_put puts is what sm_get gets, and other keys keep their values, also
\* those in the same bucket.
LEMMA PutReplaces ==
    ASSUME NEW map \in Maps, NEW k \in Keys, NEW v \in Values, get_pair(map, k) # 0
    PROVE  /\ sm_put(map, k, v) \in Maps
           /\ \A q \in Keys : sm_get(sm_put(map, k, v), q) = IF q = k THEN v ELSE sm_get(map, q)
           /\ Fits(map) => Fits(sm_put(map, k, v))
           /\ Tidy(map) => Tidy(sm_put(map, k, v))
<1> DEFINE b == bucket_of[k]
<1> DEFINE i == get_pair(map, k)
<1> DEFINE new == sm_put(map, k, v)
<1> DEFINE pair == replaced(map[b][i], v)
<1>1. /\ b \in Buckets /\ map[b] \in Seq(Pairs)
      /\ i \in DOMAIN map[b] /\ map[b][i].key = k
  BY BucketOf, PairPlaces, GetPair
<1>2. map[b][i] \in Pairs
  BY <1>1
<1>3. /\ pair \in Pairs /\ pair.key = k /\ pair.value = v
      /\ strlen[map[b][i].value] <= map[b][i].space => strlen[v] <= pair.space
  BY <1>1, <1>2, Replaced
<1>4. new = [map EXCEPT ![b] = [map[b] EXCEPT ![i] = pair]]
  BY DEF sm_put
<1> HIDE DEF b, i, new, pair
<1>5. /\ new[b] = [map[b] EXCEPT ![i] = pair]
      /\ \A c \in Buckets : c # b => new[c] = map[c]
      /\ DOMAIN new = Buckets
      /\ new = [c \in Buckets |-> new[c]]
  BY <1>1, <1>4 DEF Maps
<1>6. /\ new[b] \in Seq(Pairs) /\ DOMAIN new[b] = DOMAIN map[b]
      /\ \A j \in DOMAIN map[b] : new[b][j] = IF j = i THEN pair ELSE map[b][j]
  BY <1>1, <1>3, <1>5
<1>7. new \in Maps
  <2>1. \A c \in Buckets : new[c] \in Seq(Pairs)
    BY <1>5, <1>6 DEF Maps
  <2> QED BY <1>5, <2>1 DEF Maps
<1>8. ASSUME NEW q \in Keys
      PROVE  sm_get(new, q) = IF q = k THEN v ELSE sm_get(map, q)
  <2> DEFINE c == bucket_of[q]
  <2>1. c \in Buckets
    BY BucketOf
  <2>2. /\ DOMAIN new[c] = DOMAIN map[c]
        /\ \A j \in DOMAIN map[c] : new[c][j].key = map[c][j].key
    BY <1>1, <1>3, <1>5, <1>6, <2>1
  <2>3. Places(new, q) = Places(map, q)
    BY <2>2 DEF Places
  <2>4. get_pair(new, q) = get_pair(map, q)
    BY <1>7, <2>3, PairPlaces
  <2>5. CASE q = k
    <3>1. sm_get(new, k) = new[b][i].value
      BY <2>4, <2>5 DEF sm_get, b, i
    <3> QED BY <1>1, <1>3, <1>6, <2>5, <3>1
  <2>6. CASE q # k /\ get_pair(map, q) = 0
    BY <2>4, <2>6 DEF sm_get
  <2>7. CASE q # k /\ get_pair(map, q) # 0
    <3>1. get_pair(map, q) \in DOMAIN map[c] /\ map[c][get_pair(map, q)].key = q
      BY <2>7, GetPair
    <3>2. c = b => get_pair(map, q) # i
      BY <1>1, <2>7, <3>1
    <3>3. new[c][get_pair(map, q)] = map[c][get_pair(map, q)]
      BY <1>5, <1>6, <2>1, <3>1, <3>2
    <3> QED BY <2>4, <2>7, <3>3 DEF sm_get
  <2> QED BY <2>5, <2>6, <2>7
<1>9. Fits(map) => Fits(new)
  BY <1>1, <1>3, <1>5, <1>6 DEF Fits
<1>10. Tidy(map) => Tidy(new)
  <2>1. \A c \in Buckets : /\ DOMAIN new[c] = DOMAIN map[c]
                          /\ \A j \in DOMAIN map[c] : new[c][j].key = map[c][j].key
    BY <1>1, <1>3, <1>5, <1>6
  <2> QED BY <2>1 DEF Tidy
<1> QED BY <1>7, <1>8, <1>9, <1>10 DEF new

LEMMA PutAppends ==
    ASSUME NEW map \in Maps, NEW k \in Keys, NEW v \in Values, get_pair(map, k) = 0
    PROVE  /\ sm_put(map, k, v) \in Maps
           /\ \A q \in Keys : sm_get(sm_put(map, k, v), q) = IF q = k THEN v ELSE sm_get(map, q)
           /\ Fits(map) => Fits(sm_put(map, k, v))
           /\ Tidy(map) => Tidy(sm_put(map, k, v))
<1> DEFINE b == bucket_of[k]
<1> DEFINE new == sm_put(map, k, v)
<1> DEFINE pair == [key |-> k, value |-> v, space |-> strlen[v]]
<1> DEFINE i == Len(map[b]) + 1
<1>1. b \in Buckets /\ map[b] \in Seq(Pairs) /\ Places(map, k) = {}
  BY BucketOf, PairPlaces, FirstOf
<1>2. pair \in Pairs /\ pair.key = k /\ pair.value = v /\ strlen[v] <= pair.space
  BY LengthAssumption DEF Pairs
<1>3. new = [map EXCEPT ![b] = Append(map[b], pair)]
  BY DEF sm_put
<1>4. b = bucket_of[k] /\ i = Len(map[b]) + 1
  OBVIOUS
<1> HIDE DEF b, new, pair, i
<1>5. /\ new[b] = Append(map[b], pair)
      /\ \A c \in Buckets : c # b => new[c] = map[c]
      /\ DOMAIN new = Buckets
      /\ new = [c \in Buckets |-> new[c]]
  BY <1>1, <1>3 DEF Maps
<1>6. /\ new[b] \in Seq(Pairs) /\ DOMAIN new[b] = DOMAIN map[b] \cup {i}
      /\ new[b][i] = pair /\ i \in Nat \ {0} /\ i \notin DOMAIN map[b]
      /\ \A j \in DOMAIN map[b] : new[b][j] = map[b][j]
  BY <1>1, <1>2, <1>4, <1>5
<1>7. new \in Maps
  <2>1. \A c \in Buckets : new[c] \in Seq(Pairs)
    BY <1>5, <1>6 DEF Maps
  <2> QED BY <1>5, <2>1 DEF Maps
<1>8. ASSUME NEW q \in Keys
      PROVE  sm_get(new, q) = IF q = k THEN v ELSE sm_get(map, q)
  <2> DEFINE c == bucket_of[q]
  <2>1. c \in Buckets
    BY BucketOf
  <2>2. CASE q = k
    <3>1. Places(new, k) = {i}
      BY <1>1, <1>2, <1>4, <1>6 DEF Places
    <3>2. get_pair(new, k) = First({i})
      BY <1>7, <3>1, PairPlaces
    <3>3. {i} \in SUBSET (Nat \ {0}) /\ i \in {i} /\ \A j \in {i} : i <= j
      BY <1>6
    <3>4. First({i}) = i
      BY <3>3, FirstIs
    <3>5. sm_get(new, k) = new[b][i].value
      BY <1>4, <1>6, <3>2, <3>4 DEF sm_get
    <3> QED BY <1>2, <1>6, <2>2, <3>5
  <2>3. CASE q # k
    <3>1. Places(new, q) = Places(map, q)
      <4>1. CASE c # b
        BY <1>5, <2>1, <4>1 DEF Places
      <4>2. CASE c = b
        BY <1>2, <1>6, <2>3, <4>2 DEF Places
      <4> QED BY <4>1, <4>2
    <3>2. get_pair(new, q) = get_pair(map, q)
      BY <1>7, <3>1, PairPlaces
    <3>3. CASE get_pair(map, q) = 0
      BY <2>3, <3>2, <3>3 DEF sm_get
    <3>4. CASE get_pair(map, q) # 0
      <4>1. get_pair(map, q) \in DOMAIN map[c]
        BY <3>4, GetPair
      <4>2. new[c][get_pair(map, q)] = map[c][get_pair(map, q)]
        BY <1>5, <1>6, <2>1, <4>1
      <4> QED BY <2>3, <3>2, <3>4, <4>2 DEF sm_get
    <3> QED BY <3>3, <3>4
  <2> QED BY <2>2, <2>3
<1>9. Fits(map) => Fits(new)
  <2>1. ASSUME Fits(map), NEW c \in Buckets, NEW j \in DOMAIN new[c]
        PROVE  strlen[new[c][j].value] <= new[c][j].space
    <3>1. CASE c # b
      BY <1>5, <2>1, <3>1 DEF Fits
    <3>2. CASE c = b /\ j = i
      BY <1>2, <1>6, <3>2
    <3>3. CASE c = b /\ j # i
      BY <1>1, <1>6, <2>1, <3>3 DEF Fits
    <3> QED BY <3>1, <3>2, <3>3
  <2> QED BY <2>1 DEF Fits
<1>10. Tidy(map) => Tidy(new)
  <2> SUFFICES ASSUME Tidy(map), NEW c \in Buckets, NEW j \in DOMAIN new[c], NEW l \in DOMAIN new[c]
               PROVE  /\ bucket_of[new[c][j].key] = c
                      /\ new[c][j].key = new[c][l].key => j = l
    BY DEF Tidy
  <2>1. \A n \in DOMAIN map[c] : bucket_of[map[c][n].key] = c
    BY DEF Tidy
  <2>2. \A m, n \in DOMAIN map[c] : map[c][m].key = map[c][n].key => m = n
    BY DEF Tidy
  <2>3. CASE c # b
    BY <1>5, <2>1, <2>2, <2>3
  <2>4. CASE c = b
    <3>1. \A n \in DOMAIN map[b] : map[b][n].key # k
      BY <1>1, <1>4 DEF Places
    <3> QED BY <1>2, <1>4, <1>6, <2>1, <2>2, <2>4, <3>1
  <2> QED BY <2>3, <2>4
<1> QED BY <1>7, <1>8, <1>9, <1>10 DEF new

LEMMA Put ==
    ASSUME NEW map \in Maps, NEW k \in Keys, NEW v \in Values
    PROVE  /\ sm_put(map, k, v) \in Maps
           /\ \A q \in Keys : sm_get(sm_put(map, k, v), q) = IF q = k THEN v ELSE sm_get(map, q)
           /\ Fits(map) => Fits(sm_put(map, k, v))
           /\ Tidy(map) => Tidy(sm_put(map, k, v))
  BY PutReplaces, PutAppends

\* A new map is empty.
LEMMA New ==
    /\ sm_new \in Maps /\ Fits(sm_new) /\ Tidy(sm_new)
    /\ \A k \in Keys : sm_get(sm_new, k) = None
<1>1. sm_new \in Maps
  BY DEF sm_new, Maps
<1>2. \A b \in Buckets : sm_new[b] = <<>> /\ DOMAIN sm_new[b] = {}
  BY DEF sm_new
<1>3. Fits(sm_new)
  BY <1>2, Zenon DEF Fits
<1>4. Tidy(sm_new)
  BY <1>2, Zenon DEF Tidy
<1>5. ASSUME NEW k \in Keys PROVE sm_get(sm_new, k) = None
  <2>1. Places(sm_new, k) = {}
    BY <1>2, BucketOf, Zenon DEF Places
  <2>2. get_pair(sm_new, k) = 0
    BY <1>1, <2>1, PairPlaces, FirstOf
  <2> QED BY <2>2 DEF sm_get
<1> QED BY <1>1, <1>3, <1>4, <1>5

-----------------------------------------------------------------------------
(* The array of sections *)

Named(s) == {i \in DOMAIN sections : sections[i].name = s}

LEMMA SectionPlaces ==
    ASSUME TypeOK, NEW s
    PROVE  /\ Named(s) \in SUBSET (Nat \ {0})
           /\ get_section(s) = First(Named(s))
           /\ get_section(s) = 0 <=> Named(s) = {}
           /\ get_section(s) # 0 => get_section(s) \in DOMAIN sections /\ sections[get_section(s)].name = s
<1>1. Named(s) \in SUBSET (Nat \ {0})
  BY DEF TypeOK, Named
<1>2. get_section(s) = First(Named(s))
  BY Zenon DEF get_section, Named
<1>3. get_section(s) # 0 => get_section(s) \in Named(s)
  BY <1>1, <1>2, FirstOf
<1> QED BY <1>1, <1>2, <1>3, FirstOf DEF Named

\* A section that is added is found if there was none of its name.
LEMMA Appended ==
    ASSUME TypeOK, TypeOK', NEW r \in SectionRecords, sections' = Append(sections, r),
           NEW s
    PROVE  get_section(s)' = IF get_section(s) # 0 THEN get_section(s)
                             ELSE IF r.name = s THEN Len(sections) + 1 ELSE 0
<1> DEFINE i == Len(sections) + 1
<1>1. /\ DOMAIN sections' = DOMAIN sections \cup {i} /\ sections'[i] = r
      /\ i \in Nat \ {0} /\ \A j \in DOMAIN sections : j < i /\ sections'[j] = sections[j]
  BY DEF TypeOK
<1>2. /\ Named(s)' \in SUBSET (Nat \ {0})
      /\ get_section(s)' = First(Named(s)')
  <2>1. Named(s)' \in SUBSET (Nat \ {0})
    BY DEF TypeOK, Named
  <2>2. get_section(s)' = First(Named(s)')
    BY Zenon DEF get_section, Named
  <2> QED BY <2>1, <2>2
<1> HIDE DEF i
<1>3. Named(s)' = Named(s) \cup (IF r.name = s THEN {i} ELSE {})
  BY <1>1 DEF Named
<1>4. CASE Named(s) = {}
  <2>1. CASE r.name = s
    <3>1. First({i}) = i
      <4>1. {i} \in SUBSET (Nat \ {0}) /\ i \in {i} /\ \A j \in {i} : i <= j
        BY <1>1
      <4> QED BY <4>1, FirstIs
    <3>2. Named(s)' = {i}
      BY <1>3, <1>4, <2>1
    <3> QED BY <1>2, <1>4, <2>1, <3>1, <3>2, SectionPlaces DEF i
  <2>2. CASE r.name # s
    BY <1>2, <1>3, <1>4, <2>2, SectionPlaces, FirstOf
  <2> QED BY <2>1, <2>2
<1>5. CASE Named(s) # {}
  <2> DEFINE m == get_section(s)
  <2>1. m \in Named(s) /\ m # 0 /\ \A j \in Named(s) : m <= j
    <3>1. Named(s) \in SUBSET (Nat \ {0}) /\ m = First(Named(s))
      BY SectionPlaces
    <3> QED BY <1>5, <3>1, FirstOf
  <2>2. m \in Named(s)' /\ \A j \in Named(s)' : m <= j
    BY <1>1, <1>3, <2>1, SectionPlaces DEF Named
  <2> QED BY <1>2, <2>1, <2>2, FirstIs
<1> QED BY <1>4, <1>5 DEF i

\* What can be got after a section was added.
LEMMA AppendedGet ==
    ASSUME TypeOK, TypeOK', NEW r \in SectionRecords, sections' = Append(sections, r),
           NEW s, NEW k
    PROVE  settings_get(s, k)' = IF get_section(s) = 0 /\ r.name = s
                                 THEN sm_get(r.map, k) ELSE settings_get(s, k)
<1>1. \A j \in DOMAIN sections : sections'[j] = sections[j]
  BY DEF TypeOK
<1>2. sections'[Len(sections) + 1] = r /\ Len(sections) + 1 # 0
  BY DEF TypeOK
<1>3. CASE get_section(s) # 0
  <2>1. get_section(s)' = get_section(s) /\ get_section(s) \in DOMAIN sections
    BY <1>3, Appended, SectionPlaces
  <2> QED BY <1>1, <1>3, <2>1 DEF settings_get
<1>4. CASE get_section(s) = 0 /\ r.name = s
  <2>1. get_section(s)' = Len(sections) + 1
    BY <1>4, Appended
  <2> QED BY <1>2, <1>4, <2>1 DEF settings_get
<1>5. CASE get_section(s) = 0 /\ r.name # s
  <2>1. get_section(s)' = 0
    BY <1>5, Appended
  <2> QED BY <1>5, <2>1 DEF settings_get
<1> QED BY <1>3, <1>4, <1>5

\* The map of a section changes, and no other section.
LEMMA MapChanged ==
    ASSUME TypeOK, NEW i \in DOMAIN sections, NEW m \in Maps,
           sections' = [sections EXCEPT ![i].map = m]
    PROVE  /\ sections' \in Seq(SectionRecords) /\ DOMAIN sections' = DOMAIN sections
           /\ \A j \in DOMAIN sections : sections'[j].name = sections[j].name
           /\ \A j \in DOMAIN sections : sections'[j].map = IF j = i THEN m ELSE sections[j].map
<1>1. sections[i] \in SectionRecords
  BY DEF TypeOK
<1> DEFINE r == [sections[i] EXCEPT !.map = m]
<1>2. r \in SectionRecords /\ r.name = sections[i].name /\ r.map = m
  BY <1>1 DEF SectionRecords
<1>3. sections' = [sections EXCEPT ![i] = r]
  OBVIOUS
<1> HIDE DEF r
<1> QED BY <1>2, <1>3 DEF TypeOK

LEMMA MapChangedGet ==
    ASSUME TypeOK, NEW c, get_section(c) # 0, NEW m \in Maps,
           sections' = [sections EXCEPT ![get_section(c)].map = m],
           NEW s, NEW k
    PROVE  settings_get(s, k)' = IF s = c THEN sm_get(m, k) ELSE settings_get(s, k)
<1> DEFINE i == get_section(c)
<1>1. i \in DOMAIN sections /\ sections[i].name = c
  BY SectionPlaces
<1>2. /\ DOMAIN sections' = DOMAIN sections
      /\ \A j \in DOMAIN sections : sections'[j].name = sections[j].name
      /\ \A j \in DOMAIN sections : sections'[j].map = IF j = i THEN m ELSE sections[j].map
  BY <1>1, MapChanged
<1>3. get_section(s)' = get_section(s)
  <2>1. {j \in DOMAIN sections' : sections'[j].name = s} = {j \in DOMAIN sections : sections[j].name = s}
    BY <1>2
  <2> QED BY <2>1, Zenon DEF get_section
<1>4. CASE s = c
  <2>1. sections'[get_section(s)'].map = m /\ get_section(s)' # 0
    BY <1>1, <1>2, <1>3, <1>4
  <2> QED BY <1>4, <2>1 DEF settings_get
<1>5. CASE s # c /\ get_section(s) = 0
  BY <1>3, <1>5 DEF settings_get
<1>6. CASE s # c /\ get_section(s) # 0
  <2>1. get_section(s) \in DOMAIN sections /\ get_section(s) # i
    BY <1>1, <1>6, SectionPlaces
  <2>2. sections'[get_section(s)].map = sections[get_section(s)].map
    BY <1>2, <2>1
  <2> QED BY <1>3, <1>6, <2>2 DEF settings_get
<1> QED BY <1>4, <1>5, <1>6

-----------------------------------------------------------------------------
(* The steps. settings_set sets one key, or fails and sets none. *)

LEMMA LineTypes ==
    /\ BlankLine \in Lines /\ BadLine \in Lines
    /\ \A s \in Sections \cup {None} : SectionLine(s) \in Lines
    /\ \A k \in Keys, v \in Values : PairLine(k, v) \in Lines
  BY DEF Lines

LEMMA ReadType ==
    ASSUME TypeOK, NEW line \in Lines, Read(line)
    PROVE  read' \in Seq(Lines) /\ Len(read') <= MaxLines
  BY LinesAssumption DEF TypeOK, Read

\* The parts of the invariant that say nothing of what was read.
SafeInv == TypeOK /\ SectionsOK /\ ValuesFit /\ NoUseAfterFree

LEMMA FitsAll ==
    ValuesFit <=> \A i \in DOMAIN sections : sections[i].map # None => Fits(sections[i].map)
  BY Zenon DEF ValuesFit, Fits

LEMMA SetInSectionStep ==
    ASSUME SafeInv, NEW k \in Keys, NEW v \in Values, SetInSection(k, v)
    PROVE  /\ SafeInv'
           /\ \A s \in Sections, q \in Keys : settings_get(s, q)' =
                IF s = current_section /\ q = k THEN v ELSE settings_get(s, q)
<1> DEFINE c == current_section
<1> DEFINE i == get_section(c)
<1> DEFINE m == sm_put(sections[i].map, k, v)
<1> USE DEF SafeInv
<1>1. /\ c \in Sections /\ c # None /\ i # 0 /\ Read(PairLine(k, v))
      /\ sections' = [sections EXCEPT ![i].map = m]
      /\ UNCHANGED <<pc, current_section, heap>>
  BY DEF SetInSection, TypeOK
<1>2. i \in DOMAIN sections /\ sections[i].name = c
  BY <1>1, SectionPlaces
<1>3. sections[i].map \in Maps
  BY <1>1, <1>2 DEF SectionsOK
<1>4. /\ m \in Maps
      /\ \A q \in Keys : sm_get(m, q) = IF q = k THEN v ELSE sm_get(sections[i].map, q)
      /\ Fits(sections[i].map) => Fits(m)
  BY <1>3, Put
<1> HIDE DEF m
<1>5. /\ sections' \in Seq(SectionRecords) /\ DOMAIN sections' = DOMAIN sections
      /\ \A j \in DOMAIN sections : sections'[j].name = sections[j].name
      /\ \A j \in DOMAIN sections : sections'[j].map = IF j = i THEN m ELSE sections[j].map
  BY <1>1, <1>2, <1>4, MapChanged
<1>6. TypeOK'
  <2>1. read' \in Seq(Lines) /\ Len(read') <= MaxLines
    BY <1>1, LineTypes, ReadType
  <2> QED BY <1>1, <1>5, <2>1 DEF TypeOK
<1>7. SectionsOK'
  BY <1>4, <1>5 DEF SectionsOK
<1>8. m # None /\ sections[i].map # None
  BY <1>3, <1>4, NoneAssumption
<1>9. ValuesFit'
  <2>1. \A j \in DOMAIN sections : sections[j].map # None => Fits(sections[j].map)
    BY FitsAll
  <2>2. \A j \in DOMAIN sections' : sections'[j].map # None => Fits(sections'[j].map)
    BY <1>2, <1>4, <1>5, <1>8, <2>1
  <2> QED BY <2>2, Zenon DEF ValuesFit, Fits
<1>10. NoUseAfterFree'
  BY <1>1, <1>2, <1>5, <1>8 DEF NoUseAfterFree
<1>11. ASSUME NEW s \in Sections, NEW q \in Keys
       PROVE  settings_get(s, q)' = IF s = c /\ q = k THEN v ELSE settings_get(s, q)
  <2>1. settings_get(s, q)' = IF s = c THEN sm_get(m, q) ELSE settings_get(s, q)
    BY <1>1, <1>4, MapChangedGet
  <2>2. settings_get(c, q) = sm_get(sections[i].map, q)
    BY <1>1 DEF settings_get
  <2> QED BY <1>4, <2>1, <2>2
<1> QED BY <1>6, <1>7, <1>9, <1>10, <1>11

\* A section that is added leaves the others alone.
LEMMA NewSectionStep ==
    ASSUME SafeInv, NEW map \in Maps, Fits(map), current_section \in Sections,
           get_section(current_section) = 0, sections' = NewSection(map),
           NEW line \in Lines, Read(line),
           UNCHANGED <<current_section, heap>>, pc' \in {"reading", "failed"}
    PROVE  /\ SafeInv'
           /\ \A s \in Sections, q \in Keys : settings_get(s, q)' =
                IF s = current_section THEN sm_get(map, q) ELSE settings_get(s, q)
<1> DEFINE r == [name |-> current_section, map |-> map]
<1> USE DEF SafeInv
<1>1. /\ r \in SectionRecords /\ r.name = current_section /\ r.map = map
      /\ sections' = Append(sections, r)
  BY DEF SectionRecords, NewSection
<1> HIDE DEF r
<1>2. /\ sections' \in Seq(SectionRecords)
      /\ DOMAIN sections' = DOMAIN sections \cup {Len(sections) + 1}
      /\ \A j \in DOMAIN sections : sections'[j] = sections[j]
      /\ sections'[Len(sections) + 1] = r
  BY <1>1 DEF TypeOK
<1>3. TypeOK'
  BY <1>2, ReadType DEF TypeOK
<1>4. SectionsOK'
  BY <1>1, <1>2 DEF SectionsOK
<1>5. ValuesFit'
  <2>1. \A j \in DOMAIN sections : sections[j].map # None => Fits(sections[j].map)
    BY FitsAll
  <2>2. \A j \in DOMAIN sections' : sections'[j].map # None => Fits(sections'[j].map)
    BY <1>1, <1>2, <2>1
  <2> QED BY <2>2, Zenon DEF ValuesFit, Fits
<1>6. NoUseAfterFree'
  <2>1. pc = "reading" /\ heap = "ok" /\ \A j \in DOMAIN sections : sections[j].map # None
    BY DEF Read, NoUseAfterFree, TypeOK
  <2>2. map # None
    BY NoneAssumption
  <2> QED BY <1>1, <1>2, <2>1, <2>2 DEF NoUseAfterFree
<1>7. ASSUME NEW s \in Sections, NEW q \in Keys
      PROVE  settings_get(s, q)' = IF s = current_section THEN sm_get(map, q) ELSE settings_get(s, q)
  BY <1>1, <1>3, AppendedGet
<1> QED BY <1>3, <1>4, <1>5, <1>6, <1>7

LEMMA SetInNewSectionStep ==
    ASSUME SafeInv, NEW k \in Keys, NEW v \in Values, SetInNewSection(k, v)
    PROVE  /\ SafeInv'
           /\ \A s \in Sections, q \in Keys : settings_get(s, q)' =
                IF s = current_section /\ q = k THEN v ELSE settings_get(s, q)
<1> DEFINE map == sm_put(sm_new, k, v)
<1>1. /\ map \in Maps /\ Fits(map)
      /\ \A q \in Keys : sm_get(map, q) = IF q = k THEN v ELSE None
  BY New, Put
<1>2. /\ current_section \in Sections /\ get_section(current_section) = 0
      /\ sections' = NewSection(map) /\ Read(PairLine(k, v))
      /\ UNCHANGED <<pc, current_section, heap>>
      /\ PairLine(k, v) \in Lines /\ pc = "reading"
  BY LineTypes DEF SetInNewSection, SafeInv, TypeOK, Read
<1> HIDE DEF map
<1>3. /\ SafeInv'
      /\ \A s \in Sections, q \in Keys : settings_get(s, q)' =
           IF s = current_section THEN sm_get(map, q) ELSE settings_get(s, q)
  BY <1>1, <1>2, NewSectionStep
<1>4. \A q \in Keys : settings_get(current_section, q) = None
  BY <1>2 DEF settings_get
<1> QED BY <1>1, <1>3, <1>4

\* A step that does not touch the sections, and a line read in it.
LEMMA LineStep ==
    ASSUME SafeInv, NEW line \in Lines, Read(line), UNCHANGED <<sections, heap>>,
           pc' \in {"reading", "failed"}, current_section' \in Sections \cup {None}
    PROVE  /\ SafeInv'
           /\ \A s \in Sections, q \in Keys : settings_get(s, q)' = settings_get(s, q)
<1>1. TypeOK'
  BY ReadType DEF SafeInv, TypeOK
<1>2. SectionsOK' /\ ValuesFit'
  BY DEF SafeInv, SectionsOK, ValuesFit
<1>3. NoUseAfterFree'
  BY DEF SafeInv, NoUseAfterFree, Read
<1>4. \A s \in Sections, q \in Keys : settings_get(s, q)' = settings_get(s, q)
  BY DEF settings_get, get_section
<1> QED BY <1>1, <1>2, <1>3, <1>4 DEF SafeInv

LEMMA CreateSectionFailsStep ==
    ASSUME SafeInv, NEW k \in Keys, NEW v \in Values, CreateSectionFails(k, v)
    PROVE  /\ SafeInv' /\ pc' \in {"failed", "aborted"}
           /\ \A s \in Sections, q \in Keys : settings_get(s, q)' = settings_get(s, q)
<1> DEFINE r == [name |-> None, map |-> None]
<1> USE DEF SafeInv
<1>1. /\ r \in SectionRecords /\ r.name = None /\ r.map = None
      /\ sections' = Append(sections, r)
      /\ pc' \in {"failed", "aborted"} /\ heap' \in {"dangling", "invalid"}
      /\ current_section' = current_section /\ Read(PairLine(k, v))
  BY DEF SectionRecords, CreateSectionFails, Fail
<1> HIDE DEF r
<1>2. /\ sections' \in Seq(SectionRecords)
      /\ DOMAIN sections' = DOMAIN sections \cup {Len(sections) + 1}
      /\ \A j \in DOMAIN sections : sections'[j] = sections[j]
      /\ sections'[Len(sections) + 1] = r
  BY <1>1 DEF TypeOK
<1>3. TypeOK'
  <2>1. read' \in Seq(Lines) /\ Len(read') <= MaxLines
    BY <1>1, LineTypes, ReadType
  <2> QED BY <1>1, <1>2, <2>1 DEF TypeOK
<1>4. SectionsOK'
  BY <1>1, <1>2 DEF SectionsOK
<1>5. ValuesFit'
  <2>1. \A j \in DOMAIN sections : sections[j].map # None => Fits(sections[j].map)
    BY FitsAll
  <2>2. \A j \in DOMAIN sections' : sections'[j].map # None => Fits(sections'[j].map)
    BY <1>1, <1>2, <2>1
  <2> QED BY <2>2, Zenon DEF ValuesFit, Fits
<1>6. NoUseAfterFree'
  BY <1>1 DEF NoUseAfterFree
<1>7. ASSUME NEW s \in Sections, NEW q \in Keys
      PROVE  settings_get(s, q)' = settings_get(s, q)
  BY <1>1, <1>3, AppendedGet, NoneAssumption
<1> QED BY <1>1, <1>3, <1>4, <1>5, <1>6, <1>7

-----------------------------------------------------------------------------
(* Names and keys have one place *)

LEMMA TidyAppended ==
    ASSUME TypeOK, TidyOK, NEW r \in SectionRecords, sections' = Append(sections, r),
           r.name = None => r.map = None,
           r.name # None => get_section(r.name) = 0,
           r.map # None => Tidy(r.map)
    PROVE  TidyOK'
<1>1. /\ DOMAIN sections' = DOMAIN sections \cup {Len(sections) + 1}
      /\ \A j \in DOMAIN sections : sections'[j] = sections[j]
      /\ sections'[Len(sections) + 1] = r
  BY DEF TypeOK
<1>2. r.name # None => \A j \in DOMAIN sections : sections[j].name # r.name
  BY SectionPlaces DEF Named
<1> DEFINE n == Len(sections) + 1
<1> HIDE DEF n
<1>3. ASSUME NEW i \in DOMAIN sections'
      PROVE  IF sections'[i].name = None THEN sections'[i].map = None
             ELSE \A j \in DOMAIN sections' : sections'[j].name = sections'[i].name => i = j
  BY <1>1, <1>2 DEF TidyOK
<1>4. \A i \in DOMAIN sections' : sections'[i].map # None => Tidy(sections'[i].map)
  BY <1>1 DEF TidyOK
<1> QED BY <1>3, <1>4, Zenon DEF TidyOK, Tidy

LEMMA TidyKept ==
    ASSUME SafeInv, TidyOK, [Next]_vars
    PROVE  TidyOK'
<1> USE DEF SafeInv
<1>1. CASE UNCHANGED sections
  BY <1>1 DEF TidyOK, Tidy
<1>2. ASSUME NEW k \in Keys, NEW v \in Values, SetInSection(k, v)
      PROVE  TidyOK'
  <2> DEFINE i == get_section(current_section)
  <2> DEFINE m == sm_put(sections[i].map, k, v)
  <2>1. /\ current_section \in Sections /\ current_section # None /\ i # 0
        /\ sections' = [sections EXCEPT ![i].map = m]
    BY <1>2 DEF SetInSection, TypeOK
  <2>2. i \in DOMAIN sections /\ sections[i].name = current_section
    BY <2>1, SectionPlaces
  <2>3. sections[i].map \in Maps /\ sections[i].map # None
    BY <2>1, <2>2, NoneAssumption DEF SectionsOK
  <2>4. m \in Maps /\ Tidy(m)
    BY <2>2, <2>3, Put DEF TidyOK
  <2> HIDE DEF m
  <2>5. /\ DOMAIN sections' = DOMAIN sections
        /\ \A j \in DOMAIN sections : sections'[j].name = sections[j].name
        /\ \A j \in DOMAIN sections : sections'[j].map = IF j = i THEN m ELSE sections[j].map
    BY <2>1, <2>2, <2>4, MapChanged
  <2>6. \A j \in DOMAIN sections' :
          IF sections'[j].name = None THEN sections'[j].map = None
          ELSE \A l \in DOMAIN sections' : sections'[l].name = sections'[j].name => j = l
    BY <2>1, <2>2, <2>5 DEF TidyOK
  <2>7. \A j \in DOMAIN sections' : sections'[j].map # None => Tidy(sections'[j].map)
    BY <2>4, <2>5 DEF TidyOK
  <2> QED BY <2>6, <2>7, Zenon DEF TidyOK, Tidy
<1>3. ASSUME NEW map \in Maps, Tidy(map), current_section \in Sections,
             get_section(current_section) = 0, sections' = NewSection(map)
      PROVE  TidyOK'
  <2> DEFINE r == [name |-> current_section, map |-> map]
  <2>1. r \in SectionRecords /\ r.name = current_section /\ r.map = map /\ r.name # None
    BY <1>3, NoneAssumption DEF SectionRecords
  <2>2. sections' = Append(sections, r)
    BY <1>3 DEF NewSection
  <2> HIDE DEF r
  <2> QED BY <1>3, <2>1, <2>2, TidyAppended
<1>4. ASSUME NEW k \in Keys, NEW v \in Values, SetInNewSection(k, v)
      PROVE  TidyOK'
  <2>1. sm_put(sm_new, k, v) \in Maps /\ Tidy(sm_put(sm_new, k, v))
    BY New, Put
  <2> QED BY <1>3, <1>4, <2>1 DEF SetInNewSection, TypeOK
<1>5. ASSUME NEW k \in Keys, NEW v \in Values, SetInNewSectionFails(k, v)
      PROVE  TidyOK'
  <2>1. CASE UNCHANGED sections
    BY <1>1, <2>1
  <2>2. CASE sections' = NewSection(sm_new)
    BY <1>3, <1>5, <2>2, New DEF SetInNewSectionFails, TypeOK
  <2> QED BY <1>5, <2>1, <2>2 DEF SetInNewSectionFails
<1>6. ASSUME NEW k \in Keys, NEW v \in Values, CreateSectionFails(k, v)
      PROVE  TidyOK'
  <2> DEFINE r == [name |-> None, map |-> None]
  <2>1. r \in SectionRecords /\ r.name = None /\ r.map = None
    BY DEF SectionRecords
  <2>2. sections' = Append(sections, r)
    BY <1>6 DEF CreateSectionFails
  <2> HIDE DEF r
  <2> QED BY <2>1, <2>2, TidyAppended
<1>7. CASE Skip \/ SyntaxError \/ EndOfFile \/ UNCHANGED vars
  BY <1>1, <1>7 DEF Skip, SyntaxError, EndOfFile, vars
<1>8. ASSUME NEW s \in Sections \cup {None}, EnterSection(s)
      PROVE  TidyOK'
  BY <1>1, <1>8 DEF EnterSection
<1>9. ASSUME NEW k \in Keys, NEW v \in Values, SetFails(k, v)
      PROVE  TidyOK'
  BY <1>1, <1>9 DEF SetFails
<1> QED BY <1>2, <1>4, <1>5, <1>6, <1>7, <1>8, <1>9 DEF Next, SettingsSet

-----------------------------------------------------------------------------
(* What a step does to the dictionary and to the lines read *)

\* settings_set has set one key, in the section entered last.
Sets(k, v) ==
    /\ pc = "reading" /\ pc' = "reading" /\ Read(PairLine(k, v))
    /\ current_section \in Sections /\ current_section' = current_section
    /\ \A s \in Sections, q \in Keys : settings_get(s, q)' =
         IF s = current_section /\ q = k THEN v ELSE settings_get(s, q)

\* Any other step: nothing is set.
Keeps ==
    /\ \A s \in Sections, q \in Keys : settings_get(s, q)' = settings_get(s, q)
    /\ \/ pc = "reading" /\ pc' = "reading" /\ Read(BlankLine) /\ current_section' = current_section
       \/ \E s \in Sections \cup {None} :
            pc = "reading" /\ pc' = "reading" /\ Read(SectionLine(s)) /\ current_section' = s
       \/ pc = "reading" /\ pc' = "opened" /\ UNCHANGED <<read, current_section>>
       \/ pc' \in {"failed", "aborted"}
       \/ UNCHANGED <<pc, read, current_section>>

LEMMA Steps ==
    ASSUME SafeInv, [Next]_vars
    PROVE  /\ SafeInv'
           /\ Keeps \/ \E k \in Keys, v \in Values : Sets(k, v)
<1>1. CASE Skip
  BY <1>1, LineStep, LineTypes DEF Skip, Keeps, Read, SafeInv, TypeOK
<1>2. ASSUME NEW s \in Sections \cup {None}, EnterSection(s)
      PROVE  SafeInv' /\ Keeps
  BY <1>2, LineStep, LineTypes DEF EnterSection, Keeps, Read
<1>3. CASE SyntaxError
  <2>1. PICK line \in Lines : Read(line)
    BY <1>3, LineTypes DEF SyntaxError
  <2> QED BY <1>3, <2>1, LineStep DEF SyntaxError, Fail, Keeps, SafeInv, TypeOK
<1>4. CASE EndOfFile
  <2>1. TypeOK' /\ SectionsOK' /\ ValuesFit'
    BY <1>4 DEF EndOfFile, SafeInv, TypeOK, SectionsOK, ValuesFit
  <2>2. NoUseAfterFree'
    BY <1>4 DEF EndOfFile, SafeInv, NoUseAfterFree
  <2>3. \A s \in Sections, q \in Keys : settings_get(s, q)' = settings_get(s, q)
    BY <1>4 DEF EndOfFile, settings_get, get_section
  <2> QED BY <1>4, <2>1, <2>2, <2>3 DEF EndOfFile, Keeps, SafeInv
<1>5. ASSUME NEW k \in Keys, NEW v \in Values, SettingsSet(k, v)
      PROVE  SafeInv' /\ (Keeps \/ Sets(k, v))
  <2>1. CASE SetInSection(k, v)
    BY <2>1, SetInSectionStep DEF SetInSection, Sets, Read, SafeInv, TypeOK
  <2>2. CASE SetFails(k, v)
    BY <2>2, LineStep, LineTypes DEF SetFails, Fail, Keeps, SafeInv, TypeOK
  <2>3. CASE SetInNewSection(k, v)
    BY <2>3, SetInNewSectionStep DEF SetInNewSection, Sets, Read, SafeInv, TypeOK
  <2>4. CASE SetInNewSectionFails(k, v)
    <3>1. /\ Read(PairLine(k, v)) /\ pc' = "failed" /\ UNCHANGED <<current_section, heap>>
          /\ PairLine(k, v) \in Lines
      BY <2>4, LineTypes DEF SetInNewSectionFails, Fail
    <3>2. CASE sections' = sections
      BY <3>1, <3>2, LineStep DEF Keeps, SafeInv, TypeOK
    <3>3. CASE sections' = NewSection(sm_new)
      <4>1. current_section \in Sections /\ get_section(current_section) = 0
        BY <2>4 DEF SetInNewSectionFails, SafeInv, TypeOK
      <4>2. /\ SafeInv'
            /\ \A s \in Sections, q \in Keys : settings_get(s, q)' =
                 IF s = current_section THEN sm_get(sm_new, q) ELSE settings_get(s, q)
        BY <3>1, <3>3, <4>1, New, NewSectionStep
      <4>3. \A q \in Keys : settings_get(current_section, q) = sm_get(sm_new, q)
        BY <4>1, New DEF settings_get
      <4> QED BY <3>1, <4>2, <4>3 DEF Keeps
    <3> QED BY <2>4, <3>2, <3>3 DEF SetInNewSectionFails
  <2>5. CASE CreateSectionFails(k, v)
    BY <2>5, CreateSectionFailsStep DEF Keeps
  <2> QED BY <1>5, <2>1, <2>2, <2>3, <2>4, <2>5 DEF SettingsSet
<1>6. CASE UNCHANGED vars
  <2>1. SafeInv'
    BY <1>6 DEF vars, SafeInv, TypeOK, SectionsOK, ValuesFit, NoUseAfterFree
  <2>2. Keeps
    BY <1>6 DEF vars, Keeps, settings_get, get_section
  <2> QED BY <2>1, <2>2
<1> QED BY <1>1, <1>2, <1>3, <1>4, <1>5, <1>6 DEF Next

-----------------------------------------------------------------------------
(* The lines read *)

LEMMA LineParts ==
    /\ BlankLine[1] = "blank" /\ BadLine[1] = "bad"
    /\ \A s : SectionLine(s)[1] = "section" /\ SectionLine(s)[2] = s
    /\ \A k, v : /\ PairLine(k, v)[1] = "pair"
                 /\ PairLine(k, v)[2] = k /\ PairLine(k, v)[3] = v
<1>1. BlankLine[1] = "blank"
  BY DEF BlankLine
<1>2. BadLine[1] = "bad"
  BY DEF BadLine
<1>3. ASSUME NEW s
      PROVE  SectionLine(s)[1] = "section" /\ SectionLine(s)[2] = s
  BY DEF SectionLine
<1>4. ASSUME NEW k, NEW v
      PROVE  PairLine(k, v)[1] = "pair" /\ PairLine(k, v)[2] = k /\ PairLine(k, v)[3] = v
  BY DEF PairLine
<1> QED BY <1>1, <1>2, <1>3, <1>4

LEMMA LineKinds ==
    /\ BlankLine # BadLine
    /\ \A s : SectionLine(s) # BadLine
    /\ \A s, t : SectionLine(s) = SectionLine(t) => s = t
    /\ \A k, v : PairLine(k, v) # BadLine
<1>1. BlankLine # BadLine
  BY LineParts
<1>2. ASSUME NEW s PROVE SectionLine(s) # BadLine
  BY LineParts
<1>3. ASSUME NEW s, NEW t, SectionLine(s) = SectionLine(t) PROVE s = t
  BY <1>3, LineParts
<1>4. ASSUME NEW k, NEW v PROVE PairLine(k, v) # BadLine
  BY LineParts
<1> QED BY <1>1, <1>2, <1>3, <1>4

LEMMA ReadOn ==
    ASSUME TypeOK, NEW line, read' = Append(read, line)
    PROVE  /\ Len(read) \in Nat /\ DOMAIN read = 1..Len(read)
           /\ DOMAIN read' = 1..Len(read)+1
           /\ Len(read') = Len(read) + 1 /\ read'[Len(read) + 1] = line
           /\ \A i \in 1..Len(read) : read'[i] = read[i]
<1> DEFINE T == Lines \cup {line}
<1>1. read \in Seq(T)
  BY DEF TypeOK
<1>2. line \in T
  OBVIOUS
<1> HIDE DEF T
<1> QED BY <1>1, <1>2

\* The section of a line is decided by the lines before it.
LEMMA WithinStep ==
    ASSUME TypeOK, NEW line, read' = Append(read, line), NEW s
    PROVE  /\ \A i \in 1..Len(read)+1 : Within(i, s)' <=> Within(i, s)
           /\ Within(Len(read) + 1, s)' <=>
                \/ line = SectionLine(s)
                \/ line[1] # "section" /\ Within(Len(read) + 1, s)
<1>1. /\ Len(read) \in Nat /\ DOMAIN read = 1..Len(read)
      /\ DOMAIN read' = 1..Len(read)+1
      /\ Len(read') = Len(read) + 1 /\ read'[Len(read) + 1] = line
      /\ \A i \in 1..Len(read) : read'[i] = read[i]
  BY ReadOn
<1>2. ASSUME NEW i \in 1..Len(read)+1
      PROVE  Within(i, s)' <=> Within(i, s)
  <2>1. \A j \in 1..i-1 : read'[j] = read[j]
    BY <1>1
  <2>2. \A h \in 1..i-1 : \A j \in h+1..i-1 : j \in 1..i-1
    BY <1>1
  <2>3. Within(i, s)' <=>
          \E h \in 1..i-1 : /\ read'[h] = SectionLine(s)
                            /\ \A j \in h+1..i-1 : read'[j][1] # "section"
    BY DEF Within
  <2>4. Within(i, s) <=>
          \E h \in 1..i-1 : /\ read[h] = SectionLine(s)
                            /\ \A j \in h+1..i-1 : read[j][1] # "section"
    BY DEF Within
  <2>5. ASSUME NEW h \in 1..i-1
        PROVE  (/\ read'[h] = SectionLine(s)
                /\ \A j \in h+1..i-1 : read'[j][1] # "section") <=>
               (/\ read[h] = SectionLine(s)
                /\ \A j \in h+1..i-1 : read[j][1] # "section")
    BY <2>1, <2>2
  <2> QED BY <2>3, <2>4, <2>5, Zenon
<1>3. Within(Len(read) + 1, s)' <=>
        \E h \in 1..Len(read)+1 : /\ read'[h] = SectionLine(s)
                                  /\ \A j \in h+1..Len(read)+1 : read'[j][1] # "section"
  <2>1. Within(Len(read) + 1, s)' <=>
          \E h \in 1..Len(read')+1-1 : /\ read'[h] = SectionLine(s)
                                      /\ \A j \in h+1..Len(read')+1-1 : read'[j][1] # "section"
    BY DEF Within
  <2>2. Len(read') + 1 - 1 = Len(read) + 1
    BY <1>1
  <2> QED BY <2>1, <2>2
<1>4. Within(Len(read) + 1, s) <=>
        \E h \in 1..Len(read) : /\ read[h] = SectionLine(s)
                                /\ \A j \in h+1..Len(read) : read[j][1] # "section"
  BY <1>1 DEF Within
<1>5. CASE line = SectionLine(s)
  <2>1. /\ Len(read) + 1 \in 1..Len(read)+1 /\ read'[Len(read) + 1] = SectionLine(s)
        /\ \A j \in (Len(read) + 1)+1..Len(read)+1 : read'[j][1] # "section"
    BY <1>1, <1>5
  <2> QED BY <1>2, <1>3, <1>5, <2>1
<1>6. CASE line # SectionLine(s)
  <2>1. ASSUME NEW h \in 1..Len(read)
        PROVE  (\A j \in h+1..Len(read)+1 : read'[j][1] # "section") <=>
               line[1] # "section" /\ \A j \in h+1..Len(read) : read[j][1] # "section"
    <3>1. h+1..Len(read)+1 = (h+1..Len(read)) \cup {Len(read) + 1}
      BY <1>1
    <3>2. \A j \in h+1..Len(read) : j \in 1..Len(read)
      BY <1>1
    <3> QED BY <1>1, <3>1, <3>2
  <2>2. \A h \in 1..Len(read)+1 : read'[h] = SectionLine(s) => h \in 1..Len(read)
    BY <1>1, <1>6
  <2>3. \A h \in 1..Len(read) : h \in 1..Len(read)+1 /\ read'[h] = read[h]
    BY <1>1
  <2> QED BY <1>1, <1>2, <1>3, <1>4, <1>6, <2>1, <2>2, <2>3
<1> QED BY <1>1, <1>2, <1>5, <1>6

-----------------------------------------------------------------------------
(* What can be got is what was read *)

LEMMA CurrentStep ==
    ASSUME TypeOK, CurrentOK, pc = "reading",
           NEW line, read' = Append(read, line),
           \/ line[1] # "section" /\ current_section' = current_section
           \/ \E t \in Sections \cup {None} : line = SectionLine(t) /\ current_section' = t
    PROVE  CurrentOK'
<1>1. ASSUME NEW s \in Sections
      PROVE  Within(Len(read) + 1, s)' <=> current_section' = s
  <2>1. /\ Within(Len(read) + 1, s)' <=>
             \/ line = SectionLine(s)
             \/ line[1] # "section" /\ Within(Len(read) + 1, s)
        /\ Within(Len(read) + 1, s) <=> current_section = s
    BY WithinStep DEF CurrentOK
  <2>2. CASE line[1] # "section" /\ current_section' = current_section
    <3>1. line # SectionLine(s)
      BY <2>2, LineParts
    <3> QED BY <2>1, <2>2, <3>1
  <2>3. ASSUME NEW t \in Sections \cup {None}, line = SectionLine(t), current_section' = t
        PROVE  Within(Len(read) + 1, s)' <=> current_section' = s
    <3>1. line[1] = "section" /\ (line = SectionLine(s) <=> t = s)
      BY <2>3, LineParts, LineKinds
    <3> QED BY <2>1, <2>3, <3>1
  <2> QED BY <2>2, <2>3
<1> QED BY <1>1 DEF CurrentOK

\* A line assigns if it does so in the section entered last; what the lines
\* before it assign stays as it was.
LEMMA AssignsStep ==
    ASSUME TypeOK, CurrentOK, pc = "reading",
           NEW line, read' = Append(read, line), NEW s \in Sections, NEW k
    PROVE  /\ \A i \in 1..Len(read) : Assigns(i, s, k)' <=> Assigns(i, s, k)
           /\ \A n : n = Len(read) + 1 =>
                (Assigns(n, s, k)' <=>
                   line[1] = "pair" /\ line[2] = k /\ current_section = s)
<1>1. /\ Len(read) \in Nat
      /\ read'[Len(read) + 1] = line
      /\ \A i \in 1..Len(read) : read'[i] = read[i]
  BY ReadOn
<1>2. \A i \in 1..Len(read)+1 : Within(i, s)' <=> Within(i, s)
  BY WithinStep
<1>3. ASSUME NEW i \in 1..Len(read)
      PROVE  Assigns(i, s, k)' <=> Assigns(i, s, k)
  <2>1. i \in 1..Len(read)+1 /\ read'[i] = read[i]
    BY <1>1
  <2> QED BY <1>2, <2>1 DEF Assigns
<1>4. ASSUME NEW n, n = Len(read) + 1
      PROVE  Assigns(n, s, k)' <=> line[1] = "pair" /\ line[2] = k /\ current_section = s
  <2>1. n \in 1..Len(read)+1 /\ read'[n] = line
    BY <1>1, <1>4
  <2>2. Within(n, s)' <=> current_section = s
    BY <1>2, <1>4, <2>1 DEF CurrentOK
  <2> QED BY <2>1, <2>2 DEF Assigns
<1> QED BY <1>3, <1>4

LEMMA GetsStep ==
    ASSUME TypeOK, CurrentOK, GetsWhatWasRead, pc = "reading",
           NEW line, line # BadLine, read' = Append(read, line),
           \A s \in Sections, k \in Keys : settings_get(s, k)' =
             IF line[1] = "pair" /\ line[2] = k /\ current_section = s
             THEN line[3] ELSE settings_get(s, k)
    PROVE  GetsWhatWasRead'
<1>1. /\ Len(read) \in Nat /\ DOMAIN read = 1..Len(read)
      /\ DOMAIN read' = 1..Len(read)+1
      /\ Len(read') = Len(read) + 1 /\ read'[Len(read) + 1] = line
      /\ \A i \in 1..Len(read) : read'[i] = read[i]
  BY ReadOn
<1>2. \A i \in DOMAIN read' : read'[i] # BadLine
  <2>1. \A i \in 1..Len(read) : read[i] # BadLine
    BY <1>1 DEF GetsWhatWasRead
  <2>2. \A i \in 1..Len(read)+1 : i \in 1..Len(read) \/ i = Len(read) + 1
    BY <1>1
  <2> QED BY <1>1, <2>1, <2>2
<1>3. ASSUME NEW s \in Sections, NEW k \in Keys
      PROVE  \/ settings_get(s, k)' = None /\ \A i \in DOMAIN read' : ~Assigns(i, s, k)'
             \/ \E i \in DOMAIN read' :
                  /\ Assigns(i, s, k)' /\ settings_get(s, k)' = read'[i][3]
                  /\ \A j \in i+1..Len(read') : ~Assigns(j, s, k)'
  <2> DEFINE n == Len(read) + 1
  <2>1. PICK m : m = n
    OBVIOUS
  <2>2. /\ \A i \in 1..Len(read) : Assigns(i, s, k)' <=> Assigns(i, s, k)
        /\ Assigns(m, s, k)' <=> line[1] = "pair" /\ line[2] = k /\ current_section = s
    BY <2>1, AssignsStep
  <2>3. CASE line[1] = "pair" /\ line[2] = k /\ current_section = s
    <3>1. m \in DOMAIN read' /\ \A j \in m+1..Len(read') : FALSE
      BY <1>1, <2>1
    <3>2. settings_get(s, k)' = read'[m][3] /\ Assigns(m, s, k)'
      BY <1>1, <2>1, <2>2, <2>3
    <3> QED BY <3>1, <3>2
  <2>4. CASE ~(line[1] = "pair" /\ line[2] = k /\ current_section = s)
    <3>1. settings_get(s, k)' = settings_get(s, k) /\ ~Assigns(m, s, k)'
      BY <2>2, <2>4
    <3>2. \A i \in DOMAIN read' : i \in 1..Len(read) \/ i = m
      BY <1>1, <2>1
    <3>3. CASE settings_get(s, k) = None /\ \A i \in DOMAIN read : ~Assigns(i, s, k)
      BY <1>1, <2>2, <3>1, <3>2, <3>3
    <3>4. ASSUME NEW i \in DOMAIN read, Assigns(i, s, k), settings_get(s, k) = read[i][3],
                 \A j \in i+1..Len(read) : ~Assigns(j, s, k)
          PROVE  /\ i \in DOMAIN read' /\ Assigns(i, s, k)'
                 /\ settings_get(s, k)' = read'[i][3]
                 /\ \A j \in i+1..Len(read') : ~Assigns(j, s, k)'
      <4>1. i \in 1..Len(read) /\ i \in DOMAIN read' /\ read'[i] = read[i]
        BY <1>1, <3>4
      <4>2. \A j \in i+1..Len(read') : j = m \/ (j \in i+1..Len(read) /\ j \in 1..Len(read))
        BY <1>1, <2>1, <4>1
      <4> QED BY <2>2, <3>1, <3>4, <4>1, <4>2
    <3> QED BY <3>3, <3>4 DEF GetsWhatWasRead
  <2> QED BY <2>3, <2>4
<1> QED BY <1>2, <1>3 DEF GetsWhatWasRead

\* Nothing was read: what holds of the lines still holds.
LEMMA ReadUnchanged ==
    ASSUME UNCHANGED read,
           \A s \in Sections, k \in Keys : settings_get(s, k)' = settings_get(s, k)
    PROVE  GetsWhatWasRead => GetsWhatWasRead'
<1>1. \A i, s : Within(i, s)' <=> Within(i, s)
  BY DEF Within
<1>2. \A i, s, k : Assigns(i, s, k)' <=> Assigns(i, s, k)
  BY <1>1 DEF Assigns
<1> QED BY <1>2 DEF GetsWhatWasRead

-----------------------------------------------------------------------------
(* The theorems *)

LEMMA InitSafe == Init => SafeInv
<1> SUFFICES ASSUME Init
             PROVE  SafeInv
  OBVIOUS
<1>1. sections \in Seq(SectionRecords) /\ DOMAIN sections = {}
  BY DEF Init
<1>2. read \in Seq(Lines) /\ Len(read) = 0
  BY DEF Init
<1>3. TypeOK
  BY <1>1, <1>2, LinesAssumption DEF Init, TypeOK
<1> QED BY <1>1, <1>3 DEF Init, SafeInv, SectionsOK, ValuesFit, NoUseAfterFree

LEMMA InitEmpty == Init => \A s \in Sections, k \in Keys : settings_get(s, k) = None
<1> SUFFICES ASSUME Init, NEW s \in Sections, NEW k \in Keys
             PROVE  settings_get(s, k) = None
  OBVIOUS
<1>1. {i \in DOMAIN sections : sections[i].name = s} = {}
  BY DEF Init
<1>2. get_section(s) = 0
  BY <1>1 DEF get_section, First
<1> QED BY <1>2 DEF settings_get

LEMMA InitInv == Init => IInv
<1> SUFFICES ASSUME Init
             PROVE  IInv
  OBVIOUS
<1>1. SafeInv /\ \A s \in Sections, k \in Keys : settings_get(s, k) = None
  BY InitSafe, InitEmpty
<1>2. Len(read) = 0 /\ DOMAIN read = {}
  BY DEF Init
<1>3. \A s : ~Within(Len(read) + 1, s)
  BY <1>2 DEF Within
<1>4. CurrentOK
  BY <1>3, NoneAssumption DEF CurrentOK, Init
<1>5. GetsWhatWasRead
  BY <1>1, <1>2 DEF GetsWhatWasRead
<1>6. TidyOK
  BY DEF Init, TidyOK
<1> QED BY <1>1, <1>4, <1>5, <1>6 DEF IInv, SafeInv

LEMMA Inductive == IInv /\ [Next]_vars => IInv'
<1> SUFFICES ASSUME IInv, [Next]_vars
             PROVE  IInv'
  OBVIOUS
<1>1. SafeInv /\ CurrentOK /\ (pc \in {"reading", "opened"} => GetsWhatWasRead)
  BY DEF IInv, SafeInv
<1>2. SafeInv' /\ (Keeps \/ \E k \in Keys, v \in Values : Sets(k, v))
  BY <1>1, Steps
<1>3. SUFFICES CurrentOK' /\ (pc' \in {"reading", "opened"} => GetsWhatWasRead')
  <2>1. TidyOK'
    BY <1>1, TidyKept DEF IInv
  <2> QED BY <1>2, <2>1 DEF IInv, SafeInv
<1>4. TypeOK
  BY <1>1 DEF SafeInv
<1>5. ASSUME NEW k \in Keys, NEW v \in Values, Sets(k, v)
      PROVE  CurrentOK' /\ GetsWhatWasRead'
  <2>1. /\ read' = Append(read, PairLine(k, v)) /\ PairLine(k, v)[1] = "pair"
        /\ PairLine(k, v)[2] = k /\ PairLine(k, v)[3] = v /\ PairLine(k, v) # BadLine
    BY <1>5, LineParts, LineKinds DEF Sets, Read
  <2>2. CurrentOK'
    BY <1>1, <1>4, <1>5, <2>1, CurrentStep DEF Sets
  <2>3. GetsWhatWasRead'
    BY <1>1, <1>4, <1>5, <2>1, GetsStep DEF Sets
  <2> QED BY <2>2, <2>3
<1>6. CASE Keeps
  <2>1. ASSUME NEW line, line[1] # "pair", line # BadLine, pc = "reading", Read(line),
               \/ line[1] # "section" /\ current_section' = current_section
               \/ \E t \in Sections \cup {None} : line = SectionLine(t) /\ current_section' = t
        PROVE  CurrentOK' /\ GetsWhatWasRead'
    <3>1. read' = Append(read, line)
      BY <2>1 DEF Read
    <3>2. CurrentOK'
      BY <1>1, <1>4, <2>1, <3>1, CurrentStep
    <3>3. \A s \in Sections, k \in Keys : settings_get(s, k)' =
            IF line[1] = "pair" /\ line[2] = k /\ current_section = s
            THEN line[3] ELSE settings_get(s, k)
      BY <1>6, <2>1 DEF Keeps
    <3>4. GetsWhatWasRead'
      BY <1>1, <1>4, <2>1, <3>1, <3>3, GetsStep
    <3> QED BY <3>2, <3>4
  <2>2. CASE /\ pc = "reading" /\ Read(BlankLine) /\ current_section' = current_section
    <3>1. BlankLine[1] # "pair" /\ BlankLine[1] # "section" /\ BlankLine # BadLine
      BY LineParts, LineKinds
    <3> QED BY <2>1, <2>2, <3>1
  <2>3. ASSUME NEW s \in Sections \cup {None}, pc = "reading",
               Read(SectionLine(s)), current_section' = s
        PROVE  CurrentOK' /\ GetsWhatWasRead'
    <3>1. SectionLine(s)[1] # "pair" /\ SectionLine(s) # BadLine
      BY LineParts, LineKinds
    <3> QED BY <2>1, <2>3, <3>1
  <2>4. CASE pc = "reading" /\ pc' = "opened" /\ UNCHANGED <<read, current_section>>
    <3>1. CurrentOK'
      BY <2>4 DEF CurrentOK
    <3>2. GetsWhatWasRead'
      BY <1>1, <1>6, <2>4, ReadUnchanged DEF Keeps
    <3> QED BY <3>1, <3>2
  <2>5. CASE pc' \in {"failed", "aborted"}
    BY <2>5 DEF CurrentOK
  <2>6. CASE UNCHANGED <<pc, read, current_section>>
    <3>1. CurrentOK'
      <4>1. \A s : Within(Len(read) + 1, s)' <=> Within(Len(read) + 1, s)
        BY <2>6 DEF Within
      <4> QED BY <1>1, <2>6, <4>1 DEF CurrentOK
    <3>2. pc' \in {"reading", "opened"} => GetsWhatWasRead'
      BY <1>1, <1>6, <2>6, ReadUnchanged DEF Keeps
    <3> QED BY <3>1, <3>2
  <2> QED BY <1>6, <2>2, <2>3, <2>4, <2>5, <2>6 DEF Keeps
<1> QED BY <1>2, <1>5, <1>6

\* The strengthened invariant is an invariant: of a file of any length, with any
\* sections, keys and values, and wherever the memory runs out.
THEOREM Invariance == Spec => []IInv
<1>1. Init => IInv
  BY InitInv
<1>2. IInv /\ [Next]_vars => IInv'
  BY Inductive
<1> QED BY <1>1, <1>2, PTL DEF Spec

\* The state of settings_open and of the settings keeps its types, and no more
\* lines are read than the file has.
THEOREM TypeCorrect == Spec => []TypeOK
<1>1. IInv => TypeOK
  BY DEF IInv
<1> QED BY <1>1, Invariance, PTL

\* Settings that were opened give for every key what the last line of the file
\* that sets it says, and None for a key that no line sets.
THEOREM OpenedIsReadHolds == Spec => []OpenedIsRead
<1>1. IInv => OpenedIsRead
  BY DEF IInv, OpenedIsRead
<1> QED BY <1>1, Invariance, PTL

\* sm_put never copies a value into a place that is too small for it, whatever
\* the lengths of the values that were in it before.
THEOREM ValuesFitHolds == Spec => []ValuesFit
<1>1. IInv => ValuesFit
  BY DEF IInv
<1> QED BY <1>1, Invariance, PTL

\* After settings_open has freed the array of sections, or a place within it, or
\* has left a section half made, nobody gets the settings.
THEOREM NoUseAfterFreeHolds == Spec => []NoUseAfterFree
<1>1. IInv => NoUseAfterFree
  BY DEF IInv
<1> QED BY <1>1, Invariance, PTL

-----------------------------------------------------------------------------
(* The settings implement a dictionary *)

LEMMA ContentsOf ==
    \A s \in Sections, k \in Keys : contents[s][k] = settings_get(s, k)
  BY DEF contents

LEMMA DictInit == Init => Dict!Init
<1> SUFFICES ASSUME Init
             PROVE  contents = [s \in Sections |-> [k \in Keys |-> None]]
  BY DEF Dict!Init
<1>1. \A s \in Sections, k \in Keys : settings_get(s, k) = None
  BY InitEmpty
<1>2. \A s \in Sections : [k \in Keys |-> settings_get(s, k)] = [k \in Keys |-> None]
  BY <1>1
<1> QED BY <1>2 DEF contents

LEMMA DictStep == IInv /\ [Next]_vars => [Dict!Next]_contents
<1> SUFFICES ASSUME IInv, [Next]_vars
             PROVE  [Dict!Next]_contents
  OBVIOUS
<1>1. Keeps \/ \E k \in Keys, v \in Values : Sets(k, v)
  BY Steps DEF IInv, SafeInv
<1>2. contents' = [s \in Sections |-> [k \in Keys |-> settings_get(s, k)']]
  BY DEF contents
<1>3. CASE Keeps
  <2>1. \A s \in Sections :
          [k \in Keys |-> settings_get(s, k)'] = [k \in Keys |-> settings_get(s, k)]
    BY <1>3 DEF Keeps
  <2>2. contents' = contents
    BY <1>2, <2>1 DEF contents
  <2> QED BY <2>2
<1>4. ASSUME NEW k \in Keys, NEW v \in Values, Sets(k, v)
      PROVE  Dict!Next
  <2> DEFINE c == current_section
  <2>1. c \in Sections
    BY <1>4 DEF Sets
  <2>2. \A s \in Sections, q \in Keys : settings_get(s, q)' =
          IF s = c /\ q = k THEN v ELSE settings_get(s, q)
    BY <1>4 DEF Sets
  <2>3. [contents EXCEPT ![c][k] = v] =
          [s \in Sections |-> [q \in Keys |->
             IF s = c /\ q = k THEN v ELSE settings_get(s, q)]]
    BY <2>1 DEF contents
  <2>4. contents' = [contents EXCEPT ![c][k] = v]
    BY <1>2, <2>2, <2>3
  <2> HIDE DEF c
  <2> QED BY <1>4, <2>1, <2>4 DEF Dict!Next, Dict!Set
<1> QED BY <1>1, <1>3, <1>4

\* Sections in an array, pairs in chains of buckets, replaced or appended, with
\* any allocation failing: what can be got is a dictionary, which changes for
\* one key of one section at a time.
THEOREM Refinement == Spec => ImplementsDictionary
<1>1. Init => Dict!Init
  BY DictInit
<1>2. IInv /\ [Next]_vars => [Dict!Next]_contents
  BY DictStep
<1> QED BY <1>1, <1>2, Invariance, PTL DEF Spec, ImplementsDictionary, Dict!Spec
=============================================================================
