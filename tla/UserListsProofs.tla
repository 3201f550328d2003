--------------------------- MODULE UserListsProofs ---------------------------
(* The screens that list users, for any users, names, cities, address books   *)
(* and search texts, and any number of loads, registrations and deletions:    *)
(* each user of the answer has one row, and it is an answer for the filter    *)
(* selected.                                                                  *)
EXTENDS UserLists, Integers, NaturalsInduction, WellFoundedInduction, FiniteSetTheorems,
        SequenceTheorems, TLAPS

(* Who is on the list: those the answer on display holds, on the contacts the *)
(* ones that compareUsers finds.                                              *)
Answered == {u \in (answer.known \cap Within(answer.filter)) \ {Me} : OfContacts => Matches(u)}

Distinct(s) == \A i, j \in 1..Len(s) : s[i] = s[j] => i = j
Once(s, u) == \E i \in 1..Len(s) : s[i] = u /\ \A j \in 1..Len(s) : s[j] = u => j = i

(* A list in the order of the names; one whose initials do not come again.    *)
Sorted(s, list) ==
  \A i, j \in 1..Len(s) : \A a, b \in 1..Len(list) :
    i < j /\ s[i] = list[a] /\ s[j] = list[b] => a < b
Together(s) ==
  \A i, k, j \in 1..Len(s) :
    i < k /\ k < j /\ Initial[s[i]] = Initial[s[j]] => Initial[s[k]] = Initial[s[i]]

Letters == {Initial[u] : u \in Users}

(* Each title has a section, of users with that initial.                      *)
Cuts(T, G) ==
  /\ T \in Seq(Letters)
  /\ DOMAIN G = Range(T)
  /\ \A t \in Range(T) : G[t] \in Seq(Users) /\ \A i \in 1..Len(G[t]) : Initial[G[t][i]] = t

(* Each user of the list s has one row, and it is in his section.             *)
Holds(T, G, s) ==
  /\ Distinct(T)
  /\ \A i \in 1..Len(s) : Initial[s[i]] \in Range(T) /\ Once(G[Initial[s[i]]], s[i])

ListsInv ==
  /\ all \in Seq(Users) /\ Sorted(all, Names)
  /\ Cuts(titles, groups)
  /\ OfContacts => Distinct(titles)
  /\ Together(all) => Holds(titles, groups, all)

(* Who is in the sections: the contacts keep those of earlier answers.        *)
Sectioned(u) ==
  IF OfContacts THEN Matches(u) /\ u # Me /\ u \in answer.known \cup gone
  ELSE u \in Range(all)

KnownInv ==
  /\ book \in Books /\ known \subseteq Users
  /\ answer.known \subseteq Users /\ answer.known \subseteq known \cup gone

ContactsInv ==
  OfContacts => (\A q \in queries : q.filter = "all") /\ (answer # None => answer.filter = "all")

AnswerInv == answer # None => Range(all) = Answered

RowsInv == \A t \in Range(titles) : \A i \in 1..Len(groups[t]) : Sectioned(groups[t][i])

SearchInv ==
  text # NoText /\ ~stale =>
    /\ filtered \in Seq(Users) /\ Distinct(filtered)
    /\ Range(filtered) = Range(all) \cap text

FilterInv ==
  kind \in {"nearby", "invite"} /\ ~overlapped /\ ~returned =>
    /\ \A q, r \in queries : q = r
    /\ \A q \in queries : q.filter = segment
    /\ answer # None /\ queries = {} => answer.filter = segment

Inv == ListsInv /\ KnownInv /\ ContactsInv /\ AnswerInv /\ RowsInv /\ SearchInv /\ FilterInv

--------------------------------------------------------------------------------
(* Sequences and recursive functions over their indices.                      *)

LEMMA SetInduction ==
  ASSUME NEW T, 0 \in T, \A n \in Nat : n \in T => n + 1 \in T
  PROVE  \A n \in Nat : n \in T
  <1> SUFFICES ASSUME NEW n \in Nat, n \notin T PROVE FALSE
    OBVIOUS
  <1> DEFINE M == {k \in Nat : k \notin T}
  <1>1. M # {} /\ M \subseteq Nat
    OBVIOUS
  <1>2. IsWellFoundedOn(OpToRel(<, Nat), Nat)
    BY NatLessThanWellFounded
  <1> HIDE DEF M
  <1>3. \E x \in M : \A y \in M : ~ (<<y, x>> \in OpToRel(<, Nat))
    BY <1>1, <1>2, WFMin
  <1>4. PICK x \in M : \A y \in M : ~ (y < x)
    BY <1>3, <1>1 DEF OpToRel
  <1>5. x \in Nat /\ x \notin T /\ x # 0
    BY <1>4 DEF M
  <1>6. x - 1 \in Nat /\ x - 1 < x /\ (x - 1) + 1 = x
    BY <1>5
  <1>7. x - 1 \in T
    BY <1>6, <1>4 DEF M
  <1> QED BY <1>5, <1>6, <1>7

Keeps(h, list, set, N) ==
  \A n \in 0..N : h[n] = IF n = 0 THEN <<>>
                         ELSE IF list[n] \in set THEN Append(h[n - 1], list[n])
                         ELSE h[n - 1]

LEMMA KeptIs ==
  ASSUME NEW list, NEW set, Len(list) \in Nat
  PROVE  \E h : Keeps(h, list, set, Len(list)) /\ Kept(list, set) = h[Len(list)]
  <1> DEFINE Next1(v, n) == IF list[n] \in set THEN Append(v, list[n]) ELSE v
             Eq(f, N) == f = [n \in 0..N |-> IF n = 0 THEN <<>>
                                ELSE IF list[n] \in set THEN Append(f[n - 1], list[n])
                                ELSE f[n - 1]]
             T == {n \in Nat : \E f : Eq(f, n)}
  <1>1. 0 \in T
    <2> DEFINE f == [m \in 0..0 |-> <<>>]
    <2>1. Eq(f, 0)
      OBVIOUS
    <2> QED BY <2>1
  <1>2. ASSUME NEW n \in Nat, n \in T
        PROVE  n + 1 \in T
    <2>1. PICK f : Eq(f, n)
      BY <1>2
    <2> DEFINE v == Next1(f[n], n + 1)
               g == [m \in 0..(n + 1) |-> IF m <= n THEN f[m] ELSE v]
    <2>2. \A m \in 0..n : g[m] = f[m]
      OBVIOUS
    <2>3. g[n + 1] = v
      OBVIOUS
    <2>4. ASSUME NEW m \in 0..(n + 1)
          PROVE  g[m] = IF m = 0 THEN <<>>
                        ELSE IF list[m] \in set THEN Append(g[m - 1], list[m]) ELSE g[m - 1]
      <3> HIDE DEF g
      <3>1. CASE m <= n
        <4>1. m \in 0..n /\ (m # 0 => m - 1 \in 0..n)
          BY <3>1
        <4> QED BY <4>1, <2>1, <2>2
      <3>2. CASE m = n + 1
        <4>1. m - 1 = n /\ n \in 0..n /\ m # 0
          BY <3>2
        <4> QED BY <4>1, <3>2, <2>2, <2>3
      <3> QED BY <3>1, <3>2
    <2>5. Eq(g, n + 1)
      BY <2>4
    <2> HIDE DEF g
    <2>6. \E e : Eq(e, n + 1)
      BY <2>5
    <2> HIDE DEF Eq
    <2>7. n + 1 \in Nat
      OBVIOUS
    <2> QED BY <2>6, <2>7
  <1> HIDE DEF T
  <1>3. \A n \in Nat : n \in T
    BY <1>1, <1>2, SetInduction
  <1>4. \E f : Eq(f, Len(list))
    BY <1>3 DEF T
  <1> DEFINE h == CHOOSE f : Eq(f, Len(list))
  <1>5. Eq(h, Len(list))
    BY <1>4
  <1>6. Kept(list, set) = h[Len(list)]
    BY DEF Kept
  <1>7. Keeps(h, list, set, Len(list))
    BY <1>5 DEF Keeps
  <1> QED BY <1>6, <1>7

(* What is kept is a part of the list, in its order.                          *)
LEMMA KeptAre ==
  ASSUME NEW S, NEW list \in Seq(S), Distinct(list), NEW set
  PROVE  /\ Kept(list, set) \in Seq(S)
         /\ Sorted(Kept(list, set), list) /\ Distinct(Kept(list, set))
         /\ Range(Kept(list, set)) = Range(list) \cap set
  <1>0. Len(list) \in Nat /\ \A n \in 1..Len(list) : list[n] \in S
    OBVIOUS
  <1>1. PICK h : Keeps(h, list, set, Len(list)) /\ Kept(list, set) = h[Len(list)]
    BY <1>0, KeptIs
  <1> DEFINE Good(n) == /\ h[n] \in Seq(S)
                        /\ \A i \in 1..Len(h[n]) : \E a \in 1..n : h[n][i] = list[a] /\ list[a] \in set
                        /\ \A a \in 1..n : list[a] \in set => \E i \in 1..Len(h[n]) : h[n][i] = list[a]
                        /\ \A i, j \in 1..Len(h[n]) : \A a, b \in 1..Len(list) :
                             i < j /\ h[n][i] = list[a] /\ h[n][j] = list[b] => a < b
             T == {n \in Nat : n <= Len(list) => Good(n)}
  <1>2. 0 \in T
    <2>1. h[0] = <<>>
      BY <1>0, <1>1 DEF Keeps
    <2>2. Good(0)
      BY <2>1
    <2> HIDE DEF Good
    <2> QED BY <2>2
  <1>3. ASSUME NEW n \in Nat, n \in T
        PROVE  n + 1 \in T
    <2> HIDE DEF Good
    <2>1. SUFFICES ASSUME n + 1 <= Len(list) PROVE Good(n + 1)
      OBVIOUS
    <2>2. Good(n)
      BY <1>3, <2>1, <1>0
    <2> USE DEF Good
    <2> DEFINE m == n + 1
    <2>3. h[m] = IF list[m] \in set THEN Append(h[n], list[m]) ELSE h[n]
      <3>1. m \in 0..Len(list) /\ m # 0 /\ m - 1 = n
        BY <2>1, <1>0
      <3> QED BY <3>1, <1>1 DEF Keeps
    <2>4. m \in 1..Len(list) /\ list[m] \in S /\ m \in Nat
      BY <2>1, <1>0
    <2>5. CASE list[m] \notin set
      <3>1. h[m] = h[n]
        BY <2>3, <2>5
      <3>2. \A a \in 1..m : list[a] \in set => a \in 1..n
        BY <2>5
      <3>3. \A a \in 1..n : a \in 1..m
        OBVIOUS
      <3>4. h[m] \in Seq(S)
        BY <3>1, <2>2
      <3>5. \A i \in 1..Len(h[m]) : \E a \in 1..m : h[m][i] = list[a] /\ list[a] \in set
        BY <3>1, <3>3, <2>2
      <3>6. \A a \in 1..m : list[a] \in set => \E i \in 1..Len(h[m]) : h[m][i] = list[a]
        BY <3>1, <3>2, <2>2
      <3> QED BY <3>1, <3>4, <3>5, <3>6, <2>2
    <2>6. CASE list[m] \in set
      <3> DEFINE x == h[n]
                 y == h[m]
                 k == Len(x)
      <3>1. y = Append(x, list[m])
        BY <2>3, <2>6
      <3>2. x \in Seq(S) /\ k \in Nat
        BY <2>2
      <3> HIDE DEF x, y
      <3>3. /\ y \in Seq(S) /\ Len(y) = k + 1
            /\ y[k + 1] = list[m] /\ \A i \in 1..k : y[i] = x[i]
        BY <3>1, <3>2, <2>4
      <3>4. \A i \in 1..Len(y) : i = k + 1 \/ i \in 1..k
        BY <3>3, <3>2
      <3>5. ASSUME NEW i \in 1..Len(y)
            PROVE  \E a \in 1..m : y[i] = list[a] /\ list[a] \in set
        <4>1. CASE i = k + 1
          BY <4>1, <3>3, <2>6, <2>4
        <4>2. CASE i \in 1..k
          <5>1. PICK a \in 1..n : x[i] = list[a] /\ list[a] \in set
            BY <4>2, <2>2 DEF x
          <5> QED BY <5>1, <3>3, <4>2
        <4> QED BY <4>1, <4>2, <3>4
      <3>6. ASSUME NEW a \in 1..m, list[a] \in set
            PROVE  \E i \in 1..Len(y) : y[i] = list[a]
        <4>1. CASE a = m
          <5>1. k + 1 \in 1..Len(y)
            BY <3>3, <3>2
          <5> QED BY <4>1, <5>1, <3>3
        <4>2. CASE a # m
          <5>1. a \in 1..n
            BY <4>2
          <5>2. PICK i \in 1..k : x[i] = list[a]
            BY <5>1, <3>6, <2>2 DEF x
          <5>3. i \in 1..Len(y)
            BY <3>3, <3>2
          <5> QED BY <5>2, <5>3, <3>3
        <4> QED BY <4>1, <4>2
      <3>7. ASSUME NEW i \in 1..Len(y), NEW j \in 1..Len(y), NEW a \in 1..Len(list),
                   NEW b \in 1..Len(list), i < j, y[i] = list[a], y[j] = list[b]
            PROVE  a < b
        <4>1. i \in 1..k /\ y[i] = x[i]
          BY <3>7, <3>3, <3>2
        <4>2. CASE j \in 1..k
          BY <4>1, <4>2, <3>7, <3>3, <2>2 DEF x
        <4>3. CASE j = k + 1
          <5>1. list[b] = list[m]
            BY <4>3, <3>7, <3>3
          <5>2. b = m
            BY <5>1, <2>4 DEF Distinct
          <5>3. PICK c \in 1..n : x[i] = list[c]
            BY <4>1, <2>2 DEF x
          <5>4. c \in 1..Len(list) /\ list[c] = list[a]
            BY <5>3, <4>1, <3>7, <2>1, <1>0
          <5>5. c = a
            BY <5>4 DEF Distinct
          <5> QED BY <5>2, <5>5
        <4> QED BY <4>2, <4>3, <3>4
      <3> QED BY <3>3, <3>5, <3>6, <3>7 DEF y
    <2> QED BY <2>5, <2>6
  <1> HIDE DEF T
  <1>4. \A n \in Nat : n \in T
    BY <1>2, <1>3, SetInduction
  <1>5. Good(Len(list))
    BY <1>4, <1>0 DEF T
  <1> DEFINE k == Kept(list, set)
  <1>6. /\ k \in Seq(S)
        /\ \A i \in 1..Len(k) : \E a \in 1..Len(list) : k[i] = list[a] /\ list[a] \in set
        /\ \A a \in 1..Len(list) : list[a] \in set => \E i \in 1..Len(k) : k[i] = list[a]
        /\ \A i, j \in 1..Len(k) : \A a, b \in 1..Len(list) :
             i < j /\ k[i] = list[a] /\ k[j] = list[b] => a < b
    BY <1>5, <1>1
  <1> HIDE DEF k
  <1>7. Len(k) \in Nat /\ DOMAIN k = 1..Len(k) /\ DOMAIN list = 1..Len(list)
    BY <1>6
  <1>8. Sorted(k, list)
    BY <1>6 DEF Sorted
  <1>9. Distinct(k)
    <2>1. SUFFICES ASSUME NEW i \in 1..Len(k), NEW j \in 1..Len(k), k[i] = k[j], i < j PROVE FALSE
      BY <1>7 DEF Distinct
    <2>2. PICK a \in 1..Len(list) : k[i] = list[a]
      BY <1>6
    <2>3. a < a
      BY <2>1, <2>2, <1>6
    <2> QED BY <2>3, <1>0
  <1>10. Range(k) = Range(list) \cap set
    <2>1. ASSUME NEW x \in Range(k) PROVE x \in Range(list) /\ x \in set
      <3>1. PICK i \in 1..Len(k) : x = k[i]
        BY <1>7 DEF Range
      <3>2. PICK a \in 1..Len(list) : k[i] = list[a] /\ list[a] \in set
        BY <1>6
      <3> QED BY <3>1, <3>2, <1>7 DEF Range
    <2>2. ASSUME NEW x \in Range(list), x \in set PROVE x \in Range(k)
      <3>1. PICK a \in 1..Len(list) : x = list[a]
        BY <1>7 DEF Range
      <3>2. PICK i \in 1..Len(k) : k[i] = list[a]
        BY <1>6, <3>1, <2>2
      <3> QED BY <3>1, <3>2, <1>7 DEF Range
    <2> QED BY <2>1, <2>2
  <1> QED BY <1>6, <1>8, <1>9, <1>10 DEF k

--------------------------------------------------------------------------------
(* The country code: where it is at the start of a number only, the start is  *)
(* what is removed.                                                           *)

Rests(r, code, digits) ==
  \A i \in 1..(Len(digits) + Len(code)) :
    r[i] = IF i > Len(digits) THEN <<>>
           ELSE IF Starts(code, SubSeq(digits, i, Len(digits))) THEN r[i + Len(code)]
           ELSE <<digits[i]>> \o r[i + 1]

LEMMA RestIs ==
  ASSUME NEW code \in Seq(Nat), code # <<>>, NEW digits \in Seq(Nat)
  PROVE  \E r : Rests(r, code, digits) /\ RemoveCountryCode(code, digits) = r[1]
  <1> DEFINE d == Len(digits)
             c == Len(code)
             L == d + c
             Rest(f, i) == IF i > d THEN <<>>
                           ELSE IF Starts(code, SubSeq(digits, i, d)) THEN f[i + c]
                           ELSE <<digits[i]>> \o f[i + 1]
             Eq(f, n) == f = [i \in n..L |-> Rest(f, i)]
             T == {n \in Nat : n <= L => \E f : Eq(f, L + 1 - n)}
  <1>1. d \in Nat /\ c \in Nat /\ c >= 1 /\ L \in Nat
    OBVIOUS
  <1>2. 0 \in T
    <2> DEFINE f == [i \in (L + 1)..L |-> <<>>]
    <2>1. L + 1 - 0 = L + 1 /\ (L + 1)..L = {}
      BY <1>1
    <2>2. Eq(f, L + 1 - 0)
      BY <2>1
    <2> HIDE DEF f
    <2>3. \E g : Eq(g, L + 1 - 0)
      BY <2>2
    <2> HIDE DEF Eq
    <2> QED BY <2>3
  <1>3. ASSUME NEW n \in Nat, n \in T
        PROVE  n + 1 \in T
    <2> DEFINE p == L - n
    <2>1. CASE ~(n + 1 <= L)
      BY <2>1
    <2>2. CASE n + 1 <= L
      <3>1. n <= L /\ p \in Nat /\ p >= 1 /\ L + 1 - n = p + 1 /\ L + 1 - (n + 1) = p
        BY <2>2, <1>1
      <3>2. PICK f : Eq(f, p + 1)
        <4> HIDE DEF Eq
        <4>1. \E f : Eq(f, L + 1 - n)
          BY <1>3, <3>1
        <4> QED BY <4>1, <3>1
      <3> DEFINE v == Rest(f, p)
                 g == [i \in p..L |-> IF i > p THEN f[i] ELSE v]
      <3>3. (\A i \in (p + 1)..L : g[i] = f[i]) /\ g[p] = v
        <4> HIDE DEF Rest, L
        <4>1. p \in p..L /\ \A i \in (p + 1)..L : i \in p..L /\ i > p
          BY <3>1, <1>1
        <4>2. ~(p > p)
          BY <3>1
        <4> HIDE DEF p, v
        <4> QED BY <4>1, <4>2
      <3>4. ASSUME NEW i \in p..L
            PROVE  g[i] = Rest(g, i)
        <4>1. i \in Nat /\ (i <= d => i + c \in (p + 1)..L /\ i + 1 \in (p + 1)..L)
          BY <3>1, <1>1
        <4>2. Rest(g, i) = Rest(f, i)
          <5> HIDE DEF g, p, c
          <5>1. i <= d => g[i + c] = f[i + c] /\ g[i + 1] = f[i + 1]
            BY <4>1, <3>3
          <5>2. ~(i > d) => i <= d
            BY <4>1, <1>1
          <5> QED BY <5>1, <5>2
        <4>3. CASE i = p
          BY <4>2, <4>3, <3>3
        <4>4. CASE i # p
          <5>1. i \in (p + 1)..L
            BY <4>4, <3>1, <1>1
          <5>2. f[i] = Rest(f, i)
            BY <3>2, <5>1
          <5> HIDE DEF g, Rest
          <5> QED BY <5>1, <5>2, <4>2, <3>3
        <4> HIDE DEF g, Rest
        <4> QED BY <4>3, <4>4
      <3>5. Eq(g, p)
        <4> HIDE DEF Rest
        <4>1. \A i \in p..L : g[i] = Rest(g, i)
          BY <3>4
        <4> QED BY <4>1
      <3> HIDE DEF g
      <3>6. \E h : Eq(h, L + 1 - (n + 1))
        BY <3>5, <3>1
      <3> HIDE DEF Eq
      <3> QED BY <3>6
    <2> QED BY <2>1, <2>2
  <1> HIDE DEF T
  <1>4. \A n \in Nat : n \in T
    BY <1>2, <1>3, SetInduction
  <1>5. \E f : Eq(f, 1)
    <2>1. L + 1 - L = 1
      BY <1>1
    <2>2. L \in T
      BY <1>4, <1>1
    <2> HIDE DEF Eq
    <2> QED BY <2>1, <2>2, <1>1 DEF T
  <1> DEFINE r == CHOOSE f : Eq(f, 1)
  <1>6. Eq(r, 1)
    BY <1>5
  <1>7. RemoveCountryCode(code, digits) = r[1]
    BY DEF RemoveCountryCode
  <1> HIDE DEF r
  <1>8. Rests(r, code, digits)
    BY <1>6 DEF Rests
  <1> QED BY <1>7, <1>8

(* From where no code follows, everything is left.                            *)
LEMMA RestLeft ==
  ASSUME NEW code \in Seq(Nat), code # <<>>, NEW digits \in Seq(Nat), NEW r,
         Rests(r, code, digits), NEW k \in 1..(Len(digits) + 1),
         \A i \in k..Len(digits) : ~Starts(code, SubSeq(digits, i, Len(digits)))
  PROVE  r[k] = SubSeq(digits, k, Len(digits))
  <1> DEFINE d == Len(digits)
             T == {n \in Nat : n <= d + 1 - k => r[d + 1 - n] = SubSeq(digits, d + 1 - n, d)}
  <1>1. d \in Nat /\ Len(code) \in Nat /\ Len(code) >= 1 /\ k \in Nat /\ k >= 1 /\ k <= d + 1
    OBVIOUS
  <1>2. 0 \in T
    <2>1. d + 1 - 0 = d + 1 /\ d + 1 \in 1..(Len(digits) + Len(code)) /\ d + 1 > Len(digits)
      BY <1>1
    <2>2. r[d + 1] = <<>>
      BY <2>1 DEF Rests
    <2>3. SubSeq(digits, d + 1, d) = <<>>
      BY <1>1
    <2> HIDE DEF d
    <2> QED BY <2>1, <2>2, <2>3
  <1>3. ASSUME NEW n \in Nat, n \in T
        PROVE  n + 1 \in T
    <2>1. SUFFICES ASSUME n + 1 <= d + 1 - k
                   PROVE  r[d + 1 - (n + 1)] = SubSeq(digits, d + 1 - (n + 1), d)
      OBVIOUS
    <2> DEFINE i == d - n
    <2>2. d + 1 - (n + 1) = i /\ d + 1 - n = i + 1 /\ i \in k..d /\ n <= d + 1 - k
      BY <2>1, <1>1
    <2>3. r[i + 1] = SubSeq(digits, i + 1, d)
      BY <2>2, <1>3
    <2>4. ~Starts(code, SubSeq(digits, i, Len(digits)))
      BY <2>2
    <2>5. i \in 1..(Len(digits) + Len(code)) /\ ~(i > Len(digits)) /\ i \in 1..d
      BY <2>2, <1>1
    <2>6. r[i] = <<digits[i]>> \o r[i + 1]
      BY <2>4, <2>5 DEF Rests
    <2> HIDE DEF i
    <2>7. SubSeq(digits, i, d) = <<digits[i]>> \o SubSeq(digits, i + 1, d)
      BY <2>5, <1>1
    <2> QED BY <2>2, <2>3, <2>6, <2>7
  <1> HIDE DEF T
  <1>4. \A n \in Nat : n \in T
    BY <1>2, <1>3, SetInduction
  <1>5. d + 1 - k \in T /\ d + 1 - (d + 1 - k) = k /\ d + 1 - k \in Nat
    BY <1>4, <1>1
  <1> HIDE DEF d
  <1> QED BY <1>5 DEF T, d

Reduced(code, digits) ==
  IF Starts(code, digits) THEN SubSeq(digits, Len(code) + 1, Len(digits)) ELSE digits

LEMMA RemovedIs ==
  ASSUME NEW code \in Seq(Nat), code # <<>>, NEW digits \in Seq(Nat),
         ~Occurs(code, Reduced(code, digits))
  PROVE  RemoveCountryCode(code, digits) = Reduced(code, digits)
  <1>1. PICK r : Rests(r, code, digits) /\ RemoveCountryCode(code, digits) = r[1]
    BY RestIs
  <1> DEFINE d == Len(digits)
             c == Len(code)
  <1>2. d \in Nat /\ c \in Nat /\ c >= 1 /\ SubSeq(digits, 1, d) = digits
    OBVIOUS
  <1>3. CASE ~Starts(code, digits)
    <2>1. \A i \in 1..d : ~Starts(code, SubSeq(digits, i, d))
      BY <1>3 DEF Reduced, Occurs
    <2>2. 1 \in 1..(d + 1)
      BY <1>2
    <2>3. r[1] = SubSeq(digits, 1, d)
      BY <2>1, <2>2, <1>1, RestLeft
    <2> QED BY <2>3, <1>1, <1>2, <1>3 DEF Reduced
  <1>4. CASE Starts(code, digits)
    <2> DEFINE s == SubSeq(digits, c + 1, d)
    <2>1. c <= d /\ Reduced(code, digits) = s
      BY <1>4 DEF Starts, Reduced
    <2>2. s \in Seq(Nat) /\ Len(s) = d - c
      <3>1. c + 1 \in Int /\ d \in Int /\ \A i \in (c + 1)..d : digits[i] \in Nat
        <4>1. \A i \in (c + 1)..d : i \in 1..d
          BY <2>1, <1>2
        <4>2. \A i \in 1..d : digits[i] \in Nat
          OBVIOUS
        <4> QED BY <4>1, <4>2, <1>2
      <3>2. s \in Seq(Nat) /\ Len(s) = IF c + 1 <= d THEN d - (c + 1) + 1 ELSE 0
        BY <3>1, SubSeqProperties
      <3> QED BY <3>2, <2>1, <1>2
    <2>3. r[1] = r[1 + c]
      <3>1. 1 \in 1..(d + c) /\ ~(1 > d)
        BY <2>1, <1>2
      <3> QED BY <3>1, <1>1, <1>2, <1>4 DEF Rests
    <2>4. ASSUME NEW i \in (c + 1)..d
          PROVE  ~Starts(code, SubSeq(digits, i, d))
      <3>1. i - c \in 1..Len(s) /\ i \in Nat
        BY <2>1, <2>2, <1>2
      <3> HIDE DEF s
      <3>2. SubSeq(digits, i, d) = SubSeq(s, i - c, Len(s))
        <4>1. /\ c + 1 \in 1..d /\ d \in 1..d /\ i - c \in 1..(d - (c + 1) + 1)
              /\ d - c \in 1..(d - (c + 1) + 1)
              /\ (c + 1) + (i - c) - 1 = i /\ (c + 1) + (d - c) - 1 = d
          BY <2>1, <1>2
        <4>2. SubSeq(SubSeq(digits, c + 1, d), i - c, d - c)
                = SubSeq(digits, (c + 1) + (i - c) - 1, (c + 1) + (d - c) - 1)
          <5>1. \A a, b \in 1..Len(digits) : \A m, n \in 1..(b - a + 1) :
                  SubSeq(SubSeq(digits, a, b), m, n) = SubSeq(digits, a + m - 1, a + n - 1)
            BY SubSeqOfSubSeq
          <5> HIDE DEF c
          <5> QED BY <4>1, <5>1
        <4> QED BY <4>1, <4>2, <2>2 DEF s
      <3>3. ~Starts(code, SubSeq(s, i - c, Len(s)))
        BY <3>1, <2>1 DEF Occurs
      <3> QED BY <3>2, <3>3
    <2>5. r[c + 1] = s
      <3>1. c + 1 \in 1..(d + 1)
        BY <2>1, <1>2
      <3> QED BY <2>4, <3>1, <1>1, RestLeft
    <2> QED BY <2>1, <2>3, <2>5, <1>1, <1>2
  <1> QED BY <1>3, <1>4

(* In an address book where the code is at the start only, the users found    *)
(* are those whose number is in it.                                           *)
LEMMA MatchesAre ==
  ASSUME book \in Books, PlainBook, NEW u \in Users
  PROVE  Matches(u) <=> InBook(u)
  <1>1. Phone[u] \in Seq(Nat)
    BY NumbersAssumption
  <1>2. ASSUME NEW e \in book
        PROVE  /\ e.code \in Seq(Nat) /\ e.code # <<>> /\ e.digits \in Seq(Nat)
               /\ RemoveCountryCode(e.code, e.digits) = Reduced(e.code, e.digits)
               /\ e.digits = Phone[u] => ~Starts(e.code, e.digits)
    <2>1. e \in [code : Seq(Nat) \ {<<>>}, digits : Seq(Nat)]
      BY NumbersAssumption
    <2>2. e.code \in Seq(Nat) /\ e.code # <<>> /\ e.digits \in Seq(Nat)
      BY <2>1
    <2>3. ~Occurs(e.code, Reduced(e.code, e.digits))
      BY DEF PlainBook, Reduced
    <2>4. RemoveCountryCode(e.code, e.digits) = Reduced(e.code, e.digits)
      BY <2>2, <2>3, RemovedIs
    <2>5. e.digits = Phone[u] => ~Starts(e.code, e.digits)
      BY DEF PlainBook
    <2> QED BY <2>2, <2>4, <2>5
  <1>3. ASSUME NEW e \in book
        PROVE  Reduced(e.code, e.digits) = Phone[u] <=> e.digits \in {Phone[u], e.code \o Phone[u]}
    <2> DEFINE c == e.code
               d == e.digits
               p == Phone[u]
    <2>1. c \in Seq(Nat) /\ d \in Seq(Nat) /\ p \in Seq(Nat) /\ (d = p => ~Starts(c, d))
      BY <1>1, <1>2
    <2> HIDE DEF c, d, p
    <2>2. d = c \o p => Starts(c, d) /\ SubSeq(d, Len(c) + 1, Len(d)) = p
      <3>1. SUFFICES ASSUME d = c \o p PROVE Starts(c, d) /\ SubSeq(d, Len(c) + 1, Len(d)) = p
        OBVIOUS
      <3>2. /\ Len(c) \in Nat /\ Len(p) \in Nat /\ Len(d) = Len(c) + Len(p)
            /\ \A i \in 1..Len(c) : d[i] = c[i]
            /\ \A i \in 1..Len(p) : d[Len(c) + i] = p[i]
        BY <3>1, <2>1
      <3>3. SubSeq(d, 1, Len(c)) = c
        BY <3>2, <2>1
      <3>4. SubSeq(d, Len(c) + 1, Len(d)) = p
        <4> DEFINE x == SubSeq(d, Len(c) + 1, Len(d))
        <4>1. \A i \in (Len(c) + 1)..Len(d) : d[i] \in Nat
          BY <3>2, <2>1
        <4>2. x \in Seq(Nat) /\ Len(x) = Len(p)
          BY <3>2, <2>1
        <4>3. ASSUME NEW i \in 1..Len(x) PROVE x[i] = p[i]
          <5>1. i \in 1..(Len(d) - (Len(c) + 1) + 1) /\ Len(c) + 1 + i - 1 = Len(c) + i
                /\ Len(c) + 1 \in Int /\ Len(d) \in Int
            BY <4>2, <3>2
          <5>2. x[i] = d[Len(c) + 1 + i - 1]
            BY <4>1, <5>1, SubSeqProperties
          <5> QED BY <5>1, <5>2, <4>2, <3>2
        <4> HIDE DEF x
        <4>4. x = p
          BY <4>2, <4>3, <2>1, SeqEqual
        <4> QED BY <4>4 DEF x
      <3> QED BY <3>2, <3>3, <3>4 DEF Starts
    <2>3. Starts(c, d) => d = c \o SubSeq(d, Len(c) + 1, Len(d))
      <3>1. SUFFICES ASSUME Starts(c, d) PROVE d = c \o SubSeq(d, Len(c) + 1, Len(d))
        OBVIOUS
      <3>2. Len(c) \in Nat /\ Len(d) \in Nat /\ Len(c) <= Len(d) /\ SubSeq(d, 1, Len(c)) = c
        BY <3>1, <2>1 DEF Starts
      <3>3. d = SubSeq(d, 1, Len(c)) \o SubSeq(d, Len(c) + 1, Len(d))
        <4>1. 1 \in 1..(Len(d) + 1) /\ Len(c) \in (1 - 1)..Len(d) /\ Len(d) \in Len(c)..Len(d)
              /\ SubSeq(d, 1, Len(d)) = d
          BY <3>2, <2>1
        <4>2. SubSeq(d, 1, Len(c)) \o SubSeq(d, Len(c) + 1, Len(d)) = SubSeq(d, 1, Len(d))
          BY <4>1, <2>1, ConcatAdjacentSubSeq
        <4> QED BY <4>1, <4>2
      <3> QED BY <3>2, <3>3
    <2>4. Reduced(c, d) = p <=> d \in {p, c \o p}
      BY <2>1, <2>2, <2>3 DEF Reduced
    <2> QED BY <2>4 DEF c, d, p
  <1>4. (\E e \in book : RemoveCountryCode(e.code, e.digits) = Phone[u])
          <=> \E e \in book : e.digits \in {Phone[u], e.code \o Phone[u]}
    BY <1>2, <1>3
  <1> QED BY <1>4 DEF Matches, InBook

--------------------------------------------------------------------------------
(* A list cut into sections.                                                  *)

After(s, u) == IF OfContacts THEN AddToContacts(s, u) ELSE AddTo(s, u)

Cutting(h, base, list) ==
  h[0] = base /\ \A n \in 1..Len(list) : h[n] = After(h[n - 1], list[n])

LEMMA CutIs ==
  ASSUME NEW base, NEW list, Len(list) \in Nat
  PROVE  \E h : Cutting(h, base, list) /\ Cut(base, list) = h[Len(list)]
  <1> DEFINE Step(f, m) == IF m = 0 THEN base
                           ELSE IF OfContacts THEN AddToContacts(f[m - 1], list[m])
                           ELSE AddTo(f[m - 1], list[m])
             Eq(f, N) == f = [n \in 0..N |-> Step(f, n)]
             T == {n \in Nat : \E f : Eq(f, n)}
  <1>1. 0 \in T
    <2> DEFINE f == [m \in 0..0 |-> base]
    <2>1. Eq(f, 0)
      OBVIOUS
    <2> HIDE DEF f
    <2>2. \E g : Eq(g, 0)
      BY <2>1
    <2> HIDE DEF Eq
    <2> QED BY <2>2
  <1>2. ASSUME NEW n \in Nat, n \in T
        PROVE  n + 1 \in T
    <2>1. PICK f : Eq(f, n)
      BY <1>2
    <2> DEFINE v == After(f[n], list[n + 1])
               g == [m \in 0..(n + 1) |-> IF m <= n THEN f[m] ELSE v]
    <2>2. (\A m \in 0..n : g[m] = f[m]) /\ g[n + 1] = v
      <3> HIDE DEF v
      <3> QED OBVIOUS
    <2>3. ASSUME NEW m \in 0..(n + 1)
          PROVE  g[m] = Step(g, m)
      <3> HIDE DEF g
      <3>1. CASE m <= n
        <4>1. m \in 0..n /\ (m # 0 => m - 1 \in 0..n)
          BY <3>1
        <4>2. f[m] = Step(f, m)
          BY <4>1, <2>1
        <4> QED BY <4>1, <4>2, <2>2
      <3>2. CASE m = n + 1
        <4>1. m - 1 = n /\ n \in 0..n /\ m # 0
          BY <3>2
        <4> QED BY <4>1, <3>2, <2>2 DEF After
      <3> QED BY <3>1, <3>2
    <2>4. Eq(g, n + 1)
      <3> HIDE DEF Step
      <3>1. \A m \in 0..(n + 1) : g[m] = Step(g, m)
        BY <2>3
      <3> QED BY <3>1
    <2> HIDE DEF g
    <2>5. \E k : Eq(k, n + 1)
      BY <2>4
    <2>6. n + 1 \in Nat
      OBVIOUS
    <2> HIDE DEF Eq
    <2> QED BY <2>5, <2>6
  <1> HIDE DEF T
  <1>3. \A n \in Nat : n \in T
    BY <1>1, <1>2, SetInduction
  <1>4. \E f : Eq(f, Len(list))
    BY <1>3 DEF T
  <1> DEFINE h == CHOOSE f : Eq(f, Len(list))
  <1>5. Eq(h, Len(list))
    BY <1>4
  <1>6. Cut(base, list) = h[Len(list)]
    BY DEF Cut
  <1> HIDE DEF h
  <1>7. Cutting(h, base, list)
    <2>1. \A n \in 0..Len(list) : h[n] = Step(h, n)
      BY <1>5
    <2>2. 0 \in 0..Len(list) /\ \A n \in 1..Len(list) : n \in 0..Len(list) /\ n # 0
      OBVIOUS
    <2> QED BY <2>1, <2>2 DEF Cutting, After
  <1> QED BY <1>6, <1>7

LEMMA Appended ==
  ASSUME NEW L, NEW S \in Seq(L), NEW t \in L
  PROVE  /\ Append(S, t) \in Seq(L) /\ Range(Append(S, t)) = Range(S) \cup {t}
         /\ Distinct(S) /\ t \notin Range(S) => Distinct(Append(S, t))
  <1> DEFINE T == Append(S, t)
             k == Len(S)
  <1>1. /\ k \in Nat /\ T \in Seq(L) /\ Len(T) = k + 1 /\ T[k + 1] = t
        /\ \A i \in 1..k : T[i] = S[i]
    BY AppendProperties, LenProperties
  <1> HIDE DEF T
  <1>2. DOMAIN T = 1..(k + 1) /\ DOMAIN S = 1..k
    BY <1>1, LenProperties
  <1>3. /\ \A i \in 1..(k + 1) : i \in 1..k \/ i = k + 1
        /\ \A i \in 1..k : i \in 1..(k + 1)
        /\ k + 1 \in 1..(k + 1)
    BY <1>1
  <1>4. Range(T) = Range(S) \cup {t}
    BY <1>1, <1>2, <1>3 DEF Range
  <1>5. Distinct(S) /\ t \notin Range(S) => Distinct(T)
    <2>1. t \notin Range(S) => \A i \in 1..k : T[i] # t
      BY <1>1, <1>2 DEF Range
    <2> QED BY <2>1, <1>1, <1>3 DEF Distinct
  <1> QED BY <1>1, <1>4, <1>5 DEF T

LEMMA AppendedInitial ==
  ASSUME NEW v \in Seq(Users), NEW u \in Users, \A i \in 1..Len(v) : Initial[v[i]] = Initial[u]
  PROVE  /\ Append(v, u) \in Seq(Users)
         /\ \A i \in 1..Len(Append(v, u)) : Initial[Append(v, u)[i]] = Initial[u]
  <1> DEFINE w == Append(v, u)
  <1>1. /\ w \in Seq(Users) /\ Len(w) = Len(v) + 1 /\ w[Len(v) + 1] = u /\ Len(v) \in Nat
        /\ \A i \in 1..Len(v) : w[i] = v[i]
    BY AppendProperties, LenProperties
  <1>2. \A i \in 1..(Len(v) + 1) : i \in 1..Len(v) \/ i = Len(v) + 1
    BY <1>1
  <1> HIDE DEF w
  <1>3. \A i \in 1..Len(w) : Initial[w[i]] = Initial[u]
    BY <1>1, <1>2
  <1> QED BY <1>1, <1>3 DEF w

LEMMA OneInitial ==
  ASSUME NEW u \in Users
  PROVE  /\ Append(<<>>, u) = <<u>> /\ <<u>> \in Seq(Users)
         /\ \A i \in 1..Len(<<u>>) : Initial[<<u>>[i]] = Initial[u]
  <1>1. <<>> \in Seq(Users) /\ <<u>> \in Seq(Users) /\ Len(<<u>>) = 1 /\ <<u>>[1] = u
    OBVIOUS
  <1>2. Append(<<>>, u) = <<>> \o <<u>>
    BY <1>1, AppendIsConcat
  <1>3. <<>> \o <<u>> = <<u>>
    BY <1>1, ConcatEmptySeq
  <1> QED BY <1>1, <1>2, <1>3

(* What one more user with the initial t does to titles T and sections G when *)
(* the last title was x.                                                      *)
Adds(x, T, G, u, t, T1, G1) ==
  /\ Cuts(T1, G1)
  /\ Range(T1) = Range(T) \cup {t}
  /\ G1[t] = IF t = x THEN Append(G[t], u) ELSE <<u>>
  /\ \A y \in Range(T) : y # t => G1[y] = G[y]
  /\ t = x => T1 = T
  /\ Distinct(T) /\ (OfContacts \/ t \notin Range(T)) => Distinct(T1)

(* The title before the first section.                                        *)
NoTitle == ""

LEMMA AfterIs ==
  ASSUME NEW s, Cuts(s.titles, s.groups), s.title \in {NoTitle} \cup Range(s.titles),
         NEW u \in Users
  PROVE  /\ After(s, u).title = Initial[u]
         /\ Adds(s.title, s.titles, s.groups, u, Initial[u], After(s, u).titles, After(s, u).groups)
  <1> DEFINE t == Initial[u]
             a == After(s, u)
  <1>1. t # NoTitle /\ t \in Letters
    BY UsersAssumption DEF Letters, NoTitle
  <1>2. /\ a.title = t /\ a.groups = Section(s, u)
        /\ \/ a.titles = s.titles /\ t \in Range(s.titles)
           \/ a.titles = Append(s.titles, t) /\ t # s.title /\ (OfContacts => t \notin Range(s.titles))
    <2>1. t = s.title => t \in Range(s.titles)
      BY <1>1
    <2> QED BY <2>1 DEF After, AddTo, AddToContacts
  <1>3. s.titles \in Seq(Letters) /\ DOMAIN s.groups = Range(s.titles)
    BY DEF Cuts
  <1> DEFINE T == a.titles
             G == a.groups
  <1>4. /\ T \in Seq(Letters) /\ Range(T) = Range(s.titles) \cup {t}
        /\ Distinct(s.titles) /\ (OfContacts \/ t \notin Range(s.titles)) => Distinct(T)
    <2> HIDE DEF T, t
    <2>1. CASE T = s.titles /\ t \in Range(s.titles)
      BY <2>1, <1>3
    <2>2. CASE T = Append(s.titles, t) /\ (OfContacts => t \notin Range(s.titles))
      <3>1. t \in Letters /\ s.titles \in Seq(Letters)
        BY <1>1, <1>3 DEF t
      <3> QED BY <3>1, <2>2, Appended
    <2> QED BY <2>1, <2>2, <1>2 DEF T, t
  <1> DEFINE w == Append(IF t = s.title THEN s.groups[t] ELSE <<>>, u)
  <1>5. G = [i \in Range(s.titles) \cup {t} |-> IF i = t THEN w ELSE s.groups[i]]
    <2> HIDE DEF t
    <2>1. Section(s, u) = [i \in DOMAIN s.groups \cup {t} |->
            IF i = t THEN Append(IF t = s.title THEN s.groups[t] ELSE <<>>, u) ELSE s.groups[i]]
      BY DEF Section, t
    <2> QED BY <2>1, <1>2, <1>3
  <1>6. /\ w \in Seq(Users) /\ \A i \in 1..Len(w) : Initial[w[i]] = t
        /\ w = IF t = s.title THEN Append(s.groups[t], u) ELSE <<u>>
    <2>1. CASE t = s.title
      <3>1. s.groups[t] \in Seq(Users) /\ \A i \in 1..Len(s.groups[t]) : Initial[s.groups[t][i]] = t
        BY <2>1, <1>1 DEF Cuts
      <3> QED BY <2>1, <3>1, AppendedInitial
    <2>2. CASE t # s.title
      <3>1. w = Append(<<>>, u)
        BY <2>2
      <3> HIDE DEF w
      <3> QED BY <2>2, <3>1, OneInitial
    <2> QED BY <2>1, <2>2
  <1> HIDE DEF w
  <1>7. /\ DOMAIN G = Range(T) /\ G[t] = w
        /\ \A x \in Range(s.titles) : x # t => G[x] = s.groups[x]
    <2> HIDE DEF t, G, T
    <2> QED BY <1>5, <1>4
  <1>8. Cuts(T, G)
    <2>1. ASSUME NEW x \in Range(T)
          PROVE  G[x] \in Seq(Users) /\ \A i \in 1..Len(G[x]) : Initial[G[x][i]] = x
      <3>1. CASE x = t
        <4> HIDE DEF t, G, T
        <4> QED BY <3>1, <1>6, <1>7
      <3>2. CASE x # t
        <4>1. x \in Range(s.titles) /\ G[x] = s.groups[x]
          <5> HIDE DEF t, G, T
          <5> QED BY <3>2, <1>4, <1>7
        <4>2. s.groups[x] \in Seq(Users) /\ \A i \in 1..Len(s.groups[x]) : Initial[s.groups[x][i]] = x
          BY <4>1 DEF Cuts
        <4> HIDE DEF t, G, T
        <4> QED BY <4>1, <4>2
      <3> QED BY <3>1, <3>2
    <2> HIDE DEF t, G, T
    <2> QED BY <2>1, <1>4, <1>7 DEF Cuts
  <1>9. t = s.title => T = s.titles
    BY <1>2
  <1> QED
    <2> HIDE DEF w
    <2>1. G[t] = IF t = s.title THEN Append(s.groups[t], u) ELSE <<u>>
      BY <1>6, <1>7
    <2> QED BY <2>1, <1>2, <1>4, <1>7, <1>8, <1>9 DEF Adds

(* The first n users of the list are cut: x is the last title, T and G are    *)
(* the titles and sections, T0 and G0 those there were.                       *)
Begun(list, n, t) == \E i \in 1..n : Initial[list[i]] = t

Part(list, n, x, T, G, T0, G0) ==
  /\ Cuts(T, G)
  /\ n = 0 => x = NoTitle
  /\ n > 0 => x = Initial[list[n]]
  /\ \A t \in Range(T) : t \in Range(T0) \/ Begun(list, n, t)
  /\ Range(T0) \subseteq Range(T)
  /\ \A i \in 1..n : Initial[list[i]] \in Range(T)
  /\ \A t \in Range(T) :
       IF Begun(list, n, t) THEN \A k \in 1..Len(G[t]) : \E i \in 1..n : G[t][k] = list[i]
       ELSE G[t] = G0[t]
  /\ OfContacts => Distinct(T)
  /\ Together(list) => Distinct(T) /\ \A i \in 1..n : Once(G[Initial[list[i]]], list[i])

LEMMA OnceAppended ==
  ASSUME NEW S, NEW s \in Seq(S), NEW u \in S, NEW v
  PROVE  /\ v # u /\ Once(s, v) => Once(Append(s, u), v)
         /\ (\A k \in 1..Len(s) : s[k] # u) => Once(Append(s, u), u)
         /\ \A k \in 1..Len(Append(s, u)) : Append(s, u)[k] = u \/ \E l \in 1..Len(s) : Append(s, u)[k] = s[l]
  <1> DEFINE w == Append(s, u)
             n == Len(s)
  <1>1. n \in Nat /\ Len(w) = n + 1 /\ w[n + 1] = u /\ \A i \in 1..n : w[i] = s[i]
    BY AppendProperties, LenProperties
  <1>2. /\ \A i \in 1..(n + 1) : i \in 1..n \/ i = n + 1
        /\ \A i \in 1..n : i \in 1..(n + 1)
        /\ n + 1 \in 1..(n + 1)
    BY <1>1
  <1> HIDE DEF w, n
  <1>3. ASSUME v # u, NEW i \in 1..n, s[i] = v, \A j \in 1..n : s[j] = v => j = i
        PROVE  i \in 1..(n + 1) /\ w[i] = v /\ \A j \in 1..(n + 1) : w[j] = v => j = i
    BY <1>1, <1>2, <1>3
  <1>4. ASSUME \A k \in 1..n : s[k] # u
        PROVE  w[n + 1] = u /\ \A j \in 1..(n + 1) : w[j] = u => j = n + 1
    BY <1>1, <1>2, <1>4
  <1>5. v # u /\ Once(s, v) => Once(w, v)
    BY <1>3, <1>1 DEF Once, n
  <1>6. (\A k \in 1..n : s[k] # u) => Once(w, u)
    BY <1>4, <1>2, <1>1 DEF Once
  <1>7. \A k \in 1..Len(w) : w[k] = u \/ \E l \in 1..n : w[k] = s[l]
    BY <1>1, <1>2
  <1> QED BY <1>5, <1>6, <1>7 DEF w, n

LEMMA OnceAlone == ASSUME NEW u PROVE Once(<<u>>, u)
  <1>1. Len(<<u>>) = 1 /\ <<u>>[1] = u /\ 1 \in 1..1
    OBVIOUS
  <1>2. \A j \in 1..1 : j = 1
    OBVIOUS
  <1> QED BY <1>1, <1>2 DEF Once

LEMMA PartStep ==
  ASSUME NEW list \in Seq(Users), Distinct(list), NEW n \in Nat, n + 1 <= Len(list),
         NEW x, NEW T, NEW G, NEW T0, NEW G0, Part(list, n, x, T, G, T0, G0),
         OfContacts \/ Range(T0) = {},
         NEW T1, NEW G1, NEW t, NEW u, u = list[n + 1], t = Initial[u], t # NoTitle,
         Adds(x, T, G, u, t, T1, G1)
  PROVE  Part(list, n + 1, t, T1, G1, T0, G0)
  <1>0. /\ Len(list) \in Nat /\ n + 1 \in 1..Len(list) /\ n + 1 > 0 /\ n + 1 # 0
        /\ \A i \in 1..(n + 1) : i \in 1..n \/ i = n + 1
        /\ \A i \in 1..n : i \in 1..(n + 1) /\ i \in 1..Len(list) /\ i # n + 1
        /\ n + 1 \in 1..(n + 1)
        /\ u \in Users
    <2>1. Len(list) \in Nat
      BY LenProperties
    <2>2. n + 1 \in 1..Len(list)
      BY <2>1
    <2>3. u \in Users
      BY <2>2
    <2> QED BY <2>1, <2>2, <2>3
  <1>1. /\ Cuts(T, G)
        /\ n = 0 => x = NoTitle
        /\ n > 0 => x = Initial[list[n]]
        /\ \A y \in Range(T) : y \in Range(T0) \/ Begun(list, n, y)
        /\ Range(T0) \subseteq Range(T)
        /\ \A i \in 1..n : Initial[list[i]] \in Range(T)
        /\ \A y \in Range(T) :
             IF Begun(list, n, y) THEN \A k \in 1..Len(G[y]) : \E i \in 1..n : G[y][k] = list[i]
             ELSE G[y] = G0[y]
        /\ OfContacts => Distinct(T)
        /\ Together(list) => Distinct(T) /\ \A i \in 1..n : Once(G[Initial[list[i]]], list[i])
    BY DEF Part
  <1>2. /\ t \in Range(T1) /\ \A y \in Range(T1) : y = t \/ y \in Range(T)
        /\ Range(T) \subseteq Range(T1) /\ Cuts(T1, G1)
        /\ t = x => T1 = T /\ G1[t] = Append(G[t], u)
        /\ t # x => G1[t] = <<u>>
        /\ \A y \in Range(T) : y # t => G1[y] = G[y]
        /\ Distinct(T) /\ (OfContacts \/ t \notin Range(T)) => Distinct(T1)
    BY DEF Adds
  <1>3. \A y : Begun(list, n + 1, y) <=> Begun(list, n, y) \/ y = t
    BY <1>0 DEF Begun
  <1>4. t = x => n > 0 /\ n \in 1..n /\ Begun(list, n, t) /\ t \in Range(T)
    <2>1. SUFFICES ASSUME t = x PROVE n > 0 /\ n \in 1..n /\ Begun(list, n, t) /\ t \in Range(T)
      OBVIOUS
    <2>2. n # 0
      BY <2>1, <1>1
    <2>3. n > 0 /\ n \in 1..n
      BY <2>2
    <2> QED BY <2>1, <2>3, <1>1 DEF Begun
  <1>5. ASSUME Together(list), t # x
        PROVE  ~Begun(list, n, t) /\ (OfContacts \/ t \notin Range(T))
    <2>1. ASSUME NEW i \in 1..n, Initial[list[i]] = t
          PROVE  FALSE
      <3>1. n > 0 /\ n \in 1..Len(list) /\ i \in 1..Len(list) /\ i <= n /\ n < n + 1
        BY <1>0
      <3>2. i # n
        BY <2>1, <1>5, <1>1, <3>1
      <3>3. i < n
        BY <3>1, <3>2
      <3>4. Initial[list[n]] = Initial[list[i]]
        BY <3>1, <3>3, <2>1, <1>0, <1>5 DEF Together
      <3> QED BY <3>1, <3>4, <2>1, <1>5, <1>1
    <2>2. ~Begun(list, n, t)
      BY <2>1 DEF Begun
    <2> QED BY <2>2, <1>1
  <1>6. t = x => G[t] \in Seq(Users)
    BY <1>4, <1>1 DEF Cuts
  <1>7. ASSUME NEW y \in Range(T1)
        PROVE  y \in Range(T0) \/ Begun(list, n + 1, y)
    BY <1>7, <1>1, <1>2, <1>3
  <1>8. Range(T0) \subseteq Range(T1) /\ \A i \in 1..(n + 1) : Initial[list[i]] \in Range(T1)
    BY <1>0, <1>1, <1>2
  <1>9. ASSUME NEW y \in Range(T1)
        PROVE  IF Begun(list, n + 1, y)
               THEN \A k \in 1..Len(G1[y]) : \E i \in 1..(n + 1) : G1[y][k] = list[i]
               ELSE G1[y] = G0[y]
    <2>1. CASE y # t
      <3>1. y \in Range(T) /\ G1[y] = G[y]
        BY <2>1, <1>9, <1>2
      <3>2. Begun(list, n + 1, y) <=> Begun(list, n, y)
        BY <2>1, <1>3
      <3>3. CASE Begun(list, n, y)
        <4>1. \A k \in 1..Len(G[y]) : \E i \in 1..n : G[y][k] = list[i]
          BY <3>1, <3>3, <1>1
        <4> QED BY <4>1, <3>1, <3>2, <3>3, <1>0
      <3>4. CASE ~Begun(list, n, y)
        BY <3>1, <3>2, <3>4, <1>1
      <3> QED BY <3>3, <3>4
    <2>2. CASE y = t /\ t # x
      <3>1. G1[y] = <<u>> /\ Begun(list, n + 1, y) /\ Len(<<u>>) = 1 /\ <<u>>[1] = u
        BY <2>2, <1>2, <1>3
      <3>2. \A k \in 1..1 : k = 1
        OBVIOUS
      <3> QED BY <3>1, <3>2, <1>0
    <2>3. CASE y = t /\ t = x
      <3>1. G1[y] = Append(G[t], u) /\ Begun(list, n + 1, y)
        BY <2>3, <1>2, <1>3
      <3>2. \A k \in 1..Len(G[t]) : \E i \in 1..n : G[t][k] = list[i]
        BY <2>3, <1>4, <1>1
      <3>3. ASSUME NEW k \in 1..Len(G1[y])
            PROVE  \E i \in 1..(n + 1) : G1[y][k] = list[i]
        <4>1. G1[y][k] = u \/ \E l \in 1..Len(G[t]) : G1[y][k] = G[t][l]
          BY <3>1, <1>0, <1>6, <2>3, OnceAppended
        <4> QED BY <4>1, <3>2, <1>0
      <3> QED BY <3>1, <3>3
    <2> QED BY <2>1, <2>2, <2>3
  <1>10. OfContacts => Distinct(T1)
    BY <1>1, <1>2
  <1>11. ASSUME Together(list)
         PROVE  Distinct(T1)
    BY <1>11, <1>1, <1>2, <1>5
  <1>12. ASSUME Together(list), NEW i \in 1..(n + 1)
         PROVE  Once(G1[Initial[list[i]]], list[i])
    <2>1. CASE i \in 1..n
      <3>1. Once(G[Initial[list[i]]], list[i]) /\ Initial[list[i]] \in Range(T)
        BY <2>1, <1>12, <1>1
      <3>2. CASE Initial[list[i]] # t
        BY <3>1, <3>2, <1>2
      <3>3. CASE Initial[list[i]] = t
        <4>1. t = x
          BY <1>5, <1>12, <2>1, <3>3 DEF Begun
        <4>2. list[i] # u
          BY <2>1, <1>0 DEF Distinct
        <4>3. G1[t] = Append(G[t], u)
          BY <4>1, <1>2
        <4>4. Once(G[t], list[i]) /\ G[t] \in Seq(Users)
          BY <4>1, <3>1, <3>3, <1>6
        <4>5. Once(Append(G[t], u), list[i])
          BY <4>2, <4>4, <1>0, OnceAppended
        <4> QED BY <4>3, <4>5, <3>3
      <3> QED BY <3>2, <3>3
    <2>2. CASE i = n + 1 /\ t # x
      <3>1. G1[t] = <<u>>
        BY <2>2, <1>2
      <3> QED BY <3>1, <2>2, OnceAlone
    <2>3. CASE i = n + 1 /\ t = x
      <3>1. \A k \in 1..Len(G[t]) : \E j \in 1..n : G[t][k] = list[j]
        BY <2>3, <1>4, <1>1
      <3>2. \A k \in 1..Len(G[t]) : G[t][k] # u
        BY <3>1, <1>0 DEF Distinct
      <3>3. G1[t] = Append(G[t], u)
        BY <2>3, <1>2
      <3> QED BY <2>3, <3>2, <3>3, <1>0, <1>6, OnceAppended
    <2> QED BY <2>1, <2>2, <2>3, <1>0
  <1> QED
    <2>1. (n + 1 = 0 => t = NoTitle) /\ (n + 1 > 0 => t = Initial[list[n + 1]])
      BY <1>0
    <2> QED BY <2>1, <1>2, <1>7, <1>8, <1>9, <1>10, <1>11, <1>12 DEF Part

(* Where the list is cut, each user has one row if no initial comes again;    *)
(* nobody is in a section who is neither of the list nor was in it.           *)
LEMMA CutAre ==
  ASSUME NEW list \in Seq(Users), Distinct(list), NEW T0, NEW G0, Cuts(T0, G0), Distinct(T0),
         OfContacts \/ Range(T0) = {}
  PROVE  LET c == Cut([title |-> "", titles |-> T0, groups |-> G0], list)
         IN  /\ Cuts(c.titles, c.groups) /\ (OfContacts => Distinct(c.titles))
             /\ Together(list) => Holds(c.titles, c.groups, list)
             /\ \A t \in Range(c.titles) : \A k \in 1..Len(c.groups[t]) :
                  \/ c.groups[t][k] \in Range(list)
                  \/ t \in Range(T0) /\ c.groups[t] = G0[t]
  <1> DEFINE base == [title |-> "", titles |-> T0, groups |-> G0]
  <1>1. Len(list) \in Nat /\ DOMAIN list = 1..Len(list) /\ \A i \in 1..Len(list) : list[i] \in Users
    BY LenProperties
  <1>2. PICK h : Cutting(h, base, list) /\ Cut(base, list) = h[Len(list)]
    BY <1>1, CutIs
  <1> DEFINE Good(n) == Part(list, n, h[n].title, h[n].titles, h[n].groups, T0, G0)
             S == {n \in Nat : n <= Len(list) => Good(n)}
  <1>3. 0 \in S
    <2>1. h[0].title = NoTitle /\ h[0].titles = T0 /\ h[0].groups = G0
      <3>1. h[0] = base
        BY <1>2 DEF Cutting
      <3>2. base.title = NoTitle /\ base.titles = T0 /\ base.groups = G0
        BY DEF NoTitle
      <3> HIDE DEF base
      <3> QED BY <3>1, <3>2
    <2>2. Part(list, 0, NoTitle, T0, G0, T0, G0)
      <3>1. \A t : ~Begun(list, 0, t)
        BY DEF Begun
      <3>2. 1..0 = {}
        OBVIOUS
      <3> QED BY <3>1, <3>2 DEF Part
    <2>3. Good(0)
      BY <2>1, <2>2
    <2> HIDE DEF Good
    <2> QED BY <2>3
  <1>4. ASSUME NEW n \in Nat, n \in S
        PROVE  n + 1 \in S
    <2>1. SUFFICES ASSUME n + 1 <= Len(list) PROVE Good(n + 1)
      <3> HIDE DEF Good
      <3> QED OBVIOUS
    <2>2. Good(n)
      <3> HIDE DEF Good
      <3> QED BY <1>4, <2>1, <1>1
    <2> DEFINE u == list[n + 1]
               t == Initial[u]
               s == h[n]
               a == h[n + 1]
    <2>3. n + 1 \in 1..Len(list) /\ u \in Users /\ (n + 1) - 1 = n
      BY <2>1, <1>1
    <2>4. a = After(s, u)
      BY <2>3, <1>2 DEF Cutting
    <2>5. Cuts(s.titles, s.groups) /\ s.title \in {NoTitle} \cup Range(s.titles)
      <3>1. n = 0 \/ (n > 0 /\ n \in 1..n)
        OBVIOUS
      <3> HIDE DEF s
      <3>2. Part(list, n, s.title, s.titles, s.groups, T0, G0)
        BY <2>2 DEF s
      <3> QED BY <3>1, <3>2 DEF Part
    <2>6. a.title = t /\ Adds(s.title, s.titles, s.groups, u, t, a.titles, a.groups)
      <3> HIDE DEF s, u
      <3> QED BY <2>3, <2>4, <2>5, AfterIs
    <2>7. t # NoTitle
      BY <2>3, UsersAssumption DEF NoTitle
    <2>8. Part(list, n + 1, t, a.titles, a.groups, T0, G0)
      <3> HIDE DEF s, u, a, t
      <3>1. u = list[n + 1] /\ t = Initial[u]
        BY DEF u, t
      <3>2. Part(list, n, s.title, s.titles, s.groups, T0, G0)
        BY <2>2 DEF s
      <3> QED BY <3>1, <3>2, <2>1, <2>6, <2>7, PartStep
    <2> QED BY <2>6, <2>8
  <1> HIDE DEF S
  <1>5. \A n \in Nat : n \in S
    BY <1>3, <1>4, SetInduction
  <1>6. Good(Len(list))
    <2> HIDE DEF Good
    <2> QED BY <1>5, <1>1 DEF S
  <1> DEFINE c == Cut(base, list)
             T == c.titles
             G == c.groups
  <1>7. PICK x : Part(list, Len(list), x, T, G, T0, G0)
    BY <1>6, <1>2
  <1> HIDE DEF T, G
  <1>8. Cuts(T, G) /\ (OfContacts => Distinct(T))
    BY <1>7 DEF Part
  <1>9. Together(list) => Holds(T, G, list)
    BY <1>7 DEF Part, Holds
  <1>10. ASSUME NEW t \in Range(T), NEW k \in 1..Len(G[t])
         PROVE  G[t][k] \in Range(list) \/ (t \in Range(T0) /\ G[t] = G0[t])
    <2>1. CASE Begun(list, Len(list), t)
      <3>1. PICK i \in 1..Len(list) : G[t][k] = list[i]
        BY <2>1, <1>7, <1>10 DEF Part
      <3> QED BY <3>1, <1>1 DEF Range
    <2>2. CASE ~Begun(list, Len(list), t)
      BY <2>2, <1>7, <1>10 DEF Part
    <2> QED BY <2>1, <2>2
  <1> QED BY <1>8, <1>9, <1>10 DEF T, G

--------------------------------------------------------------------------------
(* The invariant, step by step.                                               *)

LEMMA NoCuts == Cuts(<<>>, <<>>) /\ Distinct(<<>>) /\ Range(<<>>) = {}
  <1>1. Len(<<>>) = 0 /\ <<>> \in Seq(Letters) /\ DOMAIN <<>> = {} /\ 1..0 = {}
    OBVIOUS
  <1>2. Range(<<>>) = {}
    BY <1>1 DEF Range
  <1> QED BY <1>1, <1>2 DEF Cuts, Distinct

LEMMA NoList == ASSUME NEW S PROVE <<>> \in Seq(S) /\ Sorted(<<>>, Names) /\ Holds(<<>>, <<>>, <<>>)
  <1>1. Len(<<>>) = 0 /\ <<>> \in Seq(S) /\ 1..0 = {}
    OBVIOUS
  <1> QED BY <1>1, NoCuts DEF Sorted, Holds

LEMMA NamesAre == Names \in Seq(Users) /\ Distinct(Names) /\ Range(Names) = Users
  BY UsersAssumption DEF Distinct, Users

LEMMA SortedDistinct ==
  ASSUME NEW L \in Seq(Users), Sorted(L, Names)
  PROVE  Distinct(L)
  <1>1. \A i \in 1..Len(L) : L[i] \in Users /\ i \in Int
    OBVIOUS
  <1>2. \A u \in Users : \E a \in 1..Len(Names) : Names[a] = u /\ ~(a < a)
    <2>1. DOMAIN Names = 1..Len(Names)
      BY NamesAre, LenProperties
    <2>2. \A u \in Users : \E a \in DOMAIN Names : Names[a] = u
      BY DEF Users, Range
    <2> QED BY <2>1, <2>2
  <1>3. ASSUME NEW i \in 1..Len(L), NEW j \in 1..Len(L), L[i] = L[j], i < j
        PROVE  FALSE
    BY <1>1, <1>2, <1>3 DEF Sorted
  <1>4. ASSUME NEW i \in 1..Len(L), NEW j \in 1..Len(L), L[i] = L[j]
        PROVE  i = j
    <2>1. i < j \/ j < i \/ i = j
      BY <1>1
    <2> QED BY <2>1, <1>3, <1>4
  <1> QED BY <1>4 DEF Distinct

LEMMA InvInit == Init => Inv
  <1> SUFFICES ASSUME Init PROVE Inv
    OBVIOUS
  <1>1. /\ kind \in Kinds /\ book \in Books /\ known \subseteq Users /\ segment = "city"
        /\ queries = {[n |-> 0, filter |-> IF OfContacts THEN "all" ELSE "city"]}
        /\ all = <<>> /\ titles = <<>> /\ groups = <<>>
        /\ text = NoText /\ answer = None /\ gone = {}
    BY DEF Init
  <1>2. ListsInv
    BY <1>1, NoCuts, NoList DEF ListsInv
  <1>3. KnownInv
    BY <1>1 DEF KnownInv, None
  <1>4. ContactsInv
    BY <1>1 DEF ContactsInv
  <1>5. AnswerInv
    BY <1>1 DEF AnswerInv
  <1>6. RowsInv
    BY <1>1, NoCuts DEF RowsInv
  <1>7. SearchInv
    BY <1>1 DEF SearchInv
  <1>8. FilterInv
    <2>1. kind \in {"nearby", "invite"} => ~OfContacts
      BY DEF OfContacts
    <2> QED BY <1>1, <2>1 DEF FilterInv
  <1> QED BY <1>2, <1>3, <1>4, <1>5, <1>6, <1>7, <1>8 DEF Inv

(* What the lists are depends on nothing but the screen.                      *)
LEMMA ListsBecome ==
  ASSUME NEW L, NEW T, NEW G, kind' = kind, all' = L, titles' = T, groups' = G
  PROVE  ListsInv' <=> /\ L \in Seq(Users) /\ Sorted(L, Names)
                       /\ Cuts(T, G)
                       /\ OfContacts => Distinct(T)
                       /\ Together(L) => Holds(T, G, L)
  <1>1. Sorted(all, Names)' <=> Sorted(L, Names)
    BY DEF Sorted
  <1>2. Cuts(titles, groups)' <=> Cuts(T, G)
    BY DEF Cuts
  <1>3. (Together(all)' <=> Together(L)) /\ (Distinct(titles)' <=> Distinct(T))
    BY DEF Together, Distinct
  <1>4. Holds(titles, groups, all)' <=> Holds(T, G, L)
    <2>1. (\A i \in 1..Len(all) : Initial[all[i]] \in Range(titles)
                                  /\ Once(groups[Initial[all[i]]], all[i]))'
          <=> \A i \in 1..Len(L) : Initial[L[i]] \in Range(T) /\ Once(G[Initial[L[i]]], L[i])
      BY DEF Once
    <2> QED BY <2>1, <1>3 DEF Holds
  <1>5. OfContacts' <=> OfContacts
    BY DEF OfContacts
  <1>6. (all \in Seq(Users))' <=> L \in Seq(Users)
    OBVIOUS
  <1> QED BY <1>1, <1>2, <1>3, <1>4, <1>5, <1>6 DEF ListsInv

LEMMA ListsStay ==
  ASSUME ListsInv, UNCHANGED <<kind, lists>>
  PROVE  ListsInv'
  <1>1. PICK L, T, G : L = all /\ T = titles /\ G = groups
    OBVIOUS
  <1>2. kind' = kind /\ all' = L /\ titles' = T /\ groups' = G
    BY <1>1 DEF lists
  <1>3. /\ L \in Seq(Users) /\ Sorted(L, Names)
        /\ Cuts(T, G)
        /\ OfContacts => Distinct(T)
        /\ Together(L) => Holds(T, G, L)
    BY <1>1 DEF ListsInv
  <1> QED BY <1>2, <1>3, ListsBecome

LEMMA SameMatches ==
  ASSUME book' = book
  PROVE  \A u : Matches(u)' <=> Matches(u)
  BY DEF Matches

LEMMA SameAnswered ==
  ASSUME UNCHANGED <<kind, book, answer>>
  PROVE  Answered' = Answered
  <1>1. \A u : Matches(u)' <=> Matches(u)
    BY SameMatches
  <1> QED BY <1>1 DEF Answered, OfContacts, Within

LEMMA RowsStay ==
  ASSUME RowsInv, UNCHANGED <<kind, book, lists, answer>>, gone \subseteq gone'
  PROVE  RowsInv'
  <1>1. \A u : Matches(u)' <=> Matches(u)
    BY SameMatches
  <1>2. kind' = kind /\ all' = all /\ titles' = titles /\ groups' = groups /\ answer' = answer
    BY DEF lists
  <1>3. \A u : Sectioned(u) => Sectioned(u)'
    BY <1>1, <1>2 DEF Sectioned, OfContacts
  <1> QED BY <1>2, <1>3 DEF RowsInv

LEMMA AnswerStays ==
  ASSUME AnswerInv, UNCHANGED <<kind, book, all, answer>>
  PROVE  AnswerInv'
  <1>1. Answered' = Answered
    BY SameAnswered
  <1> QED BY <1>1 DEF AnswerInv

LEMMA SearchStays ==
  ASSUME SearchInv, UNCHANGED <<all, text, filtered, stale>>
  PROVE  SearchInv'
  BY DEF SearchInv, Distinct

(* An answer, cut into the sections there were or into none.                  *)
LEMMA AnswerCuts ==
  ASSUME NEW set, set \subseteq Users, NEW T0, NEW G0,
         Cuts(T0, G0), Distinct(T0), OfContacts \/ Range(T0) = {},
         kind' = kind, Show(Kept(Names, set), Cut([title |-> "", titles |-> T0, groups |-> G0],
                                                  Kept(Names, set)))
  PROVE  /\ ListsInv' /\ Range(all') = set
         /\ \A t \in Range(titles') : \A k \in 1..Len(groups'[t]) :
              \/ groups'[t][k] \in set
              \/ t \in Range(T0) /\ groups'[t] = G0[t]
  <1> DEFINE L == Kept(Names, set)
             c == Cut([title |-> "", titles |-> T0, groups |-> G0], L)
             T == c.titles
             G == c.groups
  <1>1. all' = L /\ titles' = T /\ groups' = G
    BY DEF Show
  <1>2. L \in Seq(Users) /\ Sorted(L, Names) /\ Distinct(L) /\ Range(L) = set
    <2>1. Sorted(L, Names) /\ L \in Seq(Users) /\ Distinct(L) /\ Range(L) = Range(Names) \cap set
      BY NamesAre, KeptAre
    <2> HIDE DEF L
    <2> QED BY <2>1, NamesAre
  <1> HIDE DEF L
  <1>3. /\ Cuts(T, G) /\ (OfContacts => Distinct(T))
        /\ Together(L) => Holds(T, G, L)
        /\ \A t \in Range(T) : \A k \in 1..Len(G[t]) :
             \/ G[t][k] \in Range(L)
             \/ t \in Range(T0) /\ G[t] = G0[t]
    BY <1>2, CutAre
  <1> HIDE DEF T, G
  <1>4. ListsInv'
    BY <1>1, <1>2, <1>3, ListsBecome
  <1> QED BY <1>1, <1>2, <1>3, <1>4

LEMMA AnswerKeeps ==
  ASSUME Inv, NEW q \in queries, Answer(q)
  PROVE  ListsInv' /\ AnswerInv' /\ RowsInv'
  <1> DEFINE found == Found(q.filter)
             set == {u \in found : OfContacts => Matches(u)}
             T0 == IF OfContacts THEN titles ELSE <<>>
             G0 == IF OfContacts THEN groups ELSE <<>>
  <1>1. /\ kind' = kind /\ book' = book /\ gone' = gone
        /\ answer' = [filter |-> q.filter, known |-> known]
        /\ IF OfContacts THEN ContactsAnswer(q) ELSE ListAnswer(q)
    BY DEF Answer
  <1>2. found \subseteq Users /\ found = (known \cap Within(q.filter)) \ {Me} /\ set \subseteq Users
    BY DEF Inv, KnownInv, Found
  <1>3. Cuts(T0, G0) /\ Distinct(T0) /\ (OfContacts \/ Range(T0) = {})
    BY NoCuts DEF Inv, ListsInv
  <1>4. Show(Kept(Names, set), Cut([title |-> "", titles |-> T0, groups |-> G0], Kept(Names, set)))
    <2>1. CASE OfContacts
      <3>1. set = {u \in found : Matches(u)} /\ T0 = titles /\ G0 = groups
        BY <2>1
      <3>2. Show(Kept(Names, {u \in found : Matches(u)}),
                 Cut(OldSections, Kept(Names, {u \in found : Matches(u)})))
        BY <2>1, <1>1 DEF ContactsAnswer
      <3> HIDE DEF set, T0, G0
      <3> QED BY <3>1, <3>2 DEF OldSections
    <2>2. CASE ~OfContacts
      <3>1. set = found /\ T0 = <<>> /\ G0 = <<>>
        BY <2>2
      <3>2. Show(Kept(Names, found), Cut(NoSections, Kept(Names, found)))
        BY <2>2, <1>1 DEF ListAnswer
      <3> HIDE DEF set, T0, G0
      <3> QED BY <3>1, <3>2 DEF NoSections
    <2> QED BY <2>1, <2>2
  <1>5. PICK S, T, G : S = set /\ T = T0 /\ G = G0
    OBVIOUS
  <1>6. /\ ListsInv' /\ Range(all') = S
        /\ \A t \in Range(titles') : \A k \in 1..Len(groups'[t]) :
             \/ groups'[t][k] \in S
             \/ t \in Range(T) /\ groups'[t] = G[t]
    <2>1. /\ S \subseteq Users /\ Cuts(T, G) /\ Distinct(T) /\ (OfContacts \/ Range(T) = {})
          /\ Show(Kept(Names, S), Cut([title |-> "", titles |-> T, groups |-> G], Kept(Names, S)))
      <3> HIDE DEF set, T0, G0
      <3> QED BY <1>2, <1>3, <1>4, <1>5
    <2> QED BY <2>1, <1>1, AnswerCuts
  <1>7. \A u : (Matches(u)' <=> Matches(u)) /\ (OfContacts' <=> OfContacts)
    BY <1>1, SameMatches DEF OfContacts
  <1>8. Answered' = set
    <2>1. Within(answer.filter)' = Within(q.filter)
      BY <1>1 DEF Within
    <2>2. Answered' = {u \in (answer'.known \cap Within(answer.filter)') \ {Me} : OfContacts => Matches(u)}
      BY <1>7 DEF Answered
    <2>3. answer'.known = known
      BY <1>1
    <2> QED BY <2>1, <2>2, <2>3, <1>2
  <1>9. AnswerInv'
    BY <1>5, <1>6, <1>8 DEF AnswerInv
  <1>10. RowsInv'
    <2>0. PICK T1, G1 : T1 = titles' /\ G1 = groups'
      OBVIOUS
    <2>1. ASSUME NEW t \in Range(T1), NEW k \in 1..Len(G1[t])
          PROVE  Sectioned(G1[t][k])'
      <3>9. PICK u : u = G1[t][k]
        OBVIOUS
      <3>8. SUFFICES Sectioned(u)'
        BY <3>9
      <3>0. u \in S \/ (t \in Range(T) /\ G1[t] = G[t])
        BY <1>6, <2>0, <3>9
      <3>1. answer'.known = known
        BY <1>1
      <3>2. CASE u \in S
        <4>1. u \in set /\ u \in Range(all')
          BY <3>2, <1>5, <1>6
        <4>2. u \in known /\ u # Me /\ (OfContacts => Matches(u))
          BY <4>1, <1>2
        <4> QED BY <4>1, <4>2, <3>1, <1>7 DEF Sectioned
      <3>3. CASE t \in Range(T) /\ G1[t] = G[t]
        <4>1. OfContacts /\ t \in Range(titles) /\ u = groups[t][k] /\ k \in 1..Len(groups[t])
          BY <3>3, <3>9, <1>3, <1>5
        <4>2. Matches(u) /\ u # Me /\ u \in answer.known \cup gone
          BY <4>1 DEF Inv, RowsInv, Sectioned
        <4>3. u \in known \cup gone
          BY <4>2 DEF Inv, KnownInv
        <4> QED BY <4>1, <4>2, <4>3, <3>1, <1>1, <1>7 DEF Sectioned
      <3> QED BY <3>0, <3>2, <3>3
    <2> QED BY <2>0, <2>1 DEF RowsInv
  <1> QED BY <1>6, <1>9, <1>10

LEMMA AnswerStep ==
  ASSUME Inv, NEW q \in queries, Answer(q)
  PROVE  Inv'
  <1>1. /\ kind' = kind /\ book' = book /\ known' = known /\ gone' = gone /\ text' = text
        /\ segment' = segment /\ overlapped' = overlapped /\ returned' = returned
        /\ queries' = queries \ {q} /\ answer' = [filter |-> q.filter, known |-> known]
        /\ stale' = (text # NoText)
    BY DEF Answer
  <1>2. ListsInv' /\ AnswerInv' /\ RowsInv'
    BY AnswerKeeps
  <1>3. answer'.known = known /\ answer'.filter = q.filter
    BY <1>1
  <1>4. KnownInv'
    BY <1>1, <1>3 DEF Inv, KnownInv
  <1>5. ContactsInv'
    BY <1>1, <1>3 DEF Inv, ContactsInv, OfContacts
  <1>6. SearchInv'
    BY <1>1 DEF SearchInv
  <1>7. FilterInv'
    BY <1>1, <1>3 DEF Inv, FilterInv
  <1> QED BY <1>2, <1>4, <1>5, <1>6, <1>7 DEF Inv

LEMMA FailStep ==
  ASSUME Inv, NEW q \in queries, Fail(q)
  PROVE  Inv'
  <1>1. /\ kind' = kind /\ book' = book /\ known' = known /\ gone' = gone /\ text' = text
        /\ segment' = segment /\ overlapped' = overlapped /\ returned' = returned
        /\ queries' = queries \ {q}
        /\ IF OfContacts THEN ContactsFail ELSE ListFail
        /\ stale' = (text # NoText)
    BY DEF Fail
  <1>2. SearchInv'
    BY <1>1 DEF SearchInv
  <1>3. CASE OfContacts
    <2>1. UNCHANGED lists /\ answer' = answer /\ all' = all
      BY <1>1, <1>3 DEF ContactsFail, lists
    <2>2. ListsInv'
      BY <1>1, <2>1, ListsStay DEF Inv
    <2>3. KnownInv' /\ ContactsInv'
      BY <1>1, <2>1 DEF Inv, KnownInv, ContactsInv, OfContacts
    <2>4. AnswerInv'
      BY <1>1, <2>1, AnswerStays DEF Inv
    <2>5. RowsInv'
      BY <1>1, <2>1, RowsStay DEF Inv
    <2>6. FilterInv'
      BY <1>1, <1>3 DEF FilterInv, OfContacts
    <2> QED BY <1>2, <2>2, <2>3, <2>4, <2>5, <2>6 DEF Inv
  <1>4. CASE ~OfContacts
    <2>1. all' = <<>> /\ titles' = <<>> /\ groups' = <<>> /\ answer' = None
      <3>1. Show(<<>>, NoSections) /\ answer' = None
        BY <1>1, <1>4 DEF ListFail
      <3>2. NoSections.titles = <<>> /\ NoSections.groups = <<>>
        BY DEF NoSections
      <3> QED BY <3>1, <3>2 DEF Show
    <2>2. ListsInv'
      BY <1>1, <2>1, NoList, NoCuts, ListsBecome
    <2>3. answer'.known = {}
      BY <2>1 DEF None
    <2>4. KnownInv'
      BY <1>1, <2>3 DEF Inv, KnownInv
    <2>5. ContactsInv'
      BY <1>1, <1>4 DEF ContactsInv, OfContacts
    <2>6. AnswerInv'
      <3>1. None' = None
        BY DEF None
      <3> QED BY <2>1, <3>1 DEF AnswerInv
    <2>7. RowsInv'
      BY <2>1, NoCuts DEF RowsInv
    <2>8. FilterInv'
      BY <1>1, <2>1 DEF Inv, FilterInv, None
    <2> QED BY <1>2, <2>2, <2>4, <2>5, <2>6, <2>7, <2>8 DEF Inv
  <1> QED BY <1>3, <1>4

(* What leaves the lists alone, and what is known.                            *)
Frame == UNCHANGED <<kind, book, known, lists, answer, gone>>

LEMMA FrameStays ==
  ASSUME Inv, Frame
  PROVE  ListsInv' /\ KnownInv' /\ AnswerInv' /\ RowsInv'
  <1>1. /\ kind' = kind /\ book' = book /\ known' = known /\ UNCHANGED lists /\ all' = all
        /\ answer' = answer /\ gone' = gone
    BY DEF Frame, lists
  <1>2. ListsInv'
    BY <1>1, ListsStay DEF Inv
  <1>3. KnownInv'
    BY <1>1 DEF Inv, KnownInv
  <1>4. AnswerInv'
    BY <1>1, AnswerStays DEF Inv
  <1>5. RowsInv'
    BY <1>1, RowsStay DEF Inv
  <1> QED BY <1>2, <1>3, <1>4, <1>5

LEMMA SearchStep ==
  ASSUME Inv, NEW t, Search(t)
  PROVE  Inv'
  <1>1. /\ kind' = kind /\ answer' = answer /\ queries' = queries /\ all' = all
        /\ segment' = segment /\ overlapped' = overlapped /\ returned' = returned
        /\ text' = t /\ filtered' = Searched(t)
    BY DEF Search, lists
  <1>2. Frame
    BY DEF Search, Frame
  <1>3. ContactsInv' /\ FilterInv'
    BY <1>1 DEF Inv, ContactsInv, OfContacts, FilterInv
  <1>4. SearchInv'
    <2>1. PICK L : L = all
      OBVIOUS
    <2>2. L \in Seq(Users) /\ Distinct(L)
      <3>1. L \in Seq(Users) /\ Sorted(L, Names)
        BY <2>1 DEF Inv, ListsInv
      <3> QED BY <3>1, SortedDistinct
    <2>3. Kept(L, t) \in Seq(Users) /\ Distinct(Kept(L, t)) /\ Range(Kept(L, t)) = Range(L) \cap t
      BY <2>2, KeptAre
    <2>4. PICK F : F = Kept(L, t)
      OBVIOUS
    <2>5. filtered' = F /\ all' = L
      BY <1>1, <2>1, <2>4 DEF Searched
    <2> QED BY <1>1, <2>3, <2>4, <2>5 DEF SearchInv, Distinct
  <1> QED BY <1>2, <1>3, <1>4, FrameStays DEF Inv

LEMMA SegmentStep ==
  ASSUME Inv, NEW filter, SelectSegment(filter)
  PROVE  Inv'
  <1>1. /\ kind' = kind /\ answer' = answer /\ segment' = filter /\ kind \in {"nearby", "invite"}
        /\ queries' = queries \cup {[n |-> loads, filter |-> filter]}
        /\ overlapped' = (queries # {})
        /\ UNCHANGED <<all, text, filtered, stale>>
    BY DEF SelectSegment, Load, lists
  <1>2. Frame
    BY DEF SelectSegment, Frame
  <1>3. ContactsInv'
    BY <1>1 DEF ContactsInv, OfContacts
  <1>4. FilterInv'
    <2>1. PICK e : e = [n |-> loads, filter |-> filter]
      OBVIOUS
    <2>2. e.filter = filter /\ (~overlapped' => queries' = {e})
      BY <1>1, <2>1
    <2> QED BY <1>1, <2>2 DEF FilterInv
  <1>5. SearchInv'
    BY <1>1, SearchStays DEF Inv
  <1> QED BY <1>2, <1>3, <1>4, <1>5, FrameStays DEF Inv

LEMMA ReturnStep ==
  ASSUME Inv, Return
  PROVE  Inv'
  <1>1. /\ kind' = kind /\ answer' = answer /\ segment' = segment
        /\ UNCHANGED <<all, text, filtered, stale>>
        /\ NearbyAppears \/ InviteAppears \/ ContactsAppear
    BY DEF Return, lists
  <1>2. Frame
    BY DEF Return, Frame
  <1>3. SearchInv'
    BY <1>1, SearchStays DEF Inv
  <1>4. ContactsInv' /\ FilterInv'
    <2>1. CASE NearbyAppears
      BY <1>1, <2>1 DEF NearbyAppears, Inv, ContactsInv, FilterInv, OfContacts
    <2>2. CASE InviteAppears
      <3>1. /\ kind = "invite" /\ overlapped' = (queries # {}) /\ returned' = (segment # "city")
            /\ queries' = queries \cup {[n |-> loads, filter |-> "city"]}
        BY <2>2 DEF InviteAppears, Load
      <3>2. ContactsInv'
        BY <1>1, <3>1 DEF ContactsInv, OfContacts
      <3>3. PICK e : e = [n |-> loads, filter |-> "city"]
        OBVIOUS
      <3>4. e.filter = "city" /\ (~overlapped' => queries' = {e})
        BY <3>1, <3>3
      <3>5. FilterInv'
        BY <1>1, <3>1, <3>4 DEF FilterInv
      <3> QED BY <3>2, <3>5
    <2>3. CASE ContactsAppear
      <3>1. OfContacts /\ queries' = queries \cup {[n |-> loads, filter |-> "all"]}
        BY <2>3 DEF ContactsAppear, Load
      <3>2. FilterInv'
        BY <1>1, <3>1 DEF FilterInv, OfContacts
      <3>3. ContactsInv'
        BY <1>1, <3>1 DEF Inv, ContactsInv, OfContacts
      <3> QED BY <3>2, <3>3
    <2> QED BY <1>1, <2>1, <2>2, <2>3
  <1> QED BY <1>2, <1>3, <1>4, FrameStays DEF Inv

LEMMA ChangeStep ==
  ASSUME Inv, NEW u \in Users, Change(u)
  PROVE  Inv'
  <1>1. /\ kind' = kind /\ book' = book /\ UNCHANGED lists /\ all' = all /\ answer' = answer
        /\ queries' = queries /\ segment' = segment /\ overlapped' = overlapped /\ returned' = returned
        /\ UNCHANGED <<all, text, filtered, stale>>
        /\ gone' = gone \cup (known \ known')
        /\ known' = IF u \in known THEN known \ {u} ELSE known \cup {u}
    BY DEF Change, lists
  <1>2. KnownInv'
    BY <1>1 DEF Inv, KnownInv
  <1>3. ContactsInv' /\ FilterInv'
    BY <1>1 DEF Inv, ContactsInv, FilterInv, OfContacts
  <1>4. ListsInv'
    BY <1>1, ListsStay DEF Inv
  <1>5. AnswerInv'
    BY <1>1, AnswerStays DEF Inv
  <1>6. RowsInv'
    BY <1>1, RowsStay DEF Inv
  <1>7. SearchInv'
    BY <1>1, SearchStays DEF Inv
  <1> QED BY <1>2, <1>3, <1>4, <1>5, <1>6, <1>7 DEF Inv

(* The steps that show another screen, pick a member or do nothing.           *)
LEMMA OtherSteps ==
  ASSUME Inv, UNCHANGED <<kind, book, known, queries, segment, lists, text, filtered, aux>>
  PROVE  Inv'
  <1>1. /\ kind' = kind /\ answer' = answer /\ queries' = queries /\ segment' = segment
        /\ overlapped' = overlapped /\ returned' = returned
        /\ UNCHANGED <<all, text, filtered, stale>>
    BY DEF lists, aux
  <1>2. Frame
    BY DEF Frame, aux
  <1>3. ContactsInv' /\ FilterInv'
    BY <1>1 DEF Inv, ContactsInv, OfContacts, FilterInv
  <1>4. SearchInv'
    BY <1>1, SearchStays DEF Inv
  <1> QED BY <1>2, <1>3, <1>4, FrameStays DEF Inv

LEMMA InvStep == Inv /\ [Next]_vars => Inv'
  <1> SUFFICES ASSUME Inv, [Next]_vars PROVE Inv'
    OBVIOUS
  <1>1. CASE \E filter \in Filters : SelectSegment(filter)
    BY <1>1, SegmentStep
  <1>2. CASE \E q \in queries : Answer(q) \/ Fail(q)
    BY <1>2, AnswerStep, FailStep
  <1>3. CASE \E t \in Texts \cup {NoText} : Search(t)
    BY <1>3, SearchStep
  <1>4. CASE Touch
    <2>1. PICK s \in DOMAIN Sections : \E r \in DOMAIN Sections[s] :
            Tap(s, r) \/ Pick(s, r) \/ ShowProfile \/ ShowContact(r)
      BY <1>4 DEF Touch
    <2>2. PICK r \in DOMAIN Sections[s] : Tap(s, r) \/ Pick(s, r) \/ ShowProfile \/ ShowContact(r)
      BY <2>1
    <2>3. UNCHANGED <<kind, book, known, queries, segment, lists, text, filtered, aux>>
      BY <2>2 DEF Tap, Pick, ShowProfile, ShowContact
    <2> QED BY <2>3, OtherSteps
  <1>5. CASE NextPressed
    <2>1. UNCHANGED <<kind, book, known, queries, segment, lists, text, filtered, aux>>
      BY <1>5 DEF NextPressed
    <2> QED BY <2>1, OtherSteps
  <1>6. CASE Return
    BY <1>6, ReturnStep
  <1>7. CASE \E u \in Users \ {Me} : Change(u)
    BY <1>7, ChangeStep
  <1>8. CASE UNCHANGED vars
    <2>1. UNCHANGED <<kind, book, known, queries, segment, lists, text, filtered, aux>>
      BY <1>8 DEF vars
    <2> QED BY <2>1, OtherSteps
  <1> QED BY <1>1, <1>2, <1>3, <1>4, <1>5, <1>6, <1>7, <1>8 DEF Next

(* The inductive invariant of the lists of users.                             *)
LEMMA Invariance == Spec => []Inv
  BY InvInit, InvStep, PTL DEF Spec

--------------------------------------------------------------------------------
(* What the invariant says of the rows.                                       *)

LEMMA PlaceIs ==
  ASSUME NEW u, NEW p
  PROVE  p \in Places(u) <=> \E s \in DOMAIN Sections : \E r \in DOMAIN Sections[s] :
                               Sections[s][r] = u /\ p = <<s, r>>
  BY DEF Places

LEMMA TitlesCount ==
  ASSUME NEW S, NEW T \in Seq(S), Distinct(T)
  PROVE  Cardinality(Range(T)) = Len(T)
  <1>1. Len(T) \in Nat /\ DOMAIN T = 1..Len(T) /\ T \in [1..Len(T) -> S]
    BY LenProperties
  <1>2. T \in [1..Len(T) -> Range(T)]
    BY <1>1 DEF Range
  <1>3. \A x \in Range(T) : \E i \in 1..Len(T) : T[i] = x
    BY <1>1 DEF Range
  <1>4. T \in Bijection(1..Len(T), Range(T))
    BY <1>1, <1>2, <1>3 DEF Bijection, Injection, Surjection, IsInjective, Distinct
  <1>5. ExistsBijection(1..Len(T), Range(T))
    BY <1>4 DEF ExistsBijection
  <1> QED BY <1>1, <1>5, FS_CountingElements

(* Outside of address books where the code is part of a number, those that    *)
(* compareUsers finds are those whose number is in the book.                  *)
LEMMA AnsweredIsListed ==
  ASSUME Inv, PlainBook
  PROVE  Answered = Listed
  <1>1. book \in Books /\ answer.known \subseteq Users
    BY DEF Inv, KnownInv
  <1>2. \A u \in Users : Matches(u) <=> InBook(u)
    BY <1>1, MatchesAre
  <1> QED BY <1>1, <1>2 DEF Answered, Listed

LEMMA ContiguousIsTogether ==
  ASSUME Inv, Range(all) = Listed, Contiguous
  PROVE  Together(all)
  <1>1. all \in Seq(Users) /\ Sorted(all, Names) /\ DOMAIN all = 1..Len(all)
    BY LenProperties DEF Inv, ListsInv
  <1>2. \A i \in 1..Len(all) : all[i] \in Listed /\ all[i] \in Range(Names)
    <2>1. \A i \in 1..Len(all) : all[i] \in Users
      BY <1>1
    <2> QED BY <2>1, <1>1, NamesAre DEF Range
  <1>3. DOMAIN Names = 1..Len(Names)
    BY NamesAre, LenProperties
  <1>4. ASSUME NEW i \in 1..Len(all), NEW k \in 1..Len(all), NEW j \in 1..Len(all),
               i < k, k < j, Initial[all[i]] = Initial[all[j]]
        PROVE  Initial[all[k]] = Initial[all[i]]
    <2>1. PICK a \in 1..Len(Names) : Names[a] = all[i]
      BY <1>2, <1>3 DEF Range
    <2>2. PICK b \in 1..Len(Names) : Names[b] = all[k]
      BY <1>2, <1>3 DEF Range
    <2>3. PICK c \in 1..Len(Names) : Names[c] = all[j]
      BY <1>2, <1>3 DEF Range
    <2>4. a < b /\ b < c
      BY <2>1, <2>2, <2>3, <1>1, <1>4 DEF Sorted
    <2>5. {a, b, c} \subseteq {n \in 1..Len(Names) : Names[n] \in Listed}
      BY <2>1, <2>2, <2>3, <1>2
    <2>6. Initial[Names[b]] = Initial[Names[a]]
      BY <2>1, <2>3, <2>4, <2>5, <1>4 DEF Contiguous
    <2> QED BY <2>1, <2>2, <2>6
  <1> QED BY <1>4 DEF Together

(* The rows while a text is searched.                                         *)
LEMMA SearchedRows ==
  ASSUME Inv, answer # None, ~stale, Range(all) = Listed, text # NoText
  PROVE  /\ \A u \in Expected : Cardinality(Places(u)) = 1
         /\ \A u \in Users : Places(u) # {} => u \in Expected
  <1>1. filtered \in Seq(Users) /\ Distinct(filtered) /\ Range(filtered) = Expected
    BY DEF Inv, SearchInv, Expected
  <1>2. DOMAIN filtered = 1..Len(filtered)
    BY <1>1, LenProperties
  <1>3. DOMAIN Sections = {1} /\ Sections[1] = filtered
    <2>1. Sections = <<filtered>>
      BY DEF Sections
    <2>2. DOMAIN <<filtered>> = {1} /\ <<filtered>>[1] = filtered
      OBVIOUS
    <2> QED BY <2>1, <2>2
  <1>4. \A u, p : p \in Places(u) <=> \E r \in 1..Len(filtered) : filtered[r] = u /\ p = <<1, r>>
    BY <1>2, <1>3, PlaceIs
  <1>5. ASSUME NEW u \in Expected
        PROVE  Cardinality(Places(u)) = 1
    <2>1. PICK r \in 1..Len(filtered) : filtered[r] = u
      BY <1>1, <1>2 DEF Range
    <2>2. \A k \in 1..Len(filtered) : filtered[k] = u => k = r
      BY <2>1, <1>1 DEF Distinct
    <2>3. Places(u) = {<<1, r>>}
      BY <2>1, <2>2, <1>4
    <2> QED BY <2>3, FS_Singleton
  <1>6. ASSUME NEW u \in Users, Places(u) # {}
        PROVE  u \in Expected
    <2>1. PICK r \in 1..Len(filtered) : filtered[r] = u
      BY <1>4, <1>6
    <2> QED BY <2>1, <1>1, <1>2 DEF Range
  <1> QED BY <1>5, <1>6

(* The rows in sections.                                                      *)
LEMMA SectionedRows ==
  ASSUME Inv, answer # None, Range(all) = Listed, Contiguous, PlainBook, text = NoText
  PROVE  /\ \A u \in Expected : Cardinality(Places(u)) = 1
         /\ \A u \in Users : Places(u) # {} => u \in Expected \/ (OfContacts /\ u \in gone)
         /\ \A u \in Expected : \A p \in Places(u) : titles[p[1]] = Initial[u]
  <1>1. /\ all \in Seq(Users) /\ Cuts(titles, groups) /\ Holds(titles, groups, all)
        /\ DOMAIN all = 1..Len(all) /\ Expected = Listed
    <2>1. Together(all)
      BY ContiguousIsTogether
    <2> QED BY <2>1, LenProperties DEF Inv, ListsInv, Expected
  <1>2. /\ titles \in Seq(Letters) /\ DOMAIN groups = Range(titles) /\ Distinct(titles)
        /\ \A t \in Range(titles) : groups[t] \in Seq(Users)
                                    /\ \A i \in 1..Len(groups[t]) : Initial[groups[t][i]] = t
        /\ \A i \in 1..Len(all) : Initial[all[i]] \in Range(titles)
                                  /\ Once(groups[Initial[all[i]]], all[i])
    BY <1>1 DEF Cuts, Holds
  <1>3. DOMAIN titles = 1..Len(titles) /\ \A s \in 1..Len(titles) : titles[s] \in Range(titles)
    <2>1. DOMAIN titles = 1..Len(titles)
      BY <1>2, LenProperties
    <2> QED BY <2>1 DEF Range
  <1>4. Sections = [s \in 1..Len(titles) |-> groups[titles[s]]]
    BY <1>2, TitlesCount DEF Sections
  <1>5. \A t \in Range(titles) : DOMAIN groups[t] = 1..Len(groups[t])
    BY <1>2, LenProperties
  <1>6. \A u, p : p \in Places(u) <=>
          \E s \in 1..Len(titles) : \E r \in 1..Len(groups[titles[s]]) :
            groups[titles[s]][r] = u /\ p = <<s, r>>
    BY <1>3, <1>4, <1>5, PlaceIs
  <1>7. ASSUME NEW u \in Expected
        PROVE  Cardinality(Places(u)) = 1
    <2>1. PICK i \in 1..Len(all) : all[i] = u
      BY <1>1 DEF Range
    <2>2. Initial[u] \in Range(titles) /\ Once(groups[Initial[u]], u)
      BY <2>1, <1>2
    <2>3. PICK s \in 1..Len(titles) : titles[s] = Initial[u]
      BY <2>2, <1>3 DEF Range
    <2>4. PICK r \in 1..Len(groups[titles[s]]) :
            groups[titles[s]][r] = u /\ \A k \in 1..Len(groups[titles[s]]) : groups[titles[s]][k] = u => k = r
      BY <2>2, <2>3 DEF Once
    <2>5. ASSUME NEW x \in 1..Len(titles), NEW k \in 1..Len(groups[titles[x]]), groups[titles[x]][k] = u
          PROVE  x = s /\ k = r
      <3>1. titles[x] = Initial[u]
        BY <2>5, <1>2, <1>3
      <3>2. x = s
        BY <3>1, <2>3, <1>2 DEF Distinct
      <3> QED BY <3>2, <2>4, <2>5
    <2>6. Places(u) = {<<s, r>>}
      <3>1. \A p : p \in Places(u) => p = <<s, r>>
        BY <2>5, <1>6
      <3>2. <<s, r>> \in Places(u)
        BY <2>4, <1>6
      <3> QED BY <3>1, <3>2
    <2> QED BY <2>6, FS_Singleton
  <1>8. ASSUME NEW u \in Users, Places(u) # {}
        PROVE  u \in Expected \/ (OfContacts /\ u \in gone)
    <2>1. PICK s \in 1..Len(titles) : \E r \in 1..Len(groups[titles[s]]) : groups[titles[s]][r] = u
      BY <1>6, <1>8
    <2>2. Sectioned(u)
      BY <2>1, <1>3 DEF Inv, RowsInv
    <2>3. CASE ~OfContacts
      BY <2>2, <2>3, <1>1 DEF Sectioned
    <2>4. CASE OfContacts
      <3>1. Matches(u) /\ u # Me /\ u \in answer.known \cup gone
        BY <2>2, <2>4 DEF Sectioned
      <3>2. answer.filter = "all"
        BY <2>4 DEF Inv, ContactsInv
      <3>3. Within(answer.filter) = Users
        BY <3>2 DEF Within
      <3>4. u \in answer.known => u \in Answered
        BY <3>1, <3>3 DEF Answered
      <3> QED BY <3>1, <3>4, <2>4, <1>1, AnsweredIsListed
    <2> QED BY <2>3, <2>4
  <1>9. ASSUME NEW u \in Expected, NEW p \in Places(u)
        PROVE  titles[p[1]] = Initial[u]
    <2>1. PICK s \in 1..Len(titles) :
            \E r \in 1..Len(groups[titles[s]]) : groups[titles[s]][r] = u /\ p = <<s, r>>
      BY <1>6
    <2>2. PICK r \in 1..Len(groups[titles[s]]) : groups[titles[s]][r] = u /\ p = <<s, r>>
      BY <2>1
    <2>3. p[1] = s
      BY <2>2
    <2> QED BY <2>2, <2>3, <1>2, <1>3
  <1> QED BY <1>7, <1>8, <1>9

(* Whatever answers come in which order, whoever registers or leaves, each    *)
(* user of the answer on display that is to be listed has one row, in the     *)
(* section of his initial, and nobody else has one but those who left         *)
(* (splitDataIntoSections, splitDataInToSection, compareUsers).               *)
THEOREM ListedOnce == Spec => []EachListedOnce
  <1>1. Inv => EachListedOnce
    <2>1. SUFFICES ASSUME Inv, answer # None, ~stale, PlainBook, Contiguous
                   PROVE  /\ \A u \in Expected : Cardinality(Places(u)) = 1
                          /\ \A u \in Users : Places(u) # {} =>
                               u \in Expected \/ (OfContacts /\ u \in gone)
                          /\ text = NoText =>
                               \A u \in Expected : \A p \in Places(u) : titles[p[1]] = Initial[u]
      BY DEF EachListedOnce
    <2>2. Range(all) = Listed
      BY <2>1, AnsweredIsListed DEF Inv, AnswerInv
    <2>3. CASE text # NoText
      BY <2>1, <2>2, <2>3, SearchedRows
    <2>4. CASE text = NoText
      BY <2>1, <2>2, <2>4, SectionedRows
    <2> QED BY <2>3, <2>4
  <1> QED BY <1>1, Invariance, PTL

(* The users nearby and those to invite are those of the filter selected,     *)
(* when no answer is left that another could have overtaken                   *)
(* (filterSegmentValueChanged, viewWillAppear).                               *)
THEOREM FilterIsShown == Spec => []FilterChosenIsShown
  <1>1. Inv => FilterChosenIsShown
    <2>1. SUFFICES ASSUME Inv, answer # None, queries = {}, ~overlapped, ~returned,
                          kind \in {"nearby", "invite"}
                   PROVE  Range(all) = (answer.known \cap Within(segment)) \ {Me}
      BY DEF FilterChosenIsShown
    <2>2. answer.filter = segment
      BY <2>1 DEF Inv, FilterInv
    <2>3. ~OfContacts
      BY <2>1 DEF OfContacts
    <2>4. Range(all) = Answered
      BY <2>1 DEF Inv, AnswerInv
    <2> QED BY <2>2, <2>3, <2>4 DEF Answered
  <1> QED BY <1>1, Invariance, PTL
================================================================================
