------------------------ MODULE UserDictionaryProofs ------------------------
(***************************************************************************)
(* Proofs about UserDictionary.                                            *)
(***************************************************************************)
EXTENDS UserDictionary, TLAPS

\* The steps a call may have left, those that are the second half of another
\* (they only ever come first), and those after which nothing comes.
Steps == {"init", "fill", "save", "saving", "present", "restore", "restoring",
          "check", "collect", "read", "look", "write", "writing"}
Halves == {"fill", "saving", "restoring", "writing"}
Closing == {"restore", "restoring", "write", "writing"}

Has(t, s) == \E k \in 1 .. Len(t) : t[k] = s

\* The dictionary is written last, after everything that can stop the call,
\* by the calls that have rows to write; only those that append read it; and
\* none that takes a backup restores one.
Shape(t, c) ==
  /\ t \in Seq(Steps)
  /\ \A k \in 1 .. Len(t) : t[k] \in Closing => k = Len(t)
  /\ \A k \in 1 .. Len(t) : t[k] \in Halves => k = 1
  /\ c.rows # {} /\ t # <<>> => t[Len(t)] \in {"write", "writing"}
  /\ ~c.append => ~Has(t, "read")
  /\ c.saves => ~Has(t, "restore") /\ ~Has(t, "restoring")

\* How a call begins.
Starts(c) ==
  /\ Shape(c.steps, c) /\ c.steps # <<>>
  /\ \A k \in 1 .. Len(c.steps) : c.steps[k] \notin Halves
  /\ \A s \in Closing : Has(c.steps, s) => Has(c.steps, "init")
  /\ c.append /\ c.rows # {} => Has(c.steps, "read")
  /\ c.saves => Has(c.steps, "save")

\* Until it is opened for writing, the dictionary is what the call found, or
\* what came with the package where the call found none.
Untouched ==
  /\ outcome = "stopped" /\ before # Missing => dic = before
  /\ todo # <<>> /\ todo[1] \notin {"writing", "restoring"} =>
       IF before # Missing THEN dic = before ELSE dic = Missing \/ dic \subseteq Bundled
  /\ todo # <<>> /\ todo[1] = "fill" => before = Missing

\* What is to be written is what was given, with what was read, all of it
\* once it has been read; and what has been written so far is part of it.
Collected ==
  todo # <<>> =>
    /\ call.rows \subseteq writes
    /\ ~call.append => writes = call.rows
    /\ writes \subseteq call.rows \cup (IF before # Missing THEN before ELSE Bundled)
    /\ ~Has(todo, "read") /\ call.append /\ call.rows # {} /\ before # Missing => before \subseteq writes
    /\ todo[1] = "writing" => dic \subseteq writes

\* The directory is made before anything is written.
Made ==
  dir = "none" =>
    dic = Missing /\ \A s \in Closing : Has(todo, s) => Has(todo, "init")

\* The backup is what it was taken of and, in a call that takes one, what the
\* call found, from before the call writes.
Backed ==
  /\ trust = "saved" => backup = saved
  /\ trust = "copying" => todo # <<>> /\ todo[1] = "saving"
  /\ todo # <<>> /\ todo[1] = "saving" => saved = dic
  /\ call.saves /\ todo # <<>> /\ ~Has(todo, "save") /\ ~Has(todo, "saving") /\ before # Missing =>
       trust = "failed" \/ backup = before

IInv ==
  /\ Shape(todo, call)
  /\ todo # <<>> => outcome = "running"
  /\ Untouched /\ Collected /\ Made /\ Backed
  /\ AllOrNothing /\ OldOrBackup

-----------------------------------------------------------------------------
(* Steps that are left *)

\* What is left after the first step, and where the second half of the first
\* step takes its place.
LEMMA Rest ==
  ASSUME NEW t \in Seq(Steps), t # <<>>
  PROVE  \E n \in Nat :
           /\ Len(t) = n + 1 /\ Head(t) = t[1] /\ t[1] \in Steps
           /\ Tail(t) \in Seq(Steps) /\ Len(Tail(t)) = n /\ (Tail(t) = <<>> <=> n = 0)
           /\ \A k \in 1 .. n : Tail(t)[k] = t[k + 1]
           /\ \A x \in Steps :
                /\ <<x>> \o Tail(t) \in Seq(Steps) /\ Len(<<x>> \o Tail(t)) = n + 1
                /\ (<<x>> \o Tail(t))[1] = x
                /\ \A k \in 1 .. n : (<<x>> \o Tail(t))[k + 1] = t[k + 1]
<1>1. PICK n \in Nat : Len(t) = n + 1
  <2>1. Len(t) \in Nat /\ Len(t) >= 1
    OBVIOUS
  <2>2. Len(t) - 1 \in Nat /\ Len(t) = (Len(t) - 1) + 1
    BY <2>1
  <2>. QED
    BY <2>2
<1>2. Head(t) = t[1] /\ t[1] \in Steps
  BY <1>1
<1>3. Tail(t) \in Seq(Steps) /\ Len(Tail(t)) = n
  BY <1>1
<1>4. \A k \in 1 .. n : Tail(t)[k] = t[k + 1]
  BY <1>1
<1>5. Tail(t) = <<>> <=> n = 0
  <2> DEFINE s == Tail(t)
  <2>1. s \in Seq(Steps) /\ Len(s) = n
    BY <1>3
  <2> HIDE DEF s
  <2>2. s = <<>> <=> Len(s) = 0
    BY <2>1
  <2>. QED
    BY <2>1, <2>2 DEF s
<1>6. ASSUME NEW x \in Steps
      PROVE  /\ <<x>> \o Tail(t) \in Seq(Steps) /\ Len(<<x>> \o Tail(t)) = n + 1
             /\ (<<x>> \o Tail(t))[1] = x
             /\ \A k \in 1 .. n : (<<x>> \o Tail(t))[k + 1] = t[k + 1]
  <2> DEFINE s == Tail(t)
  <2>1. s \in Seq(Steps) /\ Len(s) = n /\ \A k \in 1 .. n : s[k] = t[k + 1]
    BY <1>3, <1>4
  <2> HIDE DEF s
  <2>2. <<x>> \in Seq(Steps) /\ Len(<<x>>) = 1 /\ <<x>>[1] = x
    OBVIOUS
  <2>3. <<x>> \o s \in Seq(Steps) /\ Len(<<x>> \o s) = n + 1 /\ (<<x>> \o s)[1] = x
    BY <2>1, <2>2
  <2>4. \A k \in 1 .. n : (<<x>> \o s)[k + 1] = s[k]
    BY <2>1, <2>2
  <2>. QED
    BY <2>1, <2>3, <2>4 DEF s
<1>. QED
  BY <1>1, <1>2, <1>3, <1>4, <1>5, <1>6

\* Taking a step keeps the shape; the last step of a call with rows writes.
LEMMA StepDone ==
  ASSUME NEW c, NEW t, Shape(t, c), t # <<>>
  PROVE  /\ Shape(Tail(t), c) /\ Head(t) = t[1]
         /\ t[1] \in Closing => Tail(t) = <<>>
         /\ c.rows # {} /\ Tail(t) = <<>> => t[1] \in {"write", "writing"}
         /\ Tail(t) # <<>> => Tail(t)[1] \notin Halves
         /\ \A s : Has(Tail(t), s) => Has(t, s)
         /\ \A s : Has(t, s) => s = t[1] \/ Has(Tail(t), s)
         /\ Has(t, t[1])
         /\ \A s \in Closing : Has(Tail(t), s) => t[1] \notin Closing
<1> PICK n \in Nat :
      /\ Len(t) = n + 1 /\ Head(t) = t[1] /\ t[1] \in Steps
      /\ Tail(t) \in Seq(Steps) /\ Len(Tail(t)) = n /\ (Tail(t) = <<>> <=> n = 0)
      /\ \A k \in 1 .. n : Tail(t)[k] = t[k + 1]
  BY Rest DEF Shape
<1> DEFINE s == Tail(t)
<1>1. s \in Seq(Steps) /\ Len(s) = n /\ (s = <<>> <=> n = 0) /\ \A k \in 1 .. n : s[k] = t[k + 1]
  OBVIOUS
<1> HIDE DEF s
<1>2. \A k \in 1 .. n : k + 1 \in 1 .. (n + 1) /\ (k + 1 = n + 1 <=> k = n) /\ k + 1 # 1
  OBVIOUS
<1>3. \A k \in 1 .. (n + 1) : k = 1 \/ (k - 1 \in 1 .. n /\ (k - 1) + 1 = k)
  OBVIOUS
<1>4. \A k \in 1 .. n : s[k] \in Closing => k = n
  BY <1>1, <1>2 DEF Shape
<1>5. \A k \in 1 .. n : s[k] \notin Halves
  BY <1>1, <1>2 DEF Shape
<1>6. \A x : Has(s, x) => Has(t, x)
  BY <1>1, <1>2 DEF Has
<1>7. ASSUME NEW x, Has(t, x)
      PROVE  x = t[1] \/ Has(s, x)
  <2>1. PICK k \in 1 .. (n + 1) : t[k] = x
    BY <1>7 DEF Has
  <2>2. CASE k # 1
    <3>1. k - 1 \in 1 .. n /\ (k - 1) + 1 = k
      BY <1>3, <2>2
    <3>2. s[k - 1] = x
      BY <1>1, <2>1, <3>1
    <3>. QED
      BY <1>1, <3>1, <3>2 DEF Has
  <2>. QED
    BY <2>1, <2>2
<1>8. c.rows # {} /\ s # <<>> => s[n] \in {"write", "writing"}
  <2>. SUFFICES ASSUME c.rows # {}, n # 0
                PROVE  s[n] \in {"write", "writing"}
    BY <1>1
  <2>1. n \in 1 .. n /\ t[n + 1] \in {"write", "writing"}
    BY DEF Shape
  <2>. QED
    BY <1>1, <2>1
<1>9. Shape(s, c)
  BY <1>1, <1>4, <1>5, <1>6, <1>8 DEF Shape
<1>10. t[1] \in Closing => n = 0
  BY DEF Shape
<1>11. c.rows # {} /\ n = 0 => t[1] \in {"write", "writing"}
  BY DEF Shape
<1>12. s # <<>> => s[1] \notin Halves
  BY <1>1, <1>5
<1>13. Has(t, t[1])
  <2>1. 1 \in 1 .. Len(t)
    OBVIOUS
  <2>. QED
    BY <2>1 DEF Has
<1>14. \A x : Has(s, x) => n # 0
  BY <1>1 DEF Has
<1>. QED
  BY <1>1, <1>6, <1>7, <1>9, <1>10, <1>11, <1>12, <1>13, <1>14 DEF s

\* The second half of a step that is done in halves.
Second(s, x) == \/ s = "init" /\ x = "fill"
                \/ s = "save" /\ x = "saving"
                \/ s = "write" /\ x = "writing"

\* A step that is done in halves.
LEMMA HalfDone ==
  ASSUME NEW c, NEW t, Shape(t, c), t # <<>>, NEW x,
         Second(t[1], x)
  PROVE  /\ Shape(<<x>> \o Tail(t), c)
         /\ <<x>> \o Tail(t) # <<>> /\ (<<x>> \o Tail(t))[1] = x
         /\ \A s : Has(<<x>> \o Tail(t), s) => s = x \/ Has(Tail(t), s)
         /\ \A s : Has(Tail(t), s) => Has(<<x>> \o Tail(t), s)
<1>0. x \in Steps
  BY DEF Second, Steps
<1> PICK n \in Nat :
      /\ Len(t) = n + 1 /\ Tail(t) \in Seq(Steps) /\ Len(Tail(t)) = n
      /\ \A k \in 1 .. n : Tail(t)[k] = t[k + 1]
      /\ <<x>> \o Tail(t) \in Seq(Steps) /\ Len(<<x>> \o Tail(t)) = n + 1
      /\ (<<x>> \o Tail(t))[1] = x
      /\ \A k \in 1 .. n : (<<x>> \o Tail(t))[k + 1] = t[k + 1]
  <2>1. t \in Seq(Steps)
    BY DEF Shape
  <2>. QED
    BY <1>0, <2>1, Rest
<1> DEFINE s == <<x>> \o Tail(t)
           r == Tail(t)
<1>1. /\ s \in Seq(Steps) /\ Len(s) = n + 1 /\ s[1] = x
      /\ \A k \in 1 .. n : s[k + 1] = t[k + 1]
  OBVIOUS
<1>2. Len(r) = n /\ \A k \in 1 .. n : r[k] = t[k + 1]
  OBVIOUS
<1> HIDE DEF s, r
<1>3. \A k \in 1 .. (n + 1) : k = 1 \/ (k - 1 \in 1 .. n /\ (k - 1) + 1 = k /\ k # 1)
  OBVIOUS
<1>4. \A k \in 2 .. (n + 1) : s[k] = t[k] /\ k \in 1 .. Len(t)
  <2>. SUFFICES ASSUME NEW k \in 2 .. (n + 1)
                PROVE  s[k] = t[k] /\ k \in 1 .. Len(t)
    OBVIOUS
  <2>1. k - 1 \in 1 .. n /\ (k - 1) + 1 = k
    OBVIOUS
  <2>2. s[(k - 1) + 1] = t[(k - 1) + 1]
    BY <1>1, <2>1
  <2>. QED
    BY <2>1, <2>2
<1>5. ASSUME NEW y, Has(s, y)
      PROVE  y = x \/ Has(r, y)
  <2>1. PICK k \in 1 .. (n + 1) : s[k] = y
    BY <1>1, <1>5 DEF Has
  <2>2. CASE k # 1
    <3>1. k - 1 \in 1 .. n /\ k \in 2 .. (n + 1) /\ (k - 1) + 1 = k
      BY <1>3, <2>2
    <3>2. r[k - 1] = y
      BY <1>2, <1>4, <2>1, <3>1
    <3>. QED
      BY <1>2, <3>1, <3>2 DEF Has
  <2>. QED
    BY <1>1, <2>1, <2>2
<1>6. \A y : Has(r, y) => Has(s, y)
  <2>1. \A k \in 1 .. n : k + 1 \in 1 .. (n + 1)
    OBVIOUS
  <2>. QED
    BY <1>1, <1>2, <2>1 DEF Has
<1>7. \A k \in 1 .. (n + 1) : s[k] \in Closing => k = n + 1
  <2>1. ASSUME NEW k \in 1 .. (n + 1), s[k] \in Closing
        PROVE  k = n + 1
    <3>1. CASE k = 1
      <4>1. x = "writing" /\ t[1] = "write"
        BY <1>1, <2>1, <3>1 DEF Second, Closing
      <4>2. 1 \in 1 .. Len(t) /\ t[1] \in Closing
        BY <4>1 DEF Closing
      <4>. QED
        BY <3>1, <4>2 DEF Shape
    <3>2. CASE k # 1
      <4>1. k \in 2 .. (n + 1)
        BY <3>2
      <4>. QED
        BY <1>4, <2>1, <4>1 DEF Shape
    <3>. QED
      BY <3>1, <3>2
  <2>. QED
    BY <2>1
<1>8. \A k \in 1 .. (n + 1) : s[k] \in Halves => k = 1
  <2>1. \A k \in 1 .. (n + 1) : k = 1 \/ k \in 2 .. (n + 1)
    OBVIOUS
  <2>. QED
    BY <1>4, <2>1 DEF Shape
<1>9. c.rows # {} => s[n + 1] \in {"write", "writing"}
  <2>. SUFFICES ASSUME c.rows # {}
                PROVE  s[n + 1] \in {"write", "writing"}
    OBVIOUS
  <2>1. t[n + 1] \in {"write", "writing"}
    BY DEF Shape
  <2>2. CASE n = 0
    BY <1>1, <2>1, <2>2 DEF Second
  <2>3. CASE n # 0
    <3>1. n + 1 \in 2 .. (n + 1)
      BY <2>3
    <3>. QED
      BY <1>4, <2>1, <3>1
  <2>. QED
    BY <2>2, <2>3
<1>10. Shape(r, c)
  BY StepDone DEF r
<1>11. ~c.append => ~Has(s, "read")
  BY <1>5, <1>10 DEF Second, Shape
<1>12. c.saves => ~Has(s, "restore") /\ ~Has(s, "restoring")
  BY <1>5, <1>10 DEF Second, Shape
<1>13. Shape(s, c)
  BY <1>1, <1>7, <1>8, <1>9, <1>11, <1>12 DEF Shape
<1>14. s # <<>>
  BY <1>1
<1>. QED
  BY <1>1, <1>5, <1>6, <1>13, <1>14 DEF s, r

-----------------------------------------------------------------------------
(* How the calls begin *)

\* Steps that may come before others, and steps a call may begin with.
Calm == {"init", "save", "check", "collect", "read"}
Good(t, c) == Shape(t, c) /\ t # <<>> /\ \A k \in 1 .. Len(t) : t[k] \notin Halves

\* One list of steps after another has the steps of both.
LEMMA HasBoth ==
  ASSUME NEW s \in Seq(Steps), NEW t \in Seq(Steps)
  PROVE  /\ s \o t \in Seq(Steps) /\ Len(s \o t) = Len(s) + Len(t)
         /\ \A x : Has(s \o t, x) <=> Has(s, x) \/ Has(t, x)
<1>1. /\ s \o t \in Seq(Steps) /\ Len(s \o t) = Len(s) + Len(t)
      /\ Len(s) \in Nat /\ Len(t) \in Nat
  OBVIOUS
<1>2. \A k \in 1 .. Len(s) : (s \o t)[k] = s[k] /\ k \in 1 .. Len(s \o t)
  BY <1>1
<1>3. \A k \in 1 .. Len(t) : (s \o t)[Len(s) + k] = t[k] /\ Len(s) + k \in 1 .. Len(s \o t)
  BY <1>1
<1>4. ASSUME NEW x, Has(s \o t, x)
      PROVE  Has(s, x) \/ Has(t, x)
  <2>1. PICK k \in 1 .. Len(s \o t) : (s \o t)[k] = x
    BY <1>4 DEF Has
  <2>2. CASE k \in 1 .. Len(s)
    BY <1>2, <2>1, <2>2 DEF Has
  <2>3. CASE k \notin 1 .. Len(s)
    <3>1. k - Len(s) \in 1 .. Len(t) /\ Len(s) + (k - Len(s)) = k
      BY <1>1, <2>3
    <3>2. t[k - Len(s)] = x
      BY <1>3, <2>1, <3>1
    <3>. QED
      BY <3>1, <3>2 DEF Has
  <2>. QED
    BY <2>2, <2>3
<1>5. \A x : Has(s, x) \/ Has(t, x) => Has(s \o t, x)
  BY <1>2, <1>3 DEF Has
<1>. QED
  BY <1>1, <1>4, <1>5

\* Calm steps may come before any that a call may begin with.
LEMMA CalmBefore ==
  ASSUME NEW c, NEW s \in Seq(Calm), NEW t, Good(t, c), Has(s, "read") => c.append
  PROVE  Good(s \o t, c) /\ \A x : Has(s \o t, x) <=> Has(s, x) \/ Has(t, x)
<1>1. t \in Seq(Steps) /\ Len(t) \in Nat /\ Len(t) >= 1
  <2>1. t \in Seq(Steps) /\ t # <<>>
    BY DEF Good, Shape
  <2>. QED
    BY <2>1
<1>2. s \in Seq(Steps) /\ Len(s) \in Nat /\ \A k \in 1 .. Len(s) : s[k] \in Calm
  <2>1. Len(s) \in Nat /\ s = [k \in 1 .. Len(s) |-> s[k]] /\ \A k \in 1 .. Len(s) : s[k] \in Calm
    OBVIOUS
  <2>2. \A k \in 1 .. Len(s) : s[k] \in Steps
    BY <2>1 DEF Calm, Steps
  <2>. QED
    BY <2>1, <2>2
<1> DEFINE r == s \o t
<1>3. /\ r \in Seq(Steps) /\ Len(r) = Len(s) + Len(t)
      /\ \A x : Has(r, x) <=> Has(s, x) \/ Has(t, x)
  BY <1>1, <1>2, HasBoth
<1>4. \A k \in 1 .. Len(s) : r[k] = s[k]
  BY <1>1, <1>2
<1>5. \A k \in 1 .. Len(t) : r[Len(s) + k] = t[k]
  BY <1>1, <1>2
<1>6. \A k \in 1 .. Len(r) : k \in 1 .. Len(s) \/ (k - Len(s) \in 1 .. Len(t) /\ k = Len(s) + (k - Len(s)))
  BY <1>1, <1>2, <1>3
<1> HIDE DEF r
<1>7. \A x : x \in Calm => x \notin Closing /\ x \notin Halves
  BY DEF Calm, Closing, Halves
<1>8. \A k \in 1 .. Len(r) : r[k] \in Closing => k = Len(r)
  <2>. SUFFICES ASSUME NEW k \in 1 .. Len(r), r[k] \in Closing
                PROVE  k = Len(r)
    OBVIOUS
  <2>1. k \notin 1 .. Len(s)
    BY <1>2, <1>4, <1>7
  <2>2. k - Len(s) \in 1 .. Len(t) /\ r[k] = t[k - Len(s)]
    BY <1>5, <1>6, <2>1
  <2>3. k - Len(s) = Len(t)
    BY <2>2 DEF Good, Shape
  <2>. QED
    BY <1>1, <1>2, <1>3, <2>3
<1>9. \A k \in 1 .. Len(r) : r[k] \notin Halves
  <2>. SUFFICES ASSUME NEW k \in 1 .. Len(r), r[k] \in Halves
                PROVE  FALSE
    OBVIOUS
  <2>1. k \notin 1 .. Len(s)
    BY <1>2, <1>4, <1>7
  <2>2. k - Len(s) \in 1 .. Len(t) /\ r[k] = t[k - Len(s)]
    BY <1>5, <1>6, <2>1
  <2>. QED
    BY <2>2 DEF Good
<1>10. r[Len(r)] = t[Len(t)]
  <2>1. Len(t) \in 1 .. Len(t)
    BY <1>1
  <2>. QED
    BY <1>3, <1>5, <2>1
<1>11. r # <<>>
  BY <1>1, <1>2, <1>3
<1>12. ~Has(s, "restore") /\ ~Has(s, "restoring")
  BY <1>2, <1>7 DEF Has, Closing
<1>13. Shape(r, c)
  BY <1>1, <1>3, <1>8, <1>9, <1>10, <1>12 DEF Good, Shape
<1>. QED
  BY <1>3, <1>9, <1>11, <1>13 DEF Good, r

\* Calm steps one after another are calm.
LEMMA CalmBoth ==
  ASSUME NEW s \in Seq(Calm), NEW t \in Seq(Calm)
  PROVE  s \o t \in Seq(Calm) /\ \A x : Has(s \o t, x) <=> Has(s, x) \/ Has(t, x)
<1>1. \A u \in Seq(Calm) : u \in Seq(Steps)
  <2>. SUFFICES ASSUME NEW u \in Seq(Calm) PROVE u \in Seq(Steps)
    OBVIOUS
  <2>1. Len(u) \in Nat /\ u = [k \in 1 .. Len(u) |-> u[k]] /\ \A k \in 1 .. Len(u) : u[k] \in Calm
    OBVIOUS
  <2>2. \A k \in 1 .. Len(u) : u[k] \in Steps
    BY <2>1 DEF Calm, Steps
  <2>. QED
    BY <2>1, <2>2
<1>2. s \o t \in Seq(Calm)
  OBVIOUS
<1>. QED
  BY <1>1, <1>2, HasBoth

\* The pieces the calls are made of.
LEMMA Pieces ==
  /\ \A p \in {<<>>, <<"init", "save">>, <<"collect">>, <<"check">>, <<"init", "read">>} : p \in Seq(Calm)
  /\ \A x : Has(<<>>, x) <=> FALSE
  /\ \A x : Has(<<"init", "save">>, x) <=> x \in {"init", "save"}
  /\ \A x : Has(<<"collect">>, x) <=> x = "collect"
  /\ \A x : Has(<<"check">>, x) <=> x = "check"
  /\ \A x : Has(<<"init", "read">>, x) <=> x \in {"init", "read"}
  /\ \A x : Has(<<"init", "write">>, x) <=> x \in {"init", "write"}
  /\ \A x : Has(<<"look">>, x) <=> x = "look"
  /\ \A x : Has(<<"present", "init", "restore">>, x) <=> x \in {"present", "init", "restore"}
<1>1. <<>> \in Seq(Calm) /\ <<"collect">> \in Seq(Calm) /\ <<"check">> \in Seq(Calm)
  BY DEF Calm
<1>2. <<"init", "save">> \in Seq(Calm) /\ <<"init", "read">> \in Seq(Calm)
  BY DEF Calm
<1>3. \A x : Has(<<>>, x) <=> FALSE
  BY DEF Has
<1>4. ASSUME NEW a, NEW x
      PROVE  Has(<<a>>, x) <=> x = a
  <2>1. Len(<<a>>) = 1 /\ <<a>>[1] = a /\ 1 \in 1 .. 1 /\ \A k \in 1 .. 1 : k = 1
    OBVIOUS
  <2>. QED
    BY <2>1 DEF Has
<1>5. ASSUME NEW a, NEW b, NEW x
      PROVE  Has(<<a, b>>, x) <=> x \in {a, b}
  <2>1. /\ Len(<<a, b>>) = 2 /\ <<a, b>>[1] = a /\ <<a, b>>[2] = b
        /\ 1 \in 1 .. 2 /\ 2 \in 1 .. 2 /\ \A k \in 1 .. 2 : k = 1 \/ k = 2
    OBVIOUS
  <2>. QED
    BY <2>1 DEF Has
<1>6. ASSUME NEW a, NEW b, NEW d, NEW x
      PROVE  Has(<<a, b, d>>, x) <=> x \in {a, b, d}
  <2>1. /\ Len(<<a, b, d>>) = 3 /\ <<a, b, d>>[1] = a /\ <<a, b, d>>[2] = b /\ <<a, b, d>>[3] = d
        /\ 1 \in 1 .. 3 /\ 2 \in 1 .. 3 /\ 3 \in 1 .. 3
        /\ \A k \in 1 .. 3 : k = 1 \/ k = 2 \/ k = 3
    OBVIOUS
  <2>. QED
    BY <2>1 DEF Has
<1>. QED
  BY <1>1, <1>2, <1>3, <1>4, <1>5, <1>6

\* The pieces a call may end with.
LEMMA Ends ==
  ASSUME NEW c
  PROVE  /\ Good(<<"init", "write">>, c)
         /\ c.rows = {} => Good(<<"look">>, c) /\ Good(<<"init", "save">>, c)
         /\ c.rows = {} /\ ~c.saves => Good(<<"present", "init", "restore">>, c)
<1>1. Good(<<"init", "write">>, c)
  <2> DEFINE t == <<"init", "write">>
  <2>1. /\ t \in Seq(Steps) /\ Len(t) = 2 /\ t[1] = "init" /\ t[2] = "write" /\ t # <<>>
        /\ \A k \in 1 .. 2 : k = 1 \/ k = 2
    BY DEF Steps
  <2>2. ~Has(t, "read") /\ ~Has(t, "restore") /\ ~Has(t, "restoring")
    BY Pieces
  <2> HIDE DEF t
  <2>. QED
    BY <2>1, <2>2 DEF Good, Shape, Closing, Halves, t
<1>2. ASSUME c.rows = {}
      PROVE  Good(<<"look">>, c)
  <2> DEFINE t == <<"look">>
  <2>1. t \in Seq(Steps) /\ Len(t) = 1 /\ t[1] = "look" /\ t # <<>> /\ \A k \in 1 .. 1 : k = 1
    BY DEF Steps
  <2>2. ~Has(t, "read") /\ ~Has(t, "restore") /\ ~Has(t, "restoring")
    BY Pieces
  <2> HIDE DEF t
  <2>. QED
    BY <1>2, <2>1, <2>2 DEF Good, Shape, Closing, Halves, t
<1>3. ASSUME c.rows = {}
      PROVE  Good(<<"init", "save">>, c)
  <2> DEFINE t == <<"init", "save">>
  <2>1. /\ t \in Seq(Steps) /\ Len(t) = 2 /\ t[1] = "init" /\ t[2] = "save" /\ t # <<>>
        /\ \A k \in 1 .. 2 : k = 1 \/ k = 2
    BY DEF Steps
  <2>2. ~Has(t, "read") /\ ~Has(t, "restore") /\ ~Has(t, "restoring")
    BY Pieces
  <2> HIDE DEF t
  <2>. QED
    BY <1>3, <2>1, <2>2 DEF Good, Shape, Closing, Halves, t
<1>4. ASSUME c.rows = {}, ~c.saves
      PROVE  Good(<<"present", "init", "restore">>, c)
  <2> DEFINE t == <<"present", "init", "restore">>
  <2>1. /\ t \in Seq(Steps) /\ Len(t) = 3 /\ t # <<>>
        /\ t[1] = "present" /\ t[2] = "init" /\ t[3] = "restore"
        /\ \A k \in 1 .. 3 : k = 1 \/ k = 2 \/ k = 3
    BY DEF Steps
  <2>2. ~Has(t, "read")
    BY Pieces
  <2> HIDE DEF t
  <2>. QED
    BY <1>4, <2>1, <2>2 DEF Good, Shape, Closing, Halves, t
<1>. QED
  BY <1>1, <1>2, <1>3, <1>4

\* Merging makes the directory, reads if it is to append, and writes.
LEMMA MergingGood ==
  ASSUME NEW c, NEW append \in BOOLEAN, append => c.append
  PROVE  Good(Merging(append), c) /\ Has(Merging(append), "init") /\ (append => Has(Merging(append), "read"))
<1> DEFINE r == IF append THEN <<"init", "read">> ELSE <<>>
           s == <<"check">> \o r
<1>1. r \in Seq(Calm) /\ (Has(r, "read") <=> append)
  BY Pieces
<1>2. <<"check">> \in Seq(Calm) /\ ~Has(<<"check">>, "read")
  BY Pieces
<1> HIDE DEF r
<1>3. s \in Seq(Calm) /\ (Has(s, "read") <=> append)
  BY <1>1, <1>2, CalmBoth
<1>4. Merging(append) = s \o <<"init", "write">>
  BY DEF Merging, r
<1> HIDE DEF s
<1>5. Good(<<"init", "write">>, c) /\ Has(<<"init", "write">>, "init")
  BY Ends, Pieces
<1>6. Has(s, "read") => c.append
  BY <1>3
<1>7. Good(s \o <<"init", "write">>, c)
      /\ \A x : Has(s \o <<"init", "write">>, x) <=> Has(s, x) \/ Has(<<"init", "write">>, x)
  BY <1>3, <1>5, <1>6, CalmBefore
<1>. QED
  BY <1>3, <1>4, <1>5, <1>7

\* Saving is calm.
LEMMA SavingCalm ==
  ASSUME NEW ask \in BOOLEAN
  PROVE  Saving(ask) \in Seq(Calm) /\ ~Has(Saving(ask), "read") /\ (ask => Has(Saving(ask), "save"))
  BY Pieces DEF Saving

\* A good list of steps with what a call needs is how one may begin.
LEMMA GoodStart ==
  ASSUME NEW c, Good(c.steps, c),
         Has(c.steps, "init") \/ \A s \in Closing : ~Has(c.steps, s),
         c.append /\ c.rows # {} => Has(c.steps, "read"), c.saves => Has(c.steps, "save")
  PROVE  Starts(c)
  BY DEF Starts, Good

\* Every call begins so.
LEMMA CallsStart ==
  ASSUME NEW c \in Calls
  PROVE  Starts(c)
<1>1. CASE c = BackupUsrDic
  <2>1. c.rows = {} /\ c.append = FALSE /\ c.saves = TRUE /\ c.steps = <<"init", "save">>
    BY <1>1 DEF BackupUsrDic, Saving
  <2>2. Good(c.steps, c) /\ Has(c.steps, "init") /\ Has(c.steps, "save")
    BY <2>1, Ends, Pieces
  <2>. QED
    BY <2>1, <2>2, GoodStart
<1>2. CASE c = RestoreUsrDic
  <2>1. /\ c.rows = {} /\ c.append = FALSE /\ c.saves = FALSE
        /\ c.steps = <<"present", "init", "restore">>
    BY <1>2 DEF RestoreUsrDic
  <2>2. Good(c.steps, c) /\ Has(c.steps, "init")
    BY <2>1, Ends, Pieces
  <2>. QED
    BY <2>1, <2>2, GoodStart
<1>3. ASSUME NEW rows, NEW append \in BOOLEAN, NEW ask \in BOOLEAN, c = MergeUserDic(rows, append, ask)
      PROVE  Starts(c)
  <2>1. c.append = append /\ c.saves = ask /\ c.steps = Saving(ask) \o Merging(append)
    BY <1>3 DEF MergeUserDic
  <2>2. Good(Merging(append), c) /\ Has(Merging(append), "init") /\ (append => Has(Merging(append), "read"))
    BY <2>1, MergingGood
  <2>3. Good(c.steps, c) /\ Has(c.steps, "init") /\ (append => Has(c.steps, "read"))
        /\ (ask => Has(c.steps, "save"))
    BY <2>1, <2>2, SavingCalm, CalmBefore
  <2>. QED
    BY <2>1, <2>3, GoodStart
<1>4. ASSUME NEW fetch \in BOOLEAN, NEW ext, NEW user, NEW replace \in BOOLEAN, NEW save \in BOOLEAN,
             save => replace, c = BuildDictionary(fetch, ext, user, replace, save)
      PROVE  Starts(c)
  <2> DEFINE a == IF fetch THEN <<"collect">> ELSE <<>>
             b == IF user # {} THEN <<"check">> ELSE <<>>
             d == IF ext \cup user # {} THEN Merging(~replace)
                  ELSE IF replace THEN <<"init", "write">> ELSE <<"look">>
             s == Saving(save) \o a
             t == s \o b
  <2>1. c.append = ~replace /\ c.saves = save /\ c.rows = ext \cup user /\ c.steps = t \o d
    BY <1>4 DEF BuildDictionary
  <2>2. a \in Seq(Calm) /\ ~Has(a, "read")
    BY Pieces
  <2>3. b \in Seq(Calm) /\ ~Has(b, "read")
    BY Pieces
  <2>4. /\ Good(d, c) /\ (c.append /\ c.rows # {} => Has(d, "read"))
        /\ (c.rows # {} \/ replace) => Has(d, "init")
        /\ c.rows = {} /\ ~replace => d = <<"look">>
    <3>1. CASE ext \cup user # {}
      <4>1. d = Merging(~replace)
        BY <3>1
      <4> HIDE DEF d
      <4>2. Good(d, c) /\ Has(d, "init") /\ (~replace => Has(d, "read"))
        <5>1. (~replace) \in BOOLEAN /\ (~replace => c.append)
          BY <2>1
        <5>. QED
          BY <4>1, <5>1, MergingGood
      <4>. QED
        BY <2>1, <3>1, <4>2
    <3>2. CASE ext \cup user = {}
      BY <2>1, <3>2, Ends, Pieces
    <3>. QED
      BY <3>1, <3>2
  <2> HIDE DEF a, b, d
  <2>5. s \in Seq(Calm) /\ ~Has(s, "read") /\ (save => Has(s, "save"))
    BY <2>2, SavingCalm, CalmBoth
  <2> HIDE DEF s
  <2>6. t \in Seq(Calm) /\ ~Has(t, "read") /\ (save => Has(t, "save"))
    BY <2>3, <2>5, CalmBoth
  <2> HIDE DEF t
  <2>7. Good(c.steps, c) /\ \A x : Has(c.steps, x) <=> Has(t, x) \/ Has(d, x)
    BY <2>1, <2>4, <2>6, CalmBefore
  <2>8. Has(c.steps, "init") \/ \A x \in Closing : ~Has(c.steps, x)
    <3>1. CASE c.rows # {} \/ replace
      BY <2>4, <2>7, <3>1
    <3>2. CASE c.rows = {} /\ ~replace
      <4>1. \A x : Has(d, x) <=> x = "look"
        BY <2>4, <3>2, Pieces
      <4>2. \A x : Has(t, x) => x \in Calm
        <5>1. \A k \in 1 .. Len(t) : t[k] \in Calm
          BY <2>6
        <5>. QED
          BY <5>1 DEF Has
      <4>3. "look" \notin Closing /\ \A x \in Calm : x \notin Closing
        BY DEF Calm, Closing
      <4>. QED
        BY <2>7, <4>1, <4>2, <4>3
    <3>. QED
      BY <3>1, <3>2
  <2>9. (c.append /\ c.rows # {} => Has(c.steps, "read")) /\ (c.saves => Has(c.steps, "save"))
    BY <2>1, <2>4, <2>6, <2>7
  <2>. QED
    BY <2>7, <2>8, <2>9, GoodStart
<1>5. ASSUME NEW save \in BOOLEAN, c = UseSystemDic(save)
      PROVE  Starts(c)
  <2>1. c.append = FALSE /\ c.saves = save /\ c.steps = Saving(save) \o <<"init", "write">>
    BY <1>5 DEF UseSystemDic
  <2>2. Good(<<"init", "write">>, c) /\ Has(<<"init", "write">>, "init")
    BY Ends, Pieces
  <2>3. Good(c.steps, c) /\ Has(c.steps, "init") /\ (save => Has(c.steps, "save"))
    BY <2>1, <2>2, SavingCalm, CalmBefore
  <2>. QED
    BY <2>1, <2>3, GoodStart
<1>6. ASSUME NEW ext, NEW save \in BOOLEAN, c = UseExternal(ext, save)
      PROVE  Starts(c)
  BY <1>4, <1>6 DEF UseExternal
<1>7. CASE c \in { MergeUserDic(u, append, ask) : u \in Users \ {{}}, append, ask \in BOOLEAN }
  <2>1. \E u \in Users \ {{}}, append, ask \in BOOLEAN : c = MergeUserDic(u, append, ask)
    BY <1>7
  <2>. QED
    BY <1>3, <2>1
<1>8. CASE c \in { BuildOfUser(u, replace) : u \in Users, replace \in BOOLEAN }
  <2>1. \E u \in Users, replace \in BOOLEAN : c = BuildOfUser(u, replace)
    BY <1>8
  <2>. QED
    BY <1>4, <2>1 DEF BuildOfUser
<1>9. CASE c \in { BuildOfExternal(e, u, replace) : e \in External, u \in Users, replace \in BOOLEAN }
  <2>1. \E e \in External, u \in Users, replace \in BOOLEAN : c = BuildOfExternal(e, u, replace)
    BY <1>9
  <2>. QED
    BY <1>4, <2>1 DEF BuildOfExternal
<1>10. CASE c \in { UseExternal(e, save) : e \in External, save \in BOOLEAN }
  <2>1. \E e \in External, save \in BOOLEAN : c = UseExternal(e, save)
    BY <1>10
  <2>. QED
    BY <1>6, <2>1
<1>11. CASE c \in { UseSystemDic(save) : save \in BOOLEAN }
  <2>1. \E save \in BOOLEAN : c = UseSystemDic(save)
    BY <1>11
  <2>. QED
    BY <1>5, <2>1
<1>. QED
  BY <1>1, <1>2, <1>7, <1>8, <1>9, <1>10, <1>11 DEF Calls

-----------------------------------------------------------------------------
(* The invariant *)

\* A last step is alone.
LEMMA Alone ==
  ASSUME NEW c, NEW t, Shape(t, c), t # <<>>, t[1] \in Closing
  PROVE  Tail(t) = <<>> /\ (\A x : Has(t, x) <=> x = t[1]) /\ (c.rows # {} => t[1] \in {"write", "writing"})
<1>1. Tail(t) = <<>> /\ (c.rows # {} => t[1] \in {"write", "writing"})
  BY StepDone
<1>2. \A x : ~Has(Tail(t), x)
  BY <1>1, Pieces
<1>3. Has(t, t[1]) /\ \A x : Has(t, x) => x = t[1] \/ Has(Tail(t), x)
  BY StepDone
<1>. QED
  BY <1>1, <1>2, <1>3

\* Nothing is left of a call that is over.
LEMMA Over ==
  ASSUME NEW c
  PROVE  Shape(<<>>, c) /\ \A x : ~Has(<<>>, x)
<1>1. <<>> \in Seq(Steps) /\ Len(<<>>) = 0
  OBVIOUS
<1>2. \A x : ~Has(<<>>, x)
  BY Pieces
<1>. QED
  BY <1>1, <1>2 DEF Shape

\* No call has been made yet.
LEMMA InitHolds ==
  Init => IInv
<1>. SUFFICES ASSUME Init PROVE IInv
  OBVIOUS
<1>1. Shape(todo, call) /\ \A x : ~Has(todo, x)
  BY Over DEF Init
<1>2. todo = <<>> /\ outcome = "none" /\ before = Missing /\ dic = Missing /\ trust = "none"
  BY DEF Init
<1>. QED
  BY <1>1, <1>2 DEF IInv, Untouched, Collected, Made, Backed, AllOrNothing, OldOrBackup

\* A call begins.
LEMMA BeginHolds ==
  ASSUME IInv, NEW c \in Calls, Begin(c)
  PROVE  IInv'
<1>1. Starts(c)
  BY CallsStart
<1>2. /\ call' = c /\ todo' = c.steps /\ writes' = c.rows /\ outcome' = "running" /\ before' = dic
      /\ todo = <<>> /\ UNCHANGED <<dir, dic, backup, saved, trust>>
  BY DEF Begin
<1>3. Shape(todo', call') /\ todo' # <<>> /\ todo'[1] \notin Halves
  <2>1. Shape(c.steps, c) /\ c.steps # <<>> /\ \A k \in 1 .. Len(c.steps) : c.steps[k] \notin Halves
    BY <1>1 DEF Starts
  <2>2. 1 \in 1 .. Len(c.steps)
    <3>1. c.steps \in Seq(Steps) /\ c.steps # <<>>
      BY <2>1 DEF Shape
    <3>. QED
      BY <3>1
  <2>. QED
    BY <1>2, <2>1, <2>2
<1>4. trust # "copying"
  BY <1>2 DEF IInv, Backed
<1>5. Untouched'
  BY <1>2, <1>3 DEF Untouched, Halves
<1>6. Collected'
  BY <1>1, <1>2, <1>3 DEF Starts, Collected, Halves
<1>7. Made'
  BY <1>1, <1>2 DEF Starts, IInv, Made
<1>8. Backed'
  BY <1>1, <1>2, <1>3, <1>4 DEF Starts, IInv, Backed, Halves
<1>9. AllOrNothing' /\ OldOrBackup'
  BY <1>2 DEF AllOrNothing, OldOrBackup
<1>. QED
  BY <1>2, <1>3, <1>5, <1>6, <1>7, <1>8, <1>9 DEF IInv

\* A call that is stopped before it writes leaves everything as it is.
LEMMA StopHolds ==
  ASSUME IInv, todo # <<>>, todo[1] \notin {"saving", "writing", "restoring"}, Stop,
         UNCHANGED <<dir, dic, backup, writes, before, saved, trust, call>>
  PROVE  IInv'
<1>1. todo' = <<>> /\ outcome' = "stopped"
  BY DEF Stop
<1>2. Shape(todo', call') /\ \A x : ~Has(todo', x)
  BY <1>1, Over
<1>3. Untouched' /\ AllOrNothing'
  BY <1>1 DEF IInv, Untouched, AllOrNothing
<1>4. Collected' /\ OldOrBackup'
  BY <1>1 DEF IInv, Collected, OldOrBackup
<1>5. Made' /\ Backed'
  BY <1>1, <1>2 DEF IInv, Made, Backed
<1>. QED
  BY <1>1, <1>2, <1>3, <1>4, <1>5 DEF IInv

\* A call that goes on without having changed anything.
LEMMA GoHolds ==
  ASSUME IInv, todo # <<>>, todo[1] \in {"collect", "check", "present", "look", "init"},
         todo[1] = "init" => dir # "none",
         Go(Tail(todo)), UNCHANGED <<dir, dic, backup, writes, before, saved, trust, call>>
  PROVE  IInv'
<1>1. todo' = Tail(todo) /\ outcome' = IF todo' = <<>> THEN "returned" ELSE "running"
  BY DEF Go
<1>2. /\ Shape(todo', call') /\ (todo' # <<>> => todo'[1] \notin Halves)
      /\ \A s : Has(todo', s) => Has(todo, s)
      /\ \A s : Has(todo, s) => s = todo[1] \/ Has(todo', s)
      /\ todo' = <<>> => call.rows = {}
  BY <1>1, StepDone DEF IInv
<1>3. Untouched'
  BY <1>1, <1>2 DEF IInv, Untouched, Halves
<1>4. Collected'
  BY <1>2 DEF IInv, Collected, Halves
<1>5. Made'
  BY <1>2 DEF IInv, Made
<1>6. Backed'
  BY <1>2 DEF IInv, Backed, Halves
<1>7. AllOrNothing' /\ OldOrBackup'
  BY <1>1, <1>2 DEF IInv, AllOrNothing, OldOrBackup
<1>. QED
  BY <1>1, <1>2, <1>3, <1>4, <1>5, <1>6, <1>7 DEF IInv

\* The step a call is at is the first of those it has left.
LEMMA AtFirst ==
  ASSUME IInv, NEW s, At(s)
  PROVE  todo # <<>> /\ todo[1] = s
  BY StepDone DEF At, IInv

\* Checking the arguments.
LEMMA ValidateHolds ==
  ASSUME IInv, Validate
  PROVE  IInv'
<1>1. /\ At("collect") \/ At("check") \/ At("present") \/ At("look")
      /\ Go(Tail(todo)) \/ Stop
      /\ UNCHANGED <<dir, dic, backup, writes, before, saved, trust, call>>
  BY DEF Validate
<1>2. todo # <<>> /\ todo[1] \in {"collect", "check", "present", "look"}
  BY <1>1, AtFirst
<1>. QED
  BY <1>1, <1>2, StopHolds, GoHolds

\* Making the directory: if there was none, the call found no dictionary.
LEMMA InitDirectoryHolds ==
  ASSUME IInv, InitDirectory
  PROVE  IInv'
<1>1. todo # <<>> /\ todo[1] = "init"
  BY AtFirst DEF InitDirectory
<1>2. UNCHANGED <<backup, writes, before, saved, trust, call>>
  BY DEF InitDirectory
<1>3. CASE Stop /\ UNCHANGED <<dir, dic>>
  BY <1>1, <1>2, <1>3, StopHolds
<1>4. CASE dir # "none" /\ Go(Tail(todo)) /\ UNCHANGED <<dir, dic>>
  BY <1>1, <1>2, <1>4, GoHolds
<1>5. CASE /\ dir = "none" /\ dir' = "partial"
           /\ dic' \in {Missing} \cup SUBSET Bundled
           /\ Go(<<"fill">> \o Tail(todo))
  <2>1. /\ Shape(todo', call') /\ todo' # <<>> /\ todo'[1] = "fill" /\ outcome' = "running"
        /\ \A s : Has(todo, s) => s = "init" \/ Has(todo', s)
    <3>1. /\ Shape(<<"fill">> \o Tail(todo), call)
          /\ <<"fill">> \o Tail(todo) # <<>> /\ (<<"fill">> \o Tail(todo))[1] = "fill"
          /\ \A s : Has(Tail(todo), s) => Has(<<"fill">> \o Tail(todo), s)
      <4>1. Shape(todo, call)
        BY DEF IInv
      <4>2. Second(todo[1], "fill")
        BY <1>1 DEF Second
      <4>. QED
        BY <1>1, <4>1, <4>2, HalfDone
    <3>2. \A s : Has(todo, s) => s = "init" \/ Has(Tail(todo), s)
      BY <1>1, StepDone DEF IInv
    <3>. QED
      BY <1>2, <1>5, <3>1, <3>2 DEF Go
  <2>2. before = Missing
    <3>1. dic = Missing
      BY <1>5 DEF IInv, Made
    <3>. QED
      BY <1>1, <3>1 DEF IInv, Untouched
  <2>3. Untouched'
    BY <1>2, <1>5, <2>1, <2>2 DEF Untouched
  <2>4. Collected'
    BY <1>1, <1>2, <2>1, <2>2 DEF IInv, Collected
  <2>5. Made'
    BY <1>5 DEF Made
  <2>6. Backed'
    BY <1>1, <1>2, <2>1, <2>2 DEF IInv, Backed
  <2>7. AllOrNothing' /\ OldOrBackup'
    BY <1>2, <2>1, <2>2 DEF AllOrNothing, OldOrBackup
  <2>. QED
    BY <2>1, <2>3, <2>4, <2>5, <2>6, <2>7 DEF IInv
<1>. QED
  BY <1>3, <1>4, <1>5 DEF InitDirectory

\* Filling it brings the package's dictionary.
LEMMA FillDirectoryHolds ==
  ASSUME IInv, FillDirectory
  PROVE  IInv'
<1>1. todo # <<>> /\ todo[1] = "fill"
  BY AtFirst DEF FillDirectory
<1>2. UNCHANGED <<backup, writes, before, saved, trust, call>>
  BY DEF FillDirectory
<1>3. CASE Stop /\ UNCHANGED <<dir, dic>>
  BY <1>1, <1>2, <1>3, StopHolds
<1>4. CASE dir' = "full" /\ dic' = Bundled /\ Go(Tail(todo))
  <2>1. todo' = Tail(todo) /\ outcome' = IF todo' = <<>> THEN "returned" ELSE "running"
    BY <1>4 DEF Go
  <2>2. /\ Shape(todo', call') /\ (todo' # <<>> => todo'[1] \notin Halves)
        /\ \A s : Has(todo, s) => s = "fill" \/ Has(todo', s)
        /\ todo' = <<>> => call.rows = {}
    BY <1>1, <1>2, <2>1, StepDone DEF IInv
  <2>3. before = Missing
    BY <1>1 DEF IInv, Untouched
  <2>4. Untouched'
    BY <1>2, <1>4, <2>1, <2>2, <2>3 DEF Untouched, Halves
  <2>5. Collected'
    BY <1>1, <1>2, <2>2, <2>3 DEF IInv, Collected, Halves
  <2>6. Made'
    BY <1>4 DEF Made
  <2>7. Backed'
    BY <1>1, <1>2, <2>2, <2>3 DEF IInv, Backed, Halves
  <2>8. AllOrNothing' /\ OldOrBackup'
    BY <1>2, <2>1, <2>2, <2>3 DEF AllOrNothing, OldOrBackup
  <2>. QED
    BY <2>1, <2>2, <2>4, <2>5, <2>6, <2>7, <2>8 DEF IInv
<1>. QED
  BY <1>3, <1>4 DEF FillDirectory

\* What a backup is taken of is what the call found.
LEMMA OpenBackupHolds ==
  ASSUME IInv, OpenBackup
  PROVE  IInv'
<1>1. todo # <<>> /\ todo[1] = "save"
  BY AtFirst DEF OpenBackup
<1>2. UNCHANGED <<dir, dic, writes, before, call>>
  BY DEF OpenBackup
<1>3. CASE /\ dic # Missing /\ saved' = dic /\ trust' = "copying"
           /\ Go(<<"saving">> \o Tail(todo))
  <2>1. /\ Shape(todo', call') /\ todo' # <<>> /\ todo'[1] = "saving" /\ outcome' = "running"
        /\ \A s : Has(todo, s) => s = "save" \/ Has(todo', s)
    <3>1. /\ Shape(<<"saving">> \o Tail(todo), call)
          /\ <<"saving">> \o Tail(todo) # <<>> /\ (<<"saving">> \o Tail(todo))[1] = "saving"
          /\ \A s : Has(Tail(todo), s) => Has(<<"saving">> \o Tail(todo), s)
      <4>1. Shape(todo, call)
        BY DEF IInv
      <4>2. Second(todo[1], "saving")
        BY <1>1 DEF Second
      <4>. QED
        BY <1>1, <4>1, <4>2, HalfDone
    <3>2. \A s : Has(todo, s) => s = "save" \/ Has(Tail(todo), s)
      BY <1>1, StepDone DEF IInv
    <3>. QED
      BY <1>2, <1>3, <3>1, <3>2 DEF Go
  <2>2. Has(todo', "saving")
    BY <2>1, StepDone
  <2>3. Untouched'
    BY <1>1, <1>2, <2>1 DEF IInv, Untouched
  <2>4. Collected'
    BY <1>1, <1>2, <2>1 DEF IInv, Collected
  <2>5. Made'
    BY <1>2, <1>3 DEF IInv, Made
  <2>6. Backed'
    BY <1>2, <1>3, <2>1, <2>2 DEF Backed
  <2>7. AllOrNothing'
    BY <2>1 DEF AllOrNothing
  <2>8. OldOrBackup'
    BY <1>1, <1>2 DEF IInv, Untouched, OldOrBackup
  <2>. QED
    BY <2>1, <2>3, <2>4, <2>5, <2>6, <2>7, <2>8 DEF IInv
<1>4. CASE Go(Tail(todo)) /\ trust' = "failed" /\ UNCHANGED <<backup, saved>>
  <2>1. todo' = Tail(todo) /\ outcome' = IF todo' = <<>> THEN "returned" ELSE "running"
    BY <1>4 DEF Go
  <2>2. /\ Shape(todo', call') /\ (todo' # <<>> => todo'[1] \notin Halves)
        /\ \A s : Has(todo', s) => Has(todo, s)
        /\ \A s : Has(todo, s) => s = "save" \/ Has(todo', s)
        /\ todo' = <<>> => call.rows = {}
    BY <1>1, <1>2, <2>1, StepDone DEF IInv
  <2>3. Untouched'
    BY <1>1, <1>2, <2>1, <2>2 DEF IInv, Untouched, Halves
  <2>4. Collected'
    BY <1>1, <1>2, <2>2 DEF IInv, Collected, Halves
  <2>5. Made'
    BY <1>2, <2>2 DEF IInv, Made
  <2>6. Backed'
    BY <1>4, <2>2 DEF Backed, Halves
  <2>7. AllOrNothing' /\ OldOrBackup'
    BY <1>2, <1>4, <2>1, <2>2 DEF AllOrNothing, OldOrBackup
  <2>. QED
    BY <2>1, <2>2, <2>3, <2>4, <2>5, <2>6, <2>7 DEF IInv
<1>. QED
  BY <1>3, <1>4 DEF OpenBackup

\* A backup that is finished is what the call found.
LEMMA CloseBackupHolds ==
  ASSUME IInv, CloseBackup
  PROVE  IInv'
<1>1. todo # <<>> /\ todo[1] = "saving"
  BY AtFirst DEF CloseBackup
<1>2. UNCHANGED <<dir, dic, writes, before, saved, call>>
  BY DEF CloseBackup
<1>3. trust' = "failed" \/ (trust' = "saved" /\ backup' = dic)
  BY DEF CloseBackup
<1>4. todo' = Tail(todo) /\ outcome' = IF todo' = <<>> THEN "returned" ELSE "running"
  BY DEF CloseBackup, Go
<1>5. /\ Shape(todo', call') /\ (todo' # <<>> => todo'[1] \notin Halves)
      /\ \A s : Has(todo', s) => Has(todo, s)
      /\ \A s : Has(todo, s) => s = "saving" \/ Has(todo', s)
      /\ todo' = <<>> => call.rows = {}
  BY <1>1, <1>2, <1>4, StepDone DEF IInv
<1>6. saved = dic /\ (before # Missing => dic = before)
  BY <1>1 DEF IInv, Backed, Untouched
<1>7. Untouched'
  BY <1>1, <1>2, <1>4, <1>5 DEF IInv, Untouched, Halves
<1>8. Collected'
  BY <1>1, <1>2, <1>5 DEF IInv, Collected, Halves
<1>9. Made'
  BY <1>1, <1>2, <1>5 DEF IInv, Made
<1>10. Backed'
  BY <1>2, <1>3, <1>5, <1>6 DEF Backed, Halves
<1>11. AllOrNothing' /\ OldOrBackup'
  BY <1>2, <1>3, <1>4, <1>5, <1>6 DEF AllOrNothing, OldOrBackup
<1>. QED
  BY <1>4, <1>5, <1>7, <1>8, <1>9, <1>10, <1>11 DEF IInv

\* Where a call writes or restores there is a directory.
LEMMA DirectoryMade ==
  ASSUME IInv, todo # <<>>, todo[1] \in Closing
  PROVE  dir # "none"
<1>1. \A s : Has(todo, s) <=> s = todo[1]
  BY Alone DEF IInv
<1>. QED
  BY <1>1 DEF IInv, Made, Closing

\* Restoring is not done by a call that takes a backup or has rows to write.
LEMMA RestoreHolds ==
  ASSUME IInv, OpenRestore \/ CloseRestore
  PROVE  IInv'
<1>1. todo # <<>> /\ todo[1] \in {"restore", "restoring"} /\ todo[1] \in Closing
  BY AtFirst DEF OpenRestore, CloseRestore, Closing
<1>2. UNCHANGED <<dir, backup, writes, before, saved, trust, call>>
  BY DEF OpenRestore, CloseRestore
<1>3. \A s : Has(todo, s) <=> s = todo[1]
  BY <1>1, Alone DEF IInv
<1>4. call.rows = {} /\ ~call.saves
  <2>1. call.rows = {}
    BY <1>1, Alone DEF IInv
  <2>2. ~call.saves
    BY <1>1, <1>3 DEF IInv, Shape
  <2>. QED
    BY <2>1, <2>2
<1>5. dir # "none" /\ trust # "copying"
  BY <1>1, DirectoryMade DEF IInv, Backed
<1>6. Made' /\ OldOrBackup'
  BY <1>2, <1>4, <1>5 DEF Made, OldOrBackup
<1>7. CASE Go(<<"restoring">>)
  <2>1. todo' = <<"restoring">> /\ outcome' = "running" /\ todo' # <<>> /\ todo'[1] = "restoring"
    BY <1>7 DEF Go
  <2>2. \A s : Has(todo', s) <=> s = "restoring"
    <3>1. Len(todo') = 1 /\ todo'[1] = "restoring" /\ 1 \in 1 .. 1 /\ \A k \in 1 .. 1 : k = 1
      BY <2>1
    <3>. QED
      BY <3>1 DEF Has
  <2>3. Shape(todo', call')
    <3>1. todo' \in Seq(Steps) /\ Len(todo') = 1
      BY <2>1 DEF Steps
    <3>. QED
      BY <1>2, <1>4, <2>2, <3>1 DEF Shape
  <2>4. Untouched' /\ AllOrNothing'
    BY <2>1 DEF Untouched, AllOrNothing
  <2>5. Collected'
    BY <1>1, <1>2, <1>4, <2>1 DEF IInv, Collected
  <2>6. Backed'
    BY <1>2, <1>4, <1>5, <2>1 DEF IInv, Backed
  <2>. QED
    BY <1>6, <2>1, <2>3, <2>4, <2>5, <2>6 DEF IInv
<1>8. CASE todo' = <<>> /\ outcome' \in {"warned", "restored"}
  <2>1. Shape(todo', call') /\ \A s : ~Has(todo', s)
    BY <1>8, Over
  <2>2. Untouched' /\ AllOrNothing'
    BY <1>8 DEF Untouched, AllOrNothing
  <2>3. Collected' /\ Backed'
    BY <1>2, <1>5, <1>8 DEF IInv, Collected, Backed
  <2>. QED
    BY <1>6, <1>8, <2>1, <2>2, <2>3 DEF IInv
<1>. QED
  BY <1>7, <1>8 DEF OpenRestore, CloseRestore

\* What is read is what the call found.
LEMMA ReadOldHolds ==
  ASSUME IInv, ReadOld
  PROVE  IInv'
<1>1. todo # <<>> /\ todo[1] = "read"
  BY AtFirst DEF ReadOld
<1>2. UNCHANGED <<dir, dic, backup, before, saved, trust, call>>
  BY DEF ReadOld
<1>3. CASE Stop /\ UNCHANGED writes
  BY <1>1, <1>2, <1>3, StopHolds
<1>4. CASE Go(Tail(todo)) /\ writes' = writes \cup (IF dic = Missing THEN {} ELSE dic)
  <2>1. todo' = Tail(todo) /\ outcome' = IF todo' = <<>> THEN "returned" ELSE "running"
    BY <1>4 DEF Go
  <2>2. /\ Shape(todo', call') /\ (todo' # <<>> => todo'[1] \notin Halves)
        /\ \A s : Has(todo', s) => Has(todo, s)
        /\ \A s : Has(todo, s) => s = "read" \/ Has(todo', s)
        /\ todo' = <<>> => call.rows = {}
    BY <1>1, <1>2, <2>1, StepDone DEF IInv
  <2>3. call.append
    <3>1. Has(todo, "read")
      BY <1>1, StepDone DEF IInv
    <3>. QED
      BY <3>1 DEF IInv, Shape
  <2>4. IF before # Missing THEN dic = before ELSE dic = Missing \/ dic \subseteq Bundled
    BY <1>1 DEF IInv, Untouched
  <2>5. Untouched'
    BY <1>1, <1>2, <2>1, <2>2 DEF IInv, Untouched, Halves
  <2>6. Collected'
    BY <1>1, <1>2, <1>4, <2>2, <2>3, <2>4 DEF IInv, Collected, Halves
  <2>7. Made'
    BY <1>1, <1>2, <2>2 DEF IInv, Made
  <2>8. Backed'
    BY <1>1, <1>2, <2>2 DEF IInv, Backed, Halves
  <2>9. AllOrNothing' /\ OldOrBackup'
    BY <1>2, <2>1, <2>2 DEF IInv, AllOrNothing, OldOrBackup
  <2>. QED
    BY <2>1, <2>2, <2>5, <2>6, <2>7, <2>8, <2>9 DEF IInv
<1>. QED
  BY <1>3, <1>4 DEF ReadOld

\* The file is opened when what the call found is in the backup, if the call
\* takes one.
LEMMA OpenWriteHolds ==
  ASSUME IInv, OpenWrite
  PROVE  IInv'
<1>1. todo # <<>> /\ todo[1] = "write" /\ todo[1] \in Closing
  BY AtFirst DEF OpenWrite, Closing
<1>2. UNCHANGED <<dir, backup, writes, before, saved, trust, call>>
  BY DEF OpenWrite
<1>3. (\A s : Has(todo, s) <=> s = "write") /\ Tail(todo) = <<>>
  BY <1>1, Alone DEF IInv
<1>4. dir # "none" /\ trust # "copying"
  BY <1>1, DirectoryMade DEF IInv, Backed
<1>5. CASE Stop /\ UNCHANGED dic
  BY <1>1, <1>2, <1>5, StopHolds
<1>6. CASE dic' \in SUBSET writes /\ Go(<<"writing">> \o Tail(todo))
  <2>1. /\ Shape(todo', call') /\ todo' # <<>> /\ todo'[1] = "writing" /\ outcome' = "running"
        /\ \A s : Has(todo', s) => s = "writing"
    <3>1. /\ Shape(<<"writing">> \o Tail(todo), call)
          /\ <<"writing">> \o Tail(todo) # <<>> /\ (<<"writing">> \o Tail(todo))[1] = "writing"
          /\ \A s : Has(<<"writing">> \o Tail(todo), s) => s = "writing" \/ Has(Tail(todo), s)
      <4>1. Shape(todo, call)
        BY DEF IInv
      <4>2. Second(todo[1], "writing")
        BY <1>1 DEF Second
      <4>. QED
        BY <1>1, <4>1, <4>2, HalfDone
    <3>2. \A s : ~Has(Tail(todo), s)
      BY <1>3, Over
    <3>. QED
      BY <1>2, <1>6, <3>1, <3>2 DEF Go
  <2>2. Untouched' /\ AllOrNothing'
    BY <2>1 DEF Untouched, AllOrNothing
  <2>3. Collected'
    BY <1>1, <1>2, <1>3, <1>6 DEF IInv, Collected
  <2>4. Made'
    BY <1>2, <1>4 DEF Made
  <2>5. Backed' /\ OldOrBackup'
    BY <1>1, <1>2, <1>3, <1>4, <2>1 DEF IInv, Backed, OldOrBackup
  <2>. QED
    BY <2>1, <2>2, <2>3, <2>4, <2>5 DEF IInv
<1>7. CASE writes = {} /\ Go(Tail(todo)) /\ UNCHANGED dic
  <2>1. todo' = <<>> /\ outcome' = "returned"
    BY <1>3, <1>7 DEF Go
  <2>2. Shape(todo', call') /\ \A s : ~Has(todo', s)
    BY <2>1, Over
  <2>3. call.rows = {}
    BY <1>1, <1>7 DEF IInv, Collected
  <2>4. Untouched' /\ AllOrNothing' /\ OldOrBackup'
    BY <1>2, <1>7, <2>1, <2>3 DEF IInv, Untouched, AllOrNothing, OldOrBackup
  <2>5. Collected' /\ Made' /\ Backed'
    BY <1>2, <1>4, <2>1 DEF IInv, Collected, Made, Backed
  <2>. QED
    BY <2>1, <2>2, <2>4, <2>5 DEF IInv
<1>. QED
  BY <1>5, <1>6, <1>7 DEF OpenWrite

\* A call that has written is over; one that could not write all of it has
\* left some of it.
LEMMA CloseWriteHolds ==
  ASSUME IInv, CloseWrite
  PROVE  IInv'
<1>1. todo # <<>> /\ todo[1] = "writing" /\ todo[1] \in Closing
  BY AtFirst DEF CloseWrite, Closing
<1>2. UNCHANGED <<dir, backup, writes, before, saved, trust, call>>
  BY DEF CloseWrite
<1>3. (\A s : Has(todo, s) <=> s = "writing") /\ Tail(todo) = <<>>
  BY <1>1, Alone DEF IInv
<1>4. dir # "none" /\ trust # "copying"
  BY <1>1, DirectoryMade DEF IInv, Backed
<1>5. /\ todo' = <<>>
      /\ \/ dic' = writes /\ outcome' = "returned"
         \/ UNCHANGED dic /\ outcome' = "write failed"
  BY <1>3 DEF CloseWrite, Go
<1>6. Shape(todo', call')
  BY <1>5, Over
<1>7. ASSUME dic' = writes, outcome' = "returned" PROVE AllOrNothing'
  <2>. SUFFICES ASSUME call.rows # {}
                PROVE  IF ~call.append THEN writes = call.rows
                       ELSE IF before # Missing THEN writes = before \cup call.rows
                       ELSE call.rows \subseteq writes /\ writes \subseteq call.rows \cup Bundled
    BY <1>2, <1>7 DEF AllOrNothing
  <2>. QED
    BY <1>1, <1>3 DEF IInv, Collected
<1>8. ASSUME UNCHANGED dic, outcome' = "write failed" PROVE AllOrNothing'
  <2>1. dic \subseteq writes
    BY <1>1 DEF IInv, Collected
  <2>2. writes \subseteq call.rows \cup (IF ~call.append THEN {}
                                       ELSE IF before # Missing THEN before ELSE Bundled)
    BY <1>1 DEF IInv, Collected
  <2>. QED
    BY <1>2, <1>8, <2>1, <2>2 DEF AllOrNothing
<1>9. AllOrNothing'
  BY <1>5, <1>7, <1>8
<1>10. OldOrBackup'
  BY <1>1, <1>2, <1>3 DEF IInv, Backed, OldOrBackup
<1>11. Untouched' /\ Collected' /\ Made' /\ Backed'
  BY <1>2, <1>4, <1>5 DEF IInv, Untouched, Collected, Made, Backed
<1>. QED
  BY <1>5, <1>6, <1>9, <1>10, <1>11 DEF IInv

\* A crash keeps the files as they are; a copy that was cut off is no backup.
LEMMA CrashHolds ==
  ASSUME IInv, Crash
  PROVE  IInv'
<1>1. /\ todo' = <<>> /\ outcome' = "crashed"
      /\ trust' = IF trust = "copying" THEN "failed" ELSE trust
      /\ UNCHANGED <<dir, dic, backup, before, saved, call>>
  BY DEF Crash
<1>2. Shape(todo', call') /\ \A s : ~Has(todo', s)
  BY <1>1, Over
<1>3. Untouched' /\ Collected' /\ AllOrNothing'
  BY <1>1 DEF Untouched, Collected, AllOrNothing
<1>4. Made' /\ Backed' /\ OldOrBackup'
  BY <1>1, <1>2 DEF IInv, Made, Backed, OldOrBackup
<1>. QED
  BY <1>1, <1>2, <1>3, <1>4 DEF IInv

\* Every step keeps the invariant.
LEMMA NextHolds ==
  IInv /\ [Next]_vars => IInv'
<1>. SUFFICES ASSUME IInv, [Next]_vars
              PROVE  IInv'
  OBVIOUS
<1>1. ASSUME NEW c \in Calls, Begin(c) PROVE IInv'
  BY <1>1, BeginHolds
<1>2. CASE Validate
  BY <1>2, ValidateHolds
<1>3. CASE InitDirectory
  BY <1>3, InitDirectoryHolds
<1>4. CASE FillDirectory
  BY <1>4, FillDirectoryHolds
<1>5. CASE OpenBackup
  BY <1>5, OpenBackupHolds
<1>6. CASE CloseBackup
  BY <1>6, CloseBackupHolds
<1>7. CASE OpenRestore \/ CloseRestore
  BY <1>7, RestoreHolds
<1>8. CASE ReadOld
  BY <1>8, ReadOldHolds
<1>9. CASE OpenWrite
  BY <1>9, OpenWriteHolds
<1>10. CASE CloseWrite
  BY <1>10, CloseWriteHolds
<1>11. CASE Crash
  BY <1>11, CrashHolds
<1>12. CASE UNCHANGED vars
  <2>. USE <1>12 DEF vars
  <2>1. Shape(todo', call') /\ \A s : Has(todo', s) <=> Has(todo, s)
    BY DEF IInv
  <2>2. Untouched' /\ Collected' /\ Made'
    BY DEF IInv, Untouched, Collected, Made
  <2>3. Backed' /\ AllOrNothing' /\ OldOrBackup'
    BY DEF IInv, Backed, AllOrNothing, OldOrBackup
  <2>. QED
    BY <2>1, <2>2, <2>3 DEF IInv
<1>. QED
  BY <1>1, <1>2, <1>3, <1>4, <1>5, <1>6, <1>7, <1>8, <1>9, <1>10, <1>11, <1>12 DEF Next

\* The invariant holds, whatever the package and the external dictionaries
\* hold and however many calls and crashes there are.
LEMMA Invariance ==
  Spec => []IInv
  BY InitHolds, NextHolds, PTL DEF Spec

-----------------------------------------------------------------------------
(* What a user may rely on *)

\* An error that is not one of the write itself has left dic_user.txt as the
\* call found it, and a failed write has left some of what was to be written;
\* a call that returns has written its rows, with all that was there if it
\* appends.
THEOREM StopsOrWrites ==
  Spec => []AllOrNothing
<1>1. IInv => AllOrNothing
  BY DEF IInv
<1>. QED
  BY <1>1, Invariance, PTL

\* In a call that takes a backup, and if R dies in it, the dictionary the call
\* found is in dic_user.txt or in the backup, unless that could not be made.
THEOREM DictionaryKept ==
  Spec => []OldOrBackup
<1>1. IInv => OldOrBackup
  BY DEF IInv
<1>. QED
  BY <1>1, Invariance, PTL

\* restoreUsrDic brings back what the last complete backup was taken of,
\* through the calls and crashes since.
THEOREM BackupComesBack ==
  Spec => RestoreBringsBack
<1>1. ASSUME IInv, [Next]_vars
      PROVE  [outcome' = "restored" /\ trust = "saved" => dic' = saved]_vars
  <2>. SUFFICES ASSUME Next, outcome' = "restored", trust = "saved"
                PROVE  dic' = saved
    BY <1>1
  <2>1. CloseRestore
    BY DEF Next, Begin, Validate, InitDirectory, FillDirectory, OpenBackup, CloseBackup,
           OpenRestore, ReadOld, OpenWrite, CloseWrite, Crash, Go, Stop
  <2>2. dic' = backup
    BY <2>1 DEF CloseRestore
  <2>3. backup = saved
    BY <1>1 DEF IInv, Backed
  <2>. QED
    BY <2>2, <2>3
<1>. QED
  BY <1>1, Invariance, PTL DEF Spec, RestoreBringsBack

=============================================================================
