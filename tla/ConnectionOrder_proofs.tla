------------------------ MODULE ConnectionOrder_proofs ------------------------
(***************************************************************************)
(* The commands of a connection do not disturb each other, where the       *)
(* pipeline has room for one or two: one of them reads, it reads the       *)
(* article it asked for, and it is told that its article is missing only   *)
(* by a server that does not have it.                                      *)
(***************************************************************************)
EXTENDS Connection_proofs

-----------------------------------------------------------------------------
(* The inductive invariant, next to ServiceInv.                            *)

\* The rest of an answer does not follow it.
Complete(l) == l.is = "end" \/ (l.is = "status" /\ l.code # 222)

\* Line l may come after line p.
Follows(l, p) ==
  \/ l.is = "data" /\ p.is = "status" /\ p.code = 222 /\ p.of = l.of
  \/ l.is = "end" /\ p.is = "data" /\ p.of = l.of
  \/ l.is = "status" /\ Complete(p)

\* The lines are answers, one after another; the last one may be cut short, with
\* a status after it, by a server that is no longer there.
Script(r, open) ==
  /\ \A i \in DOMAIN r : \A j \in DOMAIN r :
       j = i + 1 => Follows(r[j], r[i]) \/ (~ open /\ j = Len(r) /\ r[j].is = "status")
  /\ open /\ r # <<>> => Complete(r[Len(r)])

DataLine(a) == [is |-> "data", of |-> a]
EndLine(a) == [is |-> "end", of |-> a]

\* Line l comes next, unless the server is gone.
Awaits(r, open, l) ==
  \/ r = <<>> /\ ~ open
  \/ r # <<>> /\ Head(r) = l
  \/ ~ open /\ Len(r) = 1 /\ Head(r).is = "status"

\* What an article's command got, and is going to.
InData(got, r, open, a) ==
  \/ got = <<>> /\ Awaits(r, open, DataLine(a))
  \/ got = <<DataLine(a)>> /\ Awaits(r, open, EndLine(a))
  \/ r = <<>> /\ ~ open

\* More lines may come.
Live(n) == n.socket \in {"connecting", "open"}

Got(n, a, rec) ==
  /\ n.op[a] \in {"write", "sent", "queued", "status"} => rec.got = <<>>
  /\ n.op[a] = "data" => InData(rec.got, n.response, Live(n), a)
  /\ rec.state = "ok" => rec.got = <<DataLine(a)>>

Reader(n, c) == n.op[c] \in Reading

\* As many commands as the pipeline p has room for, one or two, and one that
\* reads; when it lost its turn, by the failed write of the other, there will be
\* no more answers.
OneAtATime(n, p) ==
  /\ p = 1 => \A c, d \in Busy(n) : c = d
  /\ \A c, d, e \in Busy(n) : c = d \/ d = e \/ c = e
  /\ \A c, d \in Command : Reader(n, c) /\ Reader(n, d) => c = d
  /\ \A e \in Command : Reader(n, e) /\ e \notin n.active =>
       n.socket \in {"reset", "closed"} /\ \A d \in Command \ {e} : n.op[d] \in {"none", "write"}

\* What holds of the client m and of the articles' commands.
Ordered(m, cmds) ==
  /\ IsFiniteSet(Busy(m))
  /\ Orderly =>
       /\ OneAtATime(m, setting.pipeline)
       /\ Script(m.response, Live(m))
       /\ \A a \in Article : Got(m, a, cmds[a])

OrderInv == Ordered(client, article)

-----------------------------------------------------------------------------
(* What the server sends.                                                  *)

LEMMA ScriptWeaker ==
  ASSUME NEW r, NEW open, Script(r, open)
  PROVE  Script(r, FALSE)
BY DEF Script

LEMMA ScriptTail ==
  ASSUME NEW r \in Seq(Line), NEW open, r # <<>>, Script(r, open)
  PROVE  Script(Tail(r), open)
<1> DEFINE t == Tail(r)
<1>1. /\ Len(r) \in Nat /\ Len(r) > 0 /\ DOMAIN r = 1 .. Len(r)
      /\ Len(t) = Len(r) - 1 /\ DOMAIN t = 1 .. Len(r) - 1
      /\ \A i \in 1 .. Len(r) - 1 : t[i] = r[i + 1]
  BY EmptySeq
<1>2. t # <<>> => Len(t) > 0
  BY <1>1
<1> HIDE DEF t
<1>3. ASSUME NEW i \in DOMAIN t, NEW j \in DOMAIN t, j = i + 1
      PROVE  Follows(t[j], t[i]) \/ (~ open /\ j = Len(t) /\ t[j].is = "status")
  <2>1. i + 1 \in DOMAIN r /\ j + 1 \in DOMAIN r /\ j + 1 = i + 1 + 1
    BY <1>1, <1>3
  <2>2. Follows(r[j + 1], r[i + 1]) \/ (~ open /\ j + 1 = Len(r) /\ r[j + 1].is = "status")
    BY <2>1 DEF Script
  <2>3. t[i] = r[i + 1] /\ t[j] = r[j + 1] /\ (j + 1 = Len(r) => j = Len(t))
    BY <1>1
  <2>4. QED
    BY <2>2, <2>3
<1>4. ASSUME open, t # <<>> PROVE Complete(t[Len(t)])
  <2>1. Len(t) \in 1 .. Len(r) - 1 /\ Len(t) + 1 = Len(r)
    BY <1>1, <1>2, <1>4
  <2>2. t[Len(t)] = r[Len(r)]
    BY <1>1, <2>1
  <2>3. QED
    BY <1>4, <2>2 DEF Script
<1>5. QED
  BY <1>3, <1>4 DEF Script, t

\* p is what is left of r when the socket is closed.
Prefix(p, r) ==
  /\ p \in Seq(Line) /\ Len(p) \in 0 .. Len(r)
  /\ \A i \in 1 .. Len(p) : p[i] = r[i]

LEMMA ScriptPrefix ==
  ASSUME NEW r \in Seq(Line), NEW open, Script(r, open), NEW p, Prefix(p, r)
  PROVE  Script(p, FALSE)
<1>1. ASSUME NEW i \in DOMAIN p, NEW j \in DOMAIN p, j = i + 1
      PROVE  Follows(p[j], p[i]) \/ (j = Len(p) /\ p[j].is = "status")
  <2>1. /\ i \in DOMAIN r /\ j \in DOMAIN r /\ p[i] = r[i] /\ p[j] = r[j]
        /\ j = Len(r) => j = Len(p)
    BY DEF Prefix
  <2>2. QED
    BY <1>1, <2>1 DEF Script
<1>2. QED
  BY <1>1 DEF Script

LEMMA ScriptCut ==
  ASSUME NEW r \in Seq(Line), Script(r, TRUE), NEW p, Prefix(p, r),
         NEW line \in Line, line.is = "status"
  PROVE  Script(p \o <<line>>, FALSE)
<1> DEFINE q == p \o <<line>>
<1>1. /\ p \in Seq(Line) /\ Len(p) \in Nat /\ DOMAIN p = 1 .. Len(p)
      /\ Len(q) = Len(p) + 1 /\ DOMAIN q = 1 .. Len(p) + 1
      /\ \A i \in 1 .. Len(p) : q[i] = p[i]
      /\ q[Len(p) + 1] = line
  BY DEF Prefix
<1> HIDE DEF q
<1>2. ASSUME NEW i \in DOMAIN q, NEW j \in DOMAIN q, j = i + 1
      PROVE  Follows(q[j], q[i]) \/ (j = Len(q) /\ q[j].is = "status")
  <2>1. CASE j = Len(p) + 1
    BY <1>1, <2>1
  <2>2. CASE j # Len(p) + 1
    <3>1. i \in 1 .. Len(p) /\ j \in 1 .. Len(p)
      BY <1>1, <1>2, <2>2
    <3>2. q[i] = r[i] /\ q[j] = r[j] /\ i \in DOMAIN r /\ j \in DOMAIN r
      BY <1>1, <3>1 DEF Prefix
    <3>3. Follows(r[j], r[i])
      BY <1>2, <3>2 DEF Script
    <3>4. QED
      BY <3>2, <3>3
  <2>3. QED
    BY <2>1, <2>2
<1>3. QED
  BY <1>2 DEF Script, q

LEMMA ScriptJoin ==
  ASSUME NEW r \in Seq(Line), Script(r, TRUE), NEW s \in Seq(Line), Script(s, TRUE),
         s # <<>> => s[1].is = "status"
  PROVE  Script(r \o s, TRUE)
<1> DEFINE q == r \o s
<1>1. /\ Len(r) \in Nat /\ DOMAIN r = 1 .. Len(r) /\ Len(s) \in Nat /\ DOMAIN s = 1 .. Len(s)
      /\ Len(q) = Len(r) + Len(s) /\ DOMAIN q = 1 .. Len(r) + Len(s)
      /\ \A i \in 1 .. Len(r) : q[i] = r[i]
      /\ \A i \in Len(r) + 1 .. Len(r) + Len(s) : q[i] = s[i - Len(r)]
  OBVIOUS
<1>2. (r = <<>> <=> Len(r) = 0) /\ (s = <<>> <=> Len(s) = 0) /\ (q = <<>> <=> Len(q) = 0)
  OBVIOUS
<1> HIDE DEF q
<1>3. ASSUME NEW i \in DOMAIN q, NEW j \in DOMAIN q, j = i + 1
      PROVE  Follows(q[j], q[i])
  <2>1. CASE j <= Len(r)
    <3>1. i \in DOMAIN r /\ j \in DOMAIN r /\ q[i] = r[i] /\ q[j] = r[j]
      BY <1>1, <1>3, <2>1
    <3>2. QED
      BY <1>3, <3>1 DEF Script
  <2>2. CASE i = Len(r)
    <3>1. i \in DOMAIN r /\ r # <<>> /\ 1 \in DOMAIN s /\ s # <<>> /\ q[i] = r[Len(r)] /\ q[j] = s[1]
      BY <1>1, <1>2, <1>3, <2>2
    <3>2. Complete(q[i]) /\ q[j].is = "status"
      BY <3>1 DEF Script
    <3>3. QED
      BY <3>2 DEF Follows
  <2>3. CASE i > Len(r)
    <3>1. /\ i - Len(r) \in DOMAIN s /\ j - Len(r) \in DOMAIN s
          /\ j - Len(r) = i - Len(r) + 1 /\ q[i] = s[i - Len(r)] /\ q[j] = s[j - Len(r)]
      BY <1>1, <1>3, <2>3
    <3>2. QED
      BY <3>1 DEF Script
  <2>4. QED
    BY <1>1, <1>3, <2>1, <2>2, <2>3
<1>4. ASSUME q # <<>> PROVE Complete(q[Len(q)])
  <2>1. CASE s = <<>>
    <3>1. Len(q) = Len(r) /\ r # <<>> /\ q[Len(q)] = r[Len(r)]
      BY <1>1, <1>2, <1>4, <2>1
    <3>2. QED
      BY <3>1 DEF Script
  <2>2. CASE s # <<>>
    <3>1. q[Len(q)] = s[Len(s)]
      BY <1>1, <1>2, <2>2
    <3>2. QED
      BY <2>2, <3>1 DEF Script
  <2>3. QED
    BY <2>1, <2>2
<1>5. QED
  BY <1>3, <1>4 DEF Script, q

\* After its first line, the status, an article's first line comes, and after
\* that its last one.
LEMMA AwaitsNext ==
  ASSUME NEW a \in Article, NEW r \in Seq(Line), NEW open, Script(r, open), r # <<>>
  PROVE  /\ Head(r).is = "status" /\ Head(r).code = 222 /\ Head(r).of = a
              => Awaits(Tail(r), open, DataLine(a))
         /\ Head(r) = DataLine(a) => Awaits(Tail(r), open, EndLine(a))
<1> DEFINE t == Tail(r)
<1>1. /\ Len(r) \in Nat /\ Len(r) > 0 /\ DOMAIN r = 1 .. Len(r) /\ Head(r) = r[1]
      /\ t \in Seq(Line) /\ Len(t) = Len(r) - 1 /\ DOMAIN t = 1 .. Len(r) - 1
      /\ \A i \in 1 .. Len(r) - 1 : t[i] = r[i + 1]
      /\ (t = <<>> <=> Len(t) = 0) /\ (t # <<>> => Head(t) = t[1])
  <2>1. /\ Len(r) \in Nat /\ Len(r) > 0 /\ DOMAIN r = 1 .. Len(r) /\ Head(r) = r[1]
        /\ Len(t) = Len(r) - 1 /\ DOMAIN t = 1 .. Len(r) - 1
        /\ \A i \in 1 .. Len(r) - 1 : t[i] = r[i + 1]
    BY EmptySeq
  <2>2. t \in Seq(Line)
    OBVIOUS
  <2> HIDE DEF t
  <2>3. (t = <<>> <=> Len(t) = 0) /\ (t # <<>> => Head(t) = t[1])
    BY <2>2
  <2>4. QED
    BY <2>1, <2>2, <2>3
<1> HIDE DEF t
<1>2. ASSUME ~ Complete(r[1]) PROVE t = <<>> => ~ open
  BY <1>1, <1>2 DEF Script
<1>3. ASSUME t # <<>>
      PROVE  Follows(Head(t), r[1]) \/ (~ open /\ Len(t) = 1 /\ Head(t).is = "status")
  <2>1. 1 \in DOMAIN r /\ 2 \in DOMAIN r /\ Head(t) = r[2] /\ Head(t) \in Line
    BY <1>1, <1>3
  <2>2. Follows(r[2], r[1]) \/ (~ open /\ 2 = Len(r) /\ r[2].is = "status")
    <3>1. 2 = 1 + 1
      OBVIOUS
    <3>2. \A i \in DOMAIN r : \A j \in DOMAIN r :
            j = i + 1 => Follows(r[j], r[i]) \/ (~ open /\ j = Len(r) /\ r[j].is = "status")
      BY DEF Script
    <3>3. QED
      BY <2>1, <3>1, <3>2, Zenon
  <2>3. QED
    BY <1>1, <2>1, <2>2
<1>4. \A l \in Line : l.is = "data" /\ l.of = a => l = DataLine(a)
  BY DEF Line, DataLine
<1>5. \A l \in Line : l.is = "end" /\ l.of = a => l = EndLine(a)
  BY DEF Line, EndLine
<1>6. ASSUME Head(r).is = "status", Head(r).code = 222, Head(r).of = a
      PROVE  Awaits(t, open, DataLine(a))
  <2>1. ~ Complete(r[1])
    BY <1>1, <1>6 DEF Complete
  <2>2. CASE t = <<>>
    BY <1>2, <2>1, <2>2 DEF Awaits
  <2>3. CASE t # <<>>
    <3>1. Head(t) \in Line
      BY <1>1, <2>3
    <3>2. CASE Follows(Head(t), r[1])
      <4>1. Head(t).is = "data" /\ Head(t).of = a
        BY <1>1, <1>6, <2>1, <3>2 DEF Follows
      <4>2. QED
        BY <1>4, <2>3, <3>1, <4>1 DEF Awaits
    <3>3. CASE ~ open /\ Len(t) = 1 /\ Head(t).is = "status"
      BY <3>3 DEF Awaits
    <3>4. QED
      BY <1>3, <2>3, <3>2, <3>3
  <2>4. QED
    BY <2>2, <2>3
<1>7. ASSUME Head(r) = DataLine(a) PROVE Awaits(t, open, EndLine(a))
  <2>1. r[1].is = "data" /\ r[1].of = a
    BY <1>1, <1>7 DEF DataLine
  <2>2. ~ Complete(r[1])
    BY <2>1 DEF Complete
  <2>3. CASE t = <<>>
    BY <1>2, <2>2, <2>3 DEF Awaits
  <2>4. CASE t # <<>>
    <3>1. Head(t) \in Line
      BY <1>1, <2>4
    <3>2. CASE Follows(Head(t), r[1])
      <4>1. Head(t).is = "end" /\ Head(t).of = a
        BY <2>1, <2>2, <3>2 DEF Follows
      <4>2. QED
        BY <1>5, <2>4, <3>1, <4>1 DEF Awaits
    <3>3. CASE ~ open /\ Len(t) = 1 /\ Head(t).is = "status"
      BY <3>3 DEF Awaits
    <3>4. QED
      BY <1>3, <2>4, <3>2, <3>3
  <2>5. QED
    BY <2>3, <2>4
<1>8. QED
  BY <1>6, <1>7 DEF t

LEMMA AwaitsPrefix ==
  ASSUME NEW l, NEW r \in Seq(Line), NEW open, Awaits(r, open, l), NEW p, Prefix(p, r)
  PROVE  Awaits(p, FALSE, l)
<1>1. /\ Len(r) \in Nat /\ DOMAIN r = 1 .. Len(r) /\ Len(p) \in Nat /\ DOMAIN p = 1 .. Len(p)
      /\ (r = <<>> <=> Len(r) = 0) /\ (p = <<>> <=> Len(p) = 0)
      /\ (r # <<>> => Head(r) = r[1]) /\ (p # <<>> => Head(p) = p[1])
  BY DEF Prefix
<1>2. p # <<>> => r # <<>> /\ Head(p) = Head(r) /\ (Len(r) = 1 => Len(p) = 1)
  BY <1>1 DEF Prefix
<1>3. QED
  BY <1>2 DEF Awaits

LEMMA AwaitsCut ==
  ASSUME NEW l, NEW r \in Seq(Line), Awaits(r, TRUE, l), NEW p, Prefix(p, r),
         NEW line \in Line, line.is = "status"
  PROVE  Awaits(p \o <<line>>, FALSE, l)
<1> DEFINE q == p \o <<line>>
<1>1. /\ Len(r) \in Nat /\ DOMAIN r = 1 .. Len(r) /\ Len(p) \in Nat /\ DOMAIN p = 1 .. Len(p)
      /\ (r # <<>> => Head(r) = r[1]) /\ p \in Seq(Line)
  BY DEF Prefix
<1>2. /\ Len(q) = Len(p) + 1 /\ q # <<>> /\ Head(q) = q[1]
      /\ \A i \in 1 .. Len(p) : q[i] = p[i]
      /\ q[Len(p) + 1] = line
  BY <1>1
<1> HIDE DEF q
<1>3. r # <<>> /\ Head(r) = l
  BY DEF Awaits
<1>4. CASE Len(p) = 0
  BY <1>2, <1>4 DEF Awaits, q
<1>5. CASE Len(p) # 0
  <2>1. 1 \in 1 .. Len(p)
    BY <1>1, <1>5
  <2>2. Head(q) = l
    BY <1>1, <1>2, <1>3, <2>1 DEF Prefix
  <2>3. QED
    BY <1>2, <2>2 DEF Awaits, q
<1>6. QED
  BY <1>4, <1>5

LEMMA AwaitsJoin ==
  ASSUME NEW l, NEW r \in Seq(Line), Awaits(r, TRUE, l), NEW s \in Seq(Line)
  PROVE  Awaits(r \o s, TRUE, l)
<1>1. r # <<>> /\ Head(r) = l
  BY DEF Awaits
<1>2. r \o s # <<>> /\ Head(r \o s) = Head(r)
  BY <1>1
<1>3. QED
  BY <1>1, <1>2 DEF Awaits

\* The article's lines when the socket is closed, when the server is gone, and
\* when another answer comes behind them.
LEMMA InDataKept ==
  ASSUME NEW a \in Article, NEW got, NEW r \in Seq(Line), NEW open, InData(got, r, open, a)
  PROVE  /\ InData(got, r, FALSE, a)
         /\ \A p : Prefix(p, r) => InData(got, p, FALSE, a)
         /\ open = TRUE => \A p : Prefix(p, r) => \A line \in Line :
                             line.is = "status" => InData(got, p \o <<line>>, FALSE, a)
         /\ open = TRUE => \A s \in Seq(Line) : InData(got, r \o s, TRUE, a)
<1>1. \A l : Awaits(r, open, l) => Awaits(r, FALSE, l)
  BY DEF Awaits
<1>2. \A p : Prefix(p, r) /\ r = <<>> => p = <<>>
  BY DEF Prefix
<1>3. ASSUME NEW p, Prefix(p, r) PROVE InData(got, p, FALSE, a)
  <2>1. \A l : Awaits(r, open, l) => Awaits(p, FALSE, l)
    BY <1>3, AwaitsPrefix
  <2>2. QED
    BY <1>2, <1>3, <2>1 DEF InData
<1>4. ASSUME open = TRUE, NEW p, Prefix(p, r), NEW line \in Line, line.is = "status"
      PROVE  InData(got, p \o <<line>>, FALSE, a)
  <2>1. \A l : Awaits(r, open, l) => Awaits(p \o <<line>>, FALSE, l)
    BY <1>4, AwaitsCut
  <2>2. QED
    BY <1>4, <2>1 DEF InData
<1>5. ASSUME open = TRUE, NEW s \in Seq(Line) PROVE InData(got, r \o s, TRUE, a)
  <2>1. \A l : Awaits(r, open, l) => Awaits(r \o s, TRUE, l)
    BY <1>5, AwaitsJoin
  <2>2. QED
    BY <1>5, <2>1 DEF InData
<1>6. InData(got, r, FALSE, a)
  BY <1>1 DEF InData
<1>7. QED
  BY <1>3, <1>4, <1>5, <1>6

LEMMA OneLineScript ==
  ASSUME NEW line \in Line, Complete(line), NEW open
  PROVE  Script(<<line>>, open)
<1>1. Len(<<line>>) = 1 /\ DOMAIN <<line>> = {1} /\ <<line>>[1] = line
  OBVIOUS
<1>2. QED
  BY <1>1 DEF Script

LEMMA TwoLineScript ==
  ASSUME NEW k \in Line, NEW l \in Line, Complete(k), Complete(l), l.is = "status", NEW open
  PROVE  Script(<<k, l>>, open)
<1> DEFINE r == <<k, l>>
<1>1. Len(r) = 2 /\ DOMAIN r = {1, 2} /\ r[1] = k /\ r[2] = l
  OBVIOUS
<1> HIDE DEF r
<1>2. \A i, j \in DOMAIN r : j = i + 1 => i = 1 /\ j = 2
  BY <1>1
<1>3. Script(r, open)
  BY <1>1, <1>2 DEF Script, Follows
<1>4. QED
  BY <1>3 DEF r

\* The answers to any number of BODY commands for one article.
LEMMA AnswerScript ==
  ASSUME NEW a \in Article, NEW n \in Nat
  PROVE  /\ Script(Repeated(Answer(a), n), TRUE)
         /\ Repeated(Answer(a), n) # <<>> => Repeated(Answer(a), n)[1].is = "status"
<1> DEFINE status(k) == [is |-> "status", code |-> k, of |-> a]
           s == Answer(a)
           r == Repeated(s, n)
<1>1. s = IF a \in setting.absent THEN <<status(430)>> ELSE <<status(222), DataLine(a), EndLine(a)>>
  BY DEF Answer, DataLine, EndLine
<1>2. s \in Seq(Line) /\ Len(s) \in {1, 3}
  BY AnswerLines
<1> HIDE DEF s
<1>3. /\ r \in Seq(Line) /\ Len(r) = n * Len(s)
      /\ \A i \in 1 .. n * Len(s) : r[i] = s[1 + ((i - 1) % Len(s))]
  BY <1>2, RepeatedLines
<1>4. Len(r) \in Nat /\ DOMAIN r = 1 .. Len(r) /\ (r # <<>> => Len(r) > 0)
  BY <1>3
<1> HIDE DEF r
<1>5. CASE a \in setting.absent
  <2>1. Len(s) = 1 /\ s[1] = status(430)
    BY <1>1, <1>5
  <2>2. \A i \in DOMAIN r : r[i] = status(430)
    <3>1. \A i \in 1 .. n * 1 : (i - 1) % 1 = 0
      OBVIOUS
    <3>2. QED
      BY <1>3, <1>4, <2>1, <3>1
  <2>3. status(430).is = "status" /\ Complete(status(430))
    BY DEF Complete
  <2> HIDE DEF status
  <2>4. Follows(status(430), status(430))
    BY <2>3 DEF Follows
  <2>5. \A i, j \in DOMAIN r : Follows(r[j], r[i])
    BY <2>2, <2>4
  <2>6. ASSUME r # <<>> PROVE Complete(r[Len(r)]) /\ r[1].is = "status"
    <3>1. Len(r) \in DOMAIN r /\ 1 \in DOMAIN r
      BY <1>4, <2>6
    <3>2. QED
      BY <2>2, <2>3, <3>1
  <2>7. QED
    BY <2>5, <2>6 DEF Script, r, s
<1>6. CASE a \notin setting.absent
  <2>1. Len(s) = 3 /\ s[1] = status(222) /\ s[2] = DataLine(a) /\ s[3] = EndLine(a)
    BY <1>1, <1>6
  <2>2. /\ status(222).is = "status" /\ status(222).code = 222 /\ status(222).of = a
        /\ DataLine(a).is = "data" /\ DataLine(a).of = a
        /\ EndLine(a).is = "end" /\ EndLine(a).of = a
    BY DEF DataLine, EndLine
  <2>3. Len(r) = n * 3 /\ \A i \in DOMAIN r : r[i] = s[1 + ((i - 1) % 3)]
    BY <1>3, <1>4, <2>1
  <2> HIDE DEF status
  <2>4. \A i \in DOMAIN r : (i - 1) % 3 \in {0, 1, 2}
    BY <1>4
  <2>5. \A i \in DOMAIN r : /\ (i - 1) % 3 = 0 => r[i] = status(222)
                            /\ (i - 1) % 3 = 1 => r[i] = DataLine(a)
                            /\ (i - 1) % 3 = 2 => r[i] = EndLine(a)
    BY <2>1, <2>3
  <2>6. ASSUME NEW i \in DOMAIN r, NEW j \in DOMAIN r, j = i + 1 PROVE Follows(r[j], r[i])
    <3>1. /\ (i - 1) % 3 = 0 => (j - 1) % 3 = 1
          /\ (i - 1) % 3 = 1 => (j - 1) % 3 = 2
          /\ (i - 1) % 3 = 2 => (j - 1) % 3 = 0
      <4>1. \A k \in Nat : /\ k % 3 = 0 => (k + 1) % 3 = 1
                           /\ k % 3 = 1 => (k + 1) % 3 = 2
                           /\ k % 3 = 2 => (k + 1) % 3 = 0
        OBVIOUS
      <4>2. i - 1 \in Nat /\ (i - 1) + 1 = j - 1
        BY <1>4, <2>6
      <4> HIDE DEF r, s
      <4>3. QED
        BY <4>1, <4>2
    <3>2. CASE (i - 1) % 3 = 0
      <4>1. r[i] = status(222) /\ r[j] = DataLine(a)
        BY <2>5, <3>1, <3>2
      <4>2. QED
        BY <2>2, <4>1 DEF Follows
    <3>3. CASE (i - 1) % 3 = 1
      <4>1. r[i] = DataLine(a) /\ r[j] = EndLine(a)
        BY <2>5, <3>1, <3>3
      <4>2. QED
        BY <2>2, <4>1 DEF Follows
    <3>4. CASE (i - 1) % 3 = 2
      <4>1. r[i] = EndLine(a) /\ r[j] = status(222)
        BY <2>5, <3>1, <3>4
      <4>2. QED
        BY <2>2, <4>1 DEF Follows, Complete
    <3>5. QED
      BY <2>4, <3>2, <3>3, <3>4
  <2>7. ASSUME r # <<>> PROVE Complete(r[Len(r)]) /\ r[1] = status(222)
    <3>1. Len(r) \in DOMAIN r /\ 1 \in DOMAIN r
      BY <1>4, <2>7
    <3>2. (Len(r) - 1) % 3 = 2 /\ (1 - 1) % 3 = 0
      BY <1>4, <2>3, <2>7
    <3>3. r[Len(r)] = EndLine(a) /\ r[1] = status(222)
      BY <2>5, <3>1, <3>2
    <3>4. QED
      BY <2>2, <3>3 DEF Complete
  <2>8. QED
    BY <2>2, <2>6, <2>7 DEF Script, r, s
<1>7. QED
  BY <1>5, <1>6

-----------------------------------------------------------------------------
(* Who reads.                                                              *)

LEMMA SameOrder ==
  ASSUME NEW n, NEW p, OneAtATime(n, p), NEW m, m.op = n.op, m.active = n.active,
         m.socket \in {"reset", "closed"} \/ n.socket \notin {"reset", "closed"}
  PROVE  OneAtATime(m, p)
<1>1. Busy(m) = Busy(n) /\ \A c \in Command : Reader(m, c) <=> Reader(n, c)
  BY DEF Busy, Reader
<1>2. QED
  BY <1>1 DEF OneAtATime

\* The login has the connection for itself.
LEMMA LoginOrder ==
  ASSUME NEW m, NEW p, \A d \in Article : m.op[d] = "none",
         m.op[login] \in Reading => login \in m.active
  PROVE  OneAtATime(m, p) /\ IsFiniteSet(Busy(m))
<1>1. Busy(m) \subseteq {login}
  BY DEF Busy, Command
<1>2. \A c \in Command : Reader(m, c) => c = login
  BY DEF Reader, Reading, Command
<1>3. IsFiniteSet({login})
  BY FS_Singleton
<1>4. IsFiniteSet(Busy(m))
  BY <1>1, <1>3, FS_Subset
<1>5. QED
  BY <1>1, <1>2, <1>4 DEF OneAtATime, Reader

\* When c ends the commands that are left keep their turns, or the first one
\* gets that of c.
LEMMA EndsOrder ==
  ASSUME NEW n, NEW c \in Command, FitsBut(n, c), NEW p, OneAtATime(n, p), IsFiniteSet(Busy(n)),
         \A e \in Command \ {c} : Reader(n, e) =>
           n.op[c] # "none" /\ n.socket \in {"reset", "closed"},
         n.pipeline # <<>> => n.op[c] # "none" /\ \E e \in Command : Reader(n, e),
         NEW code \in Code, NEW arrived \in Seq(Line), NEW m, Ends(m, n, c, code, arrived)
  PROVE  OneAtATime(m, p) /\ IsFiniteSet(Busy(m))
<1> DEFINE C == Ending(n, c, code)
           fatal == code \in {"DisconnectClient", "ReconnectRetry"}
<1>1. /\ Fits(m)
      /\ C \subseteq {c} \cup {d \in Article : n.op[d] = "queued"}
      /\ \A d \in Command : m.op[d] # "none" <=> n.op[d] # "none" /\ d \notin C
  BY FitsEnds
<1>2. c \in C
  BY DEF Ending
<1>3. Busy(m) \subseteq Busy(n) /\ c \notin Busy(m)
  BY <1>1, <1>2 DEF Busy
<1>4. IsFiniteSet(Busy(m))
  BY <1>3, FS_Subset
<1>5. /\ p = 1 => \A d, e \in Busy(m) : d = e
      /\ \A d, e, f \in Busy(m) : d = e \/ e = f \/ d = f
  BY <1>3 DEF OneAtATime
<1>6. m.socket \in {n.socket, "closed"}
  BY DEF Ends
<1>7. \A d \in Command : d \notin C => Ended(n, c, code)[d] = n.op[d]
  BY DEF Ended
<1>8. \A d \in Command : d \in C => Ended(n, c, code)[d] = "none"
  BY DEF Ended
<1>9. "none" \notin Reading /\ "queued" \notin Reading
  BY DEF Reading
<1> HIDE DEF C
<1>10. CASE fatal \/ n.pipeline = <<>>
  <2>1. m.op = Ended(n, c, code)
    BY <1>10 DEF Ends, fatal
  <2>2. \A d \in Command : Reader(m, d) => Reader(n, d) /\ d # c
    BY <1>2, <1>7, <1>8, <1>9, <2>1 DEF Reader
  <2>3. \A d, e \in Command : Reader(m, d) /\ Reader(m, e) => d = e
    BY <2>2 DEF OneAtATime
  <2>4. ASSUME NEW e \in Command, Reader(m, e)
        PROVE  m.socket \in {"reset", "closed"} /\ \A d \in Command \ {e} : m.op[d] \in {"none", "write"}
    <3>1. e # c /\ Reader(n, e) /\ n.op[c] # "none" /\ n.socket \in {"reset", "closed"}
      BY <2>2, <2>4
    <3>2. \A d \in Command : n.op[d] # "none" => d = c \/ d = e
      BY <1>9, <3>1 DEF OneAtATime, Busy, Reader
    <3>3. QED
      BY <1>1, <1>2, <1>6, <3>1, <3>2
  <2>5. QED
    BY <1>4, <1>5, <2>3, <2>4 DEF OneAtATime
<1>11. CASE ~ fatal /\ n.pipeline # <<>>
  <2> DEFINE h == Head(n.pipeline)
             Q == {d \in Command \ {c} : n.op[d] = "queued"}
  <2>1. m.op = [Ended(n, c, code) EXCEPT ![h] = "status"] /\ m.active = {h}
    BY <1>11 DEF Ends, fatal
  <2>2. n.pipeline \in Seq(Command) /\ Lists(n.pipeline, Q)
    BY DEF FitsBut, ClientRec
  <2>3. h \in Q
    BY <1>11, <2>2, TailLists
  <2> HIDE DEF h
  <2>4. h \in Command /\ h # c /\ n.op[h] = "queued"
    BY <2>3
  <2>5. PICK e \in Command : Reader(n, e) /\ n.op[c] # "none"
    BY <1>11
  <2>6. e = c
    <3>1. e # h
      BY <1>9, <2>4, <2>5 DEF Reader
    <3>2. c \in Busy(n) /\ e \in Busy(n) /\ h \in Busy(n)
      BY <1>9, <2>4, <2>5 DEF Busy, Reader
    <3>3. QED
      BY <2>4, <3>1, <3>2 DEF OneAtATime
  <2>7. \A d \in Command : Reader(n, d) => d = c
    BY <2>5, <2>6 DEF OneAtATime
  <2>8. \A d \in Command : Reader(m, d) => d = h
    <3> SUFFICES ASSUME NEW d \in Command, Reader(m, d), d # h PROVE FALSE
      OBVIOUS
    <3>1. m.op[d] = Ended(n, c, code)[d]
      BY <2>1 DEF Ended
    <3>2. d \notin C /\ m.op[d] = n.op[d]
      BY <1>7, <1>8, <1>9, <3>1 DEF Reader
    <3>3. QED
      BY <1>2, <2>7, <3>2 DEF Reader
  <2>9. QED
    BY <1>4, <1>5, <2>1, <2>8 DEF OneAtATime
<1>12. QED
  BY <1>10, <1>11

\* A command whose request is sent reads, or waits for its turn.
LEMMA ReadsOrder ==
  ASSUME NEW n, NEW c \in Article, FitsBut(n, c), n.op[c] = "sent",
         NEW p, OneAtATime(n, p), NEW m, Reads(m, n, c, "status")
  PROVE  OneAtATime(m, p) /\ Busy(m) = Busy(n)
<1>1. /\ c \in Command /\ n \in ClientRec /\ n.op \in [Command -> Op]
      /\ "sent" \notin Reading /\ "queued" \notin Reading
  BY DEF Command, FitsBut, ClientRec, Reading
<1> DEFINE o == IF n.active \subseteq {c} THEN "status" ELSE "queued"
<1>2. \A d \in Command : m.op[d] = IF d = c THEN o ELSE n.op[d]
  BY <1>1 DEF Reads
<1>3. o # "none"
  OBVIOUS
<1> HIDE DEF o
<1>4. Busy(m) = Busy(n)
  BY <1>2, <1>3 DEF Busy
<1>5. \A e \in Command : Reader(n, e) => e \in n.active /\ e # c
  BY <1>1 DEF OneAtATime, Reader
<1>6. CASE n.active \subseteq {c}
  <2>1. m.active = {c}
    BY <1>6 DEF Reads
  <2>2. \A e \in Command : Reader(m, e) => e = c
    BY <1>2, <1>5, <1>6 DEF Reader
  <2>3. QED
    BY <1>4, <2>1, <2>2 DEF OneAtATime
<1>7. CASE ~ (n.active \subseteq {c})
  <2>1. m.active = n.active /\ o = "queued"
    BY <1>7 DEF Reads, o
  <2>2. \A e \in Command : Reader(m, e) => Reader(n, e)
    BY <1>1, <1>2, <2>1 DEF Reader
  <2>3. QED
    BY <1>4, <1>5, <2>1, <2>2 DEF OneAtATime
<1>8. QED
  BY <1>4, <1>6, <1>7

\* There is room for one more command.
LEMMA WritesOrder ==
  ASSUME NEW n \in ClientRec, NEW c \in Command, n.op[c] = "none", IsFiniteSet(Busy(n)),
         NEW p \in {1, 2}, Cardinality(Busy(n)) < p, OneAtATime(n, p), NEW m, Writes(m, n, c)
  PROVE  OneAtATime(m, p)
<1>1. \A d \in Command : m.op[d] = IF d = c THEN "write" ELSE n.op[d]
  BY DEF Writes, ClientRec
<1>2. Busy(m) = Busy(n) \cup {c} /\ c \notin Busy(n)
  BY <1>1 DEF Busy
<1>3. \A d, e \in Busy(n) : d = e
  <2>1. Cardinality(Busy(n)) \in {0, 1}
    BY FS_CardinalityType
  <2>2. CASE Cardinality(Busy(n)) = 0
    BY <2>2, FS_EmptySet
  <2>3. CASE Cardinality(Busy(n)) = 1
    BY <2>3, FS_Singleton
  <2>4. QED
    BY <2>1, <2>2, <2>3
<1>4. p = 1 => Busy(n) = {}
  <2>1. p = 1 => Cardinality(Busy(n)) = 0
    BY FS_CardinalityType
  <2>2. QED
    BY <2>1, FS_EmptySet
<1>5. \A d \in Command : Reader(m, d) => Reader(n, d)
  BY <1>1 DEF Reader, Reading
<1>6. m.active = n.active /\ m.socket = n.socket
  BY DEF Writes
<1>7. \A d, e \in Command : Reader(m, d) /\ Reader(m, e) => d = e
  BY <1>5 DEF OneAtATime
<1>8. \A e \in Command : Reader(m, e) /\ e \notin m.active =>
        m.socket \in {"reset", "closed"} /\ \A d \in Command \ {e} : m.op[d] \in {"none", "write"}
  BY <1>1, <1>5, <1>6 DEF OneAtATime
<1>9. /\ p = 1 => \A d, e \in Busy(m) : d = e
      /\ \A d, e, f \in Busy(m) : d = e \/ e = f \/ d = f
  BY <1>2, <1>3, <1>4
<1>10. QED
  BY <1>7, <1>8, <1>9 DEF OneAtATime

\* A command goes on where it is.
LEMMA MovesOrder ==
  ASSUME NEW n, Fits(n), NEW c \in Command, NEW p, OneAtATime(n, p), NEW m,
         NEW o \in Op, m.op = [n.op EXCEPT ![c] = o], m.active = n.active,
         \/ o = "sent" /\ n.op[c] = "write" /\ n.socket \notin {"reset", "closed"}
         \/ o = "data" /\ n.op[c] \in {"status", "data"} /\ m.socket = n.socket
  PROVE  OneAtATime(m, p) /\ Busy(m) = Busy(n)
<1>1. n.op \in [Command -> Op] /\ "sent" \notin Reading /\ {"status", "data"} \subseteq Reading
  BY DEF Fits, ClientRec, Reading
<1>2. \A d \in Command : m.op[d] = IF d = c THEN o ELSE n.op[d]
  BY <1>1
<1>3. Busy(m) = Busy(n)
  BY <1>2 DEF Busy
<1>4. \A d \in Command : Reader(m, d) => Reader(n, d)
  BY <1>1, <1>2 DEF Reader
<1>5. \A e \in Command : Reader(m, e) /\ e \notin m.active =>
        m.socket \in {"reset", "closed"} /\ \A d \in Command \ {e} : m.op[d] \in {"none", "write"}
  <2> SUFFICES ASSUME NEW e \in Command, Reader(m, e), e \notin m.active
               PROVE m.socket \in {"reset", "closed"} /\ \A d \in Command \ {e} : m.op[d] \in {"none", "write"}
    OBVIOUS
  <2>1. Reader(n, e) /\ e \notin n.active
    BY <1>4
  <2>2. n.socket \in {"reset", "closed"} /\ \A d \in Command \ {e} : n.op[d] \in {"none", "write"}
    BY <2>1 DEF OneAtATime
  <2>3. o = "data" /\ n.op[c] \in {"status", "data"} /\ m.socket = n.socket
    BY <2>2
  <2>4. c = e
    BY <2>2, <2>3
  <2>5. QED
    BY <1>2, <2>2, <2>3, <2>4
<1>6. QED
  BY <1>3, <1>4, <1>5 DEF OneAtATime

-----------------------------------------------------------------------------
(* Steps that end a command.                                               *)

LEMMA EndsOps ==
  ASSUME NEW n, NEW c \in Command, FitsBut(n, c), NEW code \in Code, NEW arrived \in Seq(Line),
         NEW m, Ends(m, n, c, code, arrived)
  PROVE  /\ m.op[c] = "none"
         /\ \A d \in Command : m.op[d] \in {"none", n.op[d]} \/ (m.op[d] = "status" /\ n.op[d] = "queued")
<1>1. \A d \in Command : Ended(n, c, code)[d] \in {"none", n.op[d]}
  BY DEF Ended
<1>2. Ended(n, c, code)[c] = "none" /\ DOMAIN Ended(n, c, code) = Command
  BY DEF Ended, Ending
<1>3. CASE code \in {"DisconnectClient", "ReconnectRetry"} \/ n.pipeline = <<>>
  BY <1>1, <1>2, <1>3 DEF Ends
<1>4. CASE ~ (code \in {"DisconnectClient", "ReconnectRetry"} \/ n.pipeline = <<>>)
  <2> DEFINE h == Head(n.pipeline)
             Q == {d \in Command \ {c} : n.op[d] = "queued"}
  <2>1. m.op = [Ended(n, c, code) EXCEPT ![h] = "status"]
    BY <1>4 DEF Ends
  <2>2. n.pipeline \in Seq(Command) /\ Lists(n.pipeline, Q)
    BY DEF FitsBut, ClientRec
  <2>3. h \in Q
    BY <1>4, <2>2, TailLists
  <2> HIDE DEF h
  <2>4. h \in Command /\ h # c /\ n.op[h] = "queued"
    BY <2>3
  <2>5. QED
    BY <1>1, <1>2, <2>1, <2>4
<1>5. QED
  BY <1>3, <1>4

LEMMA EndRecords ==
  ASSUME ServiceInv, NEW n, NEW c \in Command, NEW code, End(n, c, code)
  PROVE  /\ \A a \in Article : a \notin Ending(n, c, code) => article'[a] = article[a]
         /\ \A a \in Article : a \in Ending(n, c, code) =>
              article'[a].got = article[a].got /\ article'[a].state = Outcome(n, code)
<1>1. article \in [Article -> ArticleRec]
  BY DEF ServiceInv
<1> DEFINE rec(a) == [article[a] EXCEPT !.state = Outcome(n, code)]
<1>2. article' = [a \in Article |-> IF a \in Ending(n, c, code) THEN rec(a) ELSE article[a]]
  BY DEF End
<1>3. \A a \in Article : rec(a).got = article[a].got /\ rec(a).state = Outcome(n, code)
  BY <1>1 DEF ArticleRec
<1> HIDE DEF rec
<1>4. QED
  BY <1>2, <1>3

LEMMA ArrivedPrefix ==
  ASSUME NEW n, n.response \in Seq(Line), NEW arrived \in Arrived(n)
  PROVE  Prefix(arrived, n.response)
BY ArrivedLines DEF Prefix

\* OrderInv says the same of the next state.
LEMMA OrderedNext ==
  ASSUME NEW m, client' = m, setting' = setting, Ordered(m, article')
  PROVE  OrderInv'
BY DEF OrderInv, Ordered, Orderly

LEMMA PipelineSize ==
  ASSUME ServiceInv, Orderly
  PROVE  setting.pipeline \in {1, 2}
BY DEF Orderly

LEMMA EndOrder ==
  ASSUME ServiceInv, OrderInv, NEW n, NEW c \in Article, NEW code \in Code, FitsBut(n, c),
         n.op = client.op, n.response \in Seq(Line), End(n, c, code),
         Orderly =>
           /\ OneAtATime(n, setting.pipeline)
           /\ \A e \in Command \ {c} : Reader(n, e) =>
                n.op[c] # "none" /\ n.socket \in {"reset", "closed"}
           /\ n.pipeline # <<>> => n.op[c] # "none" /\ \E e \in Command : Reader(n, e)
           /\ Script(n.response, Live(n))
           /\ \A d \in Article \ {c} : Got(n, d, article[d])
           /\ code = "OK" => article[c].got = <<DataLine(c)>>
  PROVE  OrderInv'
<1> DEFINE C == Ending(n, c, code)
<1>1. PICK arrived \in Arrived(n) : client' = OnDone(n, c, code, arrived)
  BY DEF End
<1>2. setting' = setting
  BY DEF End
<1>3. arrived \in Seq(Line) /\ Prefix(arrived, n.response) /\ c \in Command /\ n \in ClientRec
  BY ArrivedLines, ArrivedPrefix DEF Command, FitsBut
<1> DEFINE m == OnDone(n, c, code, arrived)
<1>4. Ends(m, n, c, code, arrived)
  BY <1>3, OnDoneEffect
<1> HIDE DEF m
<1>5. /\ m.op[c] = "none"
      /\ \A d \in Command : m.op[d] \in {"none", n.op[d]} \/ (m.op[d] = "status" /\ n.op[d] = "queued")
  BY <1>3, <1>4, EndsOps
<1>6. \A d \in Command : m.op[d] # "none" <=> n.op[d] # "none" /\ d \notin C
  BY <1>3, <1>4, FitsEnds
<1>7. /\ \A a \in Article : a \notin C => article'[a] = article[a]
      /\ \A a \in Article : a \in C =>
           article'[a].got = article[a].got /\ article'[a].state = Outcome(n, code)
  BY <1>3, EndRecords
<1>8. IsFiniteSet(Busy(n)) /\ IsFiniteSet(Busy(client))
  BY DEF OrderInv, Ordered, Busy
<1>9. IsFiniteSet(Busy(m))
  <2>1. Busy(m) \subseteq Busy(n)
    BY <1>6 DEF Busy
  <2>2. QED
    BY <1>8, <2>1, FS_Subset
<1>10. ASSUME Orderly PROVE OneAtATime(m, setting.pipeline)
  BY <1>3, <1>4, <1>8, <1>10, EndsOrder
<1>11. ASSUME Orderly PROVE Script(m.response, Live(m))
  <2>1. CASE code = "DisconnectClient"
    <3>1. m.response = arrived /\ Live(m) = FALSE
      BY <1>4, <2>1 DEF Ends, Live
    <3>2. QED
      BY <1>3, <1>11, <3>1, ScriptPrefix
  <2>2. CASE code # "DisconnectClient"
    BY <1>4, <1>11, <2>2 DEF Ends, Live
  <2>3. QED
    BY <2>1, <2>2
<1>12. ASSUME Orderly, NEW d \in Article PROVE Got(m, d, article'[d])
  <2>1. d \in Command
    BY DEF Command
  <2>2. CASE d = c
    <3>1. c \in C
      BY DEF Ending
    <3>2. article'[c].state = "ok" => code = "OK"
      <4> HIDE DEF C
      <4>1. Outcome(n, code) = "ok" => code = "OK"
        BY DEF Outcome, Code
      <4>2. QED
        BY <1>7, <3>1, <4>1
    <3>3. QED
      BY <1>5, <1>7, <1>12, <2>2, <3>1, <3>2 DEF Got
  <2>3. CASE d # c
    <3>1. Got(n, d, article[d])
      BY <1>12, <2>3
    <3>2. CASE d \in C
      <4>1. m.op[d] = "none"
        BY <1>6, <2>1, <3>2
      <4>2. code \in {"DisconnectClient", "ReconnectRetry"}
        BY <2>3, <3>2 DEF Ending
      <4>3. Outcome(n, code) # "ok"
        BY <4>2 DEF Outcome
      <4>4. QED
        BY <1>7, <3>2, <4>1, <4>3 DEF Got
    <3>3. CASE d \notin C
      <4>1. article'[d] = article[d]
        BY <1>7, <3>3
      <4>2. m.op[d] \in {"write", "sent", "queued", "status"} =>
              n.op[d] \in {"write", "sent", "queued", "status"}
        BY <1>5, <2>1
      <4>3. ASSUME m.op[d] = "data" PROVE InData(article[d].got, m.response, Live(m), d)
        <5>1. InData(article[d].got, n.response, Live(n), d)
          BY <1>5, <2>1, <3>1, <4>3 DEF Got
        <5>2. CASE code = "DisconnectClient"
          <6>1. m.response = arrived /\ Live(m) = FALSE
            BY <1>4, <5>2 DEF Ends, Live
          <6>2. QED
            BY <1>3, <5>1, <6>1, InDataKept
        <5>3. CASE code # "DisconnectClient"
          BY <1>4, <5>1, <5>3 DEF Ends, Live
        <5>4. QED
          BY <5>2, <5>3
      <4>4. QED
        BY <3>1, <4>1, <4>2, <4>3 DEF Got
    <3>4. QED
      BY <3>2, <3>3
  <2>4. QED
    BY <2>2, <2>3
<1>13. Ordered(m, article')
  BY <1>9, <1>10, <1>11, <1>12 DEF Ordered
<1>14. client' = m
  BY <1>1 DEF m
<1>15. QED
  BY <1>2, <1>13, <1>14, OrderedNext

\* Any step of the login.
LEMMA LoginGoesOn ==
  ASSUME ServiceInv, OrderInv, NEW m, client' = m, setting' = setting,
         \A a \in Article : article'[a] = article[a],
         \A d \in Article : m.op[d] = "none",
         m.op[login] \in Reading => login \in m.active,
         Orderly => Script(m.response, Live(m))
  PROVE  OrderInv'
<1>1. OneAtATime(m, setting.pipeline) /\ IsFiniteSet(Busy(m))
  BY LoginOrder
<1>2. ASSUME Orderly, NEW a \in Article PROVE Got(m, a, article'[a])
  BY <1>2 DEF Got, OrderInv, Ordered
<1>3. Ordered(m, article')
  BY <1>1, <1>2 DEF Ordered
<1>4. QED
  BY <1>3, OrderedNext

LEMMA EndLoginOrder ==
  ASSUME ServiceInv, OrderInv, NEW n, NEW code \in Code, FitsBut(n, login),
         n.op = client.op, n.response \in Seq(Line), End(n, login, code),
         Orderly => Script(n.response, Live(n))
  PROVE  OrderInv'
<1>1. PICK arrived \in Arrived(n) : client' = OnDone(n, login, code, arrived)
  BY DEF End
<1>2. setting' = setting
  BY DEF End
<1>3. arrived \in Seq(Line) /\ Prefix(arrived, n.response) /\ login \in Command /\ n \in ClientRec
  BY ArrivedLines, ArrivedPrefix DEF Command, FitsBut
<1> DEFINE m == OnDone(n, login, code, arrived)
<1>4. Ends(m, n, login, code, arrived)
  BY <1>3, OnDoneEffect
<1> HIDE DEF m
<1>5. \A d \in Article : n.op[d] = "none" /\ d \in Command /\ d # login
  BY ConnectionAssumption DEF FitsBut, Command
<1>6. \A d \in Article : m.op[d] = "none" /\ d \notin Ending(n, login, code)
  BY <1>3, <1>4, <1>5, FitsEnds
<1>7. m.op[login] = "none"
  BY <1>3, <1>4, EndsOps
<1>8. \A a \in Article : article'[a] = article[a]
  BY <1>3, <1>6, EndRecords
<1>9. ASSUME Orderly PROVE Script(m.response, Live(m))
  <2>1. CASE code = "DisconnectClient"
    <3>1. m.response = arrived /\ Live(m) = FALSE
      BY <1>4, <2>1 DEF Ends, Live
    <3>2. QED
      BY <1>3, <1>9, <3>1, ScriptPrefix
  <2>2. CASE code # "DisconnectClient"
    BY <1>4, <1>9, <2>2 DEF Ends, Live
  <2>3. QED
    BY <2>1, <2>2
<1>10. client' = m /\ m.op[login] \notin Reading
  BY <1>1, <1>7 DEF m, Reading
<1>11. QED
  BY <1>2, <1>6, <1>8, <1>9, <1>10, LoginGoesOn

-----------------------------------------------------------------------------
(* The actions of the login.                                               *)

LEMMA EmptyScript ==
  ASSUME NEW open
  PROVE  Script(<<>>, open)
BY DEF Script

\* Two lives of a socket, the second one not longer than the first.
LEMMA ScriptLater ==
  ASSUME NEW n, NEW m, Script(n.response, Live(n)), m.response = n.response, Live(m) => Live(n)
  PROVE  Script(m.response, Live(m))
<1>1. Live(m) \in BOOLEAN /\ Live(n) \in BOOLEAN
  BY DEF Live
<1>2. CASE Live(m) = FALSE
  BY <1>2, ScriptWeaker
<1>3. CASE Live(m) = TRUE
  <2>1. Live(n) = TRUE
    BY <1>1, <1>3
  <2>2. QED
    BY <1>3, <2>1
<1>4. QED
  BY <1>1, <1>2, <1>3

LEMMA ErrorConnectingOrder ==
  ASSUME ServiceInv, OrderInv, NEW n, FitsBut(n, login), ErrorConnecting(n),
         n.op = client.op, n.response \in Seq(Line), Orderly => Script(n.response, Live(n))
  PROVE  OrderInv'
<1>1. PICK code \in {"DisconnectClient", "ReconnectRetry"} : End(n, login, code)
  BY DEF ErrorConnecting
<1>2. code \in Code
  BY DEF Code
<1>3. QED
  BY <1>1, <1>2, EndLoginOrder

\* The login goes on; the articles' commands have not begun.
LEMMA ContinueLogin ==
  ASSUME ServiceInv, OrderInv, NEW m, Continue(m),
         \A d \in Article : m.op[d] = "none",
         m.op[login] \in Reading => login \in m.active,
         Orderly => Script(m.response, Live(m))
  PROVE  OrderInv'
<1>1. client' = m /\ setting' = setting /\ article' = article
  BY DEF Continue
<1>2. QED
  BY <1>1, LoginGoesOn

LEMMA AsyncConnectOrder ==
  ASSUME ServiceInv, OrderInv, client.op[login] \in {"resolve", "connect"},
         NEW n \in ClientRec, n.op = client.op, NEW left, Continue(AsyncConnect(n, left))
  PROVE  OrderInv'
<1> DEFINE m == AsyncConnect(n, left)
           op == [n.op EXCEPT ![login] = "connect"]
<1>1. m = [n EXCEPT !.op = op, !.active = {login}, !.socket = "connecting",
                    !.endpoints = left, !.response = <<>>]
  BY DEF AsyncConnect, ClientRec
<1>2. Fits(client) /\ login \in Command /\ n.op \in [Command -> Op]
  BY DEF ServiceInv, Command, ClientRec
<1>3. \A d \in Command : op[d] = IF d = login THEN "connect" ELSE n.op[d]
  BY <1>2
<1> HIDE DEF op, m
<1>4. m.op = op /\ m.active = {login} /\ m.response = <<>>
  BY <1>1 DEF ClientRec
<1>5. \A d \in Article : client.op[d] = "none"
  BY <1>2, LoginAlone
<1>6. \A d \in Article : m.op[d] = "none"
  BY <1>3, <1>4, <1>5, ConnectionAssumption DEF Command
<1>7. Continue(m)
  BY DEF m
<1>8. QED
  BY <1>4, <1>6, <1>7, EmptyScript, ContinueLogin

LEMMA HandleResolveOrder ==
  ASSUME ServiceInv, OrderInv, HandleResolve
  PROVE  OrderInv'
<1> DEFINE n == [client EXCEPT !.active = {}]
<1>1. client \in ClientRec /\ client.op[login] = "resolve"
  BY DEF ServiceInv, Fits, HandleResolve
<1>2. \/ \E left \in {0, 1} : Continue(AsyncConnect(n, left))
      \/ ErrorConnecting(n)
  BY DEF HandleResolve
<1>3. /\ n \in ClientRec /\ n.op = client.op /\ n.active = {} /\ n.pipeline = client.pipeline
      /\ n.writing = client.writing /\ n.socket = client.socket
      /\ n.response = client.response /\ n.response \in Seq(Line)
  BY <1>1 DEF ClientRec
<1> HIDE DEF n
<1>4. CASE \E left \in {0, 1} : Continue(AsyncConnect(n, left))
  BY <1>1, <1>3, <1>4, AsyncConnectOrder
<1>5. CASE ErrorConnecting(n)
  <2>1. FitsBut(n, login)
    BY <1>1, <1>3, LoginState
  <2>2. Orderly => Script(n.response, Live(n))
    BY <1>3 DEF OrderInv, Ordered, Live
  <2>3. QED
    BY <1>3, <1>5, <2>1, <2>2, ErrorConnectingOrder
<1>6. QED
  BY <1>2, <1>4, <1>5

LEMMA GreetingScript ==
  ASSUME NEW g \in Greeting, NEW open
  PROVE  Script(g, open)
<1>1. PICK k \in {200, 400, 502} : g = <<[is |-> "status", code |-> k, of |-> login]>>
  BY DEF Greeting
<1> DEFINE line == [is |-> "status", code |-> k, of |-> login]
<1>2. line \in Line /\ Complete(line)
  BY StatusLine DEF Command, Complete
<1> HIDE DEF line
<1>3. Script(<<line>>, open)
  BY <1>2, OneLineScript
<1>4. QED
  BY <1>1, <1>3 DEF line

\* The login goes on to read.
LEMMA LoginReads ==
  ASSUME ServiceInv, OrderInv, NEW k \in ClientRec, k.op = client.op,
         k.active \subseteq {login}, \A d \in Article : client.op[d] = "none",
         NEW what \in Reading, Continue(AsyncReadResponse(k, login, what)),
         Orderly => Script(k.response, Live(k))
  PROVE  OrderInv'
<1> DEFINE m == AsyncReadResponse(k, login, what)
<1>1. login \in Command /\ k.op \in [Command -> Op]
  BY DEF Command, ClientRec
<1>2. Reads(m, k, login, what) /\ Continue(m)
  BY <1>1, ReadResponseEffect
<1> HIDE DEF m
<1>3. m.active = {login} /\ m.response = k.response /\ m.socket = k.socket
      /\ m.op = [k.op EXCEPT ![login] = what]
  BY <1>2 DEF Reads
<1>4. \A d \in Article : m.op[d] = "none"
  BY <1>1, <1>3, ConnectionAssumption DEF Command
<1>5. Orderly => Script(m.response, Live(m))
  BY <1>3 DEF Live
<1>6. QED
  BY <1>2, <1>3, <1>4, <1>5, ContinueLogin

LEMMA HandleConnectOrder ==
  ASSUME ServiceInv, OrderInv, HandleConnect
  PROVE  OrderInv'
<1> DEFINE n == [client EXCEPT !.active = {}]
           open == [n EXCEPT !.socket = "open"]
<1>1. client \in ClientRec /\ client.op[login] = "connect" /\ login \in Command /\ Fits(client)
  <2>1. client.op[login] = "connect"
    <3> HIDE DEF n, open
    <3>1. QED
      BY Zenon DEF HandleConnect
  <2>2. QED
    BY <2>1 DEF ServiceInv, Fits, Command
<1>2. /\ n \in ClientRec /\ n.op = client.op /\ n.active = {} /\ n.pipeline = client.pipeline
      /\ n.writing = client.writing /\ n.socket = client.socket
      /\ n.response = client.response /\ n.response \in Seq(Line)
  BY <1>1 DEF ClientRec
<1>3. \/ client.socket = "connecting" /\ setting.ssl /\ Continue([open EXCEPT !.op[login] = "handshake"])
      \/ client.socket = "connecting" /\ \E g \in Greeting :
           Continue(AsyncReadResponse([open EXCEPT !.response = g], login, "greeting"))
      \/ client.endpoints > 0 /\ Continue(AsyncConnect(n, client.endpoints - 1))
      \/ ErrorConnecting([n EXCEPT !.socket = "closed"])
  BY Zenon DEF HandleConnect
<1>4. \A d \in Article : client.op[d] = "none"
  BY <1>1, LoginAlone
<1>5. Orderly => Script(n.response, Live(n))
  BY <1>2 DEF OrderInv, Ordered, Live
<1> HIDE DEF n
<1>6. CASE client.socket = "connecting" /\ setting.ssl
             /\ Continue([open EXCEPT !.op[login] = "handshake"])
  <2> DEFINE m == [open EXCEPT !.op[login] = "handshake"]
             op == [n.op EXCEPT ![login] = "handshake"]
  <2>1. m = [n EXCEPT !.socket = "open", !.op = op]
    BY <1>2 DEF ClientRec
  <2>2. n.op \in [Command -> Op]
    BY <1>2 DEF ClientRec
  <2>3. \A d \in Command : op[d] = IF d = login THEN "handshake" ELSE n.op[d]
    BY <2>2
  <2> HIDE DEF m, op, open
  <2>4. m.op = op /\ m.socket = "open" /\ m.response = n.response
    BY <1>2, <2>1 DEF ClientRec
  <2>5. \A d \in Article : m.op[d] = "none"
    BY <1>2, <1>4, <2>3, <2>4, ConnectionAssumption DEF Command
  <2>6. m.op[login] \notin Reading
    BY <1>1, <2>3, <2>4 DEF Reading
  <2>7. Orderly => Script(m.response, Live(m))
    BY <1>2, <1>5, <1>6, <2>4, ScriptLater DEF Live
  <2>8. Continue(m)
    BY <1>6 DEF m
  <2>9. QED
    BY <2>5, <2>6, <2>7, <2>8, ContinueLogin
<1>7. CASE client.socket = "connecting" /\ \E g \in Greeting :
             Continue(AsyncReadResponse([open EXCEPT !.response = g], login, "greeting"))
  <2>1. PICK g \in Greeting : Continue(AsyncReadResponse([open EXCEPT !.response = g], login, "greeting"))
    BY <1>7, Zenon
  <2> DEFINE k == [open EXCEPT !.response = g]
  <2>2. g \in Seq(Line) /\ Script(g, TRUE)
    BY GreetingLines, GreetingScript
  <2>3. k = [n EXCEPT !.socket = "open", !.response = g]
    BY <1>2 DEF ClientRec
  <2> HIDE DEF k, open
  <2>4. k \in ClientRec /\ k.op = n.op /\ k.active = {} /\ k.response = g /\ k.socket = "open"
    BY <1>2, <2>2, <2>3 DEF ClientRec
  <2>5. "greeting" \in Reading /\ Script(k.response, Live(k))
    BY <2>2, <2>4 DEF Reading, Live
  <2>6. QED
    BY <1>2, <1>4, <2>1, <2>4, <2>5, LoginReads DEF k
<1>8. CASE client.endpoints > 0 /\ Continue(AsyncConnect(n, client.endpoints - 1))
  BY <1>1, <1>2, <1>8, AsyncConnectOrder
<1>9. CASE ErrorConnecting([n EXCEPT !.socket = "closed"])
  <2> DEFINE k == [n EXCEPT !.socket = "closed"]
  <2>1. /\ k \in ClientRec /\ k.op = n.op /\ k.active = {} /\ k.pipeline = n.pipeline
        /\ k.writing = n.writing /\ k.response = n.response /\ k.socket = "closed"
    BY <1>2 DEF ClientRec
  <2> HIDE DEF k
  <2>2. FitsBut(k, login)
    BY <1>1, <1>2, <2>1, LoginState
  <2>3. Orderly => Script(k.response, Live(k))
    BY <1>5, <2>1, ScriptLater DEF Live
  <2>4. ErrorConnecting(k)
    BY <1>9 DEF k
  <2>5. QED
    BY <1>2, <2>1, <2>2, <2>3, <2>4, ErrorConnectingOrder
<1>10. QED
  BY <1>3, <1>6, <1>7, <1>8, <1>9, Zenon

LEMMA HandleAsyncHandshakeOrder ==
  ASSUME ServiceInv, OrderInv, HandleAsyncHandshake
  PROVE  OrderInv'
<1>1. client \in ClientRec /\ client.op[login] = "handshake" /\ Fits(client)
      /\ client.response \in Seq(Line)
  BY DEF ServiceInv, Fits, HandleAsyncHandshake, ClientRec
<1>2. client.active \subseteq {login} /\ \A d \in Article : client.op[d] = "none"
  BY <1>1, LoginAlone
<1>3. CASE client.socket = "open" /\ \E g \in Greeting :
             Continue(AsyncReadResponse([client EXCEPT !.response = g], login, "greeting"))
  <2>1. PICK g \in Greeting : Continue(AsyncReadResponse([client EXCEPT !.response = g], login, "greeting"))
    BY <1>3
  <2> DEFINE k == [client EXCEPT !.response = g]
  <2>2. g \in Seq(Line)
    BY GreetingLines
  <2>3. k \in ClientRec /\ k.op = client.op /\ k.active = client.active /\ k.response = g
    BY <1>1, <2>2 DEF ClientRec
  <2> HIDE DEF k
  <2>4. "greeting" \in Reading /\ Script(k.response, Live(k))
    BY <2>3, GreetingScript DEF Reading
  <2>5. QED
    BY <1>2, <2>1, <2>3, <2>4, LoginReads DEF k
<1>4. CASE ErrorConnecting(client)
  <2>1. FitsBut(client, login)
    BY <1>1, <1>2, LoginState
  <2>2. QED
    BY <1>1, <1>4, <2>1, ErrorConnectingOrder DEF OrderInv, Ordered
<1>5. QED
  BY <1>3, <1>4 DEF HandleAsyncHandshake

LEMMA ConsumedScript ==
  ASSUME ServiceInv, OrderInv, Orderly, client.response # <<>>, NEW n,
         n.response = Tail(client.response), n.socket = client.socket
  PROVE  Script(n.response, Live(n))
<1>1. client.response \in Seq(Line) /\ Script(client.response, Live(client))
  BY ClientTypes DEF OrderInv, Ordered
<1>2. Live(n) = Live(client)
  BY DEF Live
<1>3. QED
  BY <1>1, <1>2, ScriptTail

LEMMA ReadLoginLineOrder ==
  ASSUME ServiceInv, OrderInv, ReadLoginLine
  PROVE  OrderInv'
<1> DEFINE code == Status(Head(client.response))
           step == client.op[login]
<1>1. client.response # <<>> /\ step \in Reading
  BY DEF ReadLoginLine, Receives
<1>2. \/ step = "greeting" /\ Continue(AsyncWriteRequest(Consumed, login))
      \/ step = "user" /\ Continue(AsyncReadResponse(Consumed, login, "pass"))
      \/ \E how \in {"OK", "ReconnectRetry", "Error", "DisconnectClient"} : End(Consumed, login, how)
  BY DEF ReadLoginLine
<1> HIDE DEF code
<1> DEFINE n == Consumed
<1>3. /\ Fits(n) /\ n \in ClientRec /\ n.op = client.op /\ n.active = client.active
      /\ n.socket = client.socket /\ n.response = Tail(client.response)
      /\ n.response \in Seq(Line)
  BY <1>1, ConsumedState
<1> HIDE DEF n
<1>4. Fits(client) /\ login \in Command /\ login \notin Article
  BY ConnectionAssumption DEF ServiceInv, Command
<1>5. step \notin {"none", "resolve", "connect", "handshake", "write", "sent", "queued"}
  BY <1>1, <1>4, ReadingOps
<1>6. n.active \subseteq {login} /\ \A d \in Article : client.op[d] = "none"
  BY <1>3, <1>4, <1>5, LoginAlone
<1>7. FitsBut(n, login)
  BY <1>3, <1>4, <1>5, ReaderAside
<1>8. Orderly => Script(n.response, Live(n))
  BY <1>1, <1>3, ConsumedScript
<1>9. CASE Continue(AsyncWriteRequest(n, login))
  <2> DEFINE m == AsyncWriteRequest(n, login)
  <2>1. Writes(m, n, login) /\ Continue(m)
    BY <1>3, <1>4, <1>9, WriteRequestEffect
  <2> HIDE DEF m
  <2>2. m.op = [n.op EXCEPT ![login] = "write"] /\ m.response = n.response /\ m.socket = n.socket
    BY <2>1 DEF Writes
  <2>3. n.op \in [Command -> Op]
    BY <1>3 DEF ClientRec
  <2>4. m.op[login] \notin Reading
    BY <1>4, <2>2, <2>3 DEF Reading
  <2>5. \A d \in Article : m.op[d] = "none"
    BY <1>3, <1>4, <1>6, <2>2, <2>3 DEF Command
  <2>6. Orderly => Script(m.response, Live(m))
    BY <1>8, <2>2 DEF Live
  <2>7. QED
    BY <2>1, <2>4, <2>5, <2>6, ContinueLogin
<1>10. CASE Continue(AsyncReadResponse(n, login, "pass"))
  <2>1. "pass" \in Reading
    BY DEF Reading
  <2>2. QED
    BY <1>3, <1>6, <1>8, <1>10, <2>1, LoginReads
<1>11. CASE \E how \in {"OK", "ReconnectRetry", "Error", "DisconnectClient"} : End(n, login, how)
  <2>1. PICK how \in {"OK", "ReconnectRetry", "Error", "DisconnectClient"} : End(n, login, how)
    BY <1>11
  <2>2. how \in Code
    BY <2>1 DEF Code
  <2>3. QED
    BY <1>3, <1>7, <1>8, <2>1, <2>2, EndLoginOrder
<1>12. QED
  BY <1>2, <1>9, <1>10, <1>11, Zenon DEF n

LEMMA LoginReadFailsOrder ==
  ASSUME ServiceInv, OrderInv, LoginReadFails
  PROVE  OrderInv'
<1> DEFINE n == CancelTimeout(client)
<1>1. client.op[login] \in Reading /\ ErrorConnecting(n)
  BY DEF LoginReadFails, ReadFails
<1>2. Quiet(n, client) /\ Fits(n) /\ n.response \in Seq(Line)
  BY CancelTimeoutState
<1> HIDE DEF n
<1>3. Fits(client) /\ login \in Command
  BY DEF ServiceInv, Command
<1>4. client.op[login] \notin {"none", "resolve", "connect", "handshake", "write", "sent", "queued"}
  BY <1>1, <1>3, ReadingOps
<1>5. n.op[login] \notin {"none", "write", "sent", "queued"}
  BY <1>2, <1>4 DEF Quiet
<1>6. FitsBut(n, login)
  BY <1>2, <1>3, <1>5, ReaderAside
<1>7. n.op = client.op /\ n.response = client.response /\ Live(n) = Live(client)
  BY <1>2 DEF Quiet, Live
<1>8. Orderly => Script(n.response, Live(n))
  BY <1>7 DEF OrderInv, Ordered
<1>9. QED
  BY <1>1, <1>2, <1>6, <1>7, <1>8, ErrorConnectingOrder

\* How m comes from n when the request of c is sent with its answers.
Sends(m, n, c, answers) ==
  /\ m.op = [n.op EXCEPT ![c] = "sent"] /\ m.active = n.active
  /\ n.op[c] = "write" /\ n.socket \in {"open", "eof"}
  /\ IF n.socket = "open"
     THEN m.socket = "open" /\ m.response = n.response \o answers
     ELSE m.socket = "reset" /\ m.response = n.response

LEMMA SentEffect ==
  ASSUME ServiceInv, NEW c \in Command, Writable(c), NEW answers \in Seq(Line)
  PROVE  Sends(Sent(c, answers), client, c, answers)
<1> DEFINE m == Sent(c, answers)
           op == [client.op EXCEPT ![c] = "sent"]
           response == client.response \o answers
<1>1. client \in ClientRec
  BY ClientTypes
<1>2. client.op[c] = "write" /\ client.socket \in {"open", "eof"}
  BY DEF Writable
<1>3. m = IF client.socket = "open" THEN [client EXCEPT !.op = op, !.response = response]
          ELSE [client EXCEPT !.op = op, !.socket = "reset"]
  BY <1>1 DEF Sent, ClientRec
<1> HIDE DEF m, op, response
<1>4. CASE client.socket = "open"
  <2>1. m.op = op /\ m.active = client.active /\ m.socket = client.socket /\ m.response = response
    BY <1>1, <1>3, <1>4 DEF ClientRec
  <2>2. QED
    BY <1>2, <1>4, <2>1 DEF Sends, op, response, m
<1>5. CASE client.socket # "open"
  <2>1. m.op = op /\ m.active = client.active /\ m.socket = "reset" /\ m.response = client.response
    BY <1>1, <1>3, <1>5 DEF ClientRec
  <2>2. QED
    BY <1>2, <1>5, <2>1 DEF Sends, op, response, m
<1>6. QED
  BY <1>4, <1>5

LEMMA SentScript ==
  ASSUME ServiceInv, OrderInv, Orderly, NEW c, NEW answers \in Seq(Line), Script(answers, TRUE),
         answers # <<>> => answers[1].is = "status",
         NEW m, Sends(m, client, c, answers)
  PROVE  Script(m.response, Live(m))
<1>1. client.response \in Seq(Line) /\ Script(client.response, Live(client))
  BY ClientTypes DEF OrderInv, Ordered
<1>2. CASE client.socket = "open"
  <2>1. Live(client) = TRUE /\ Live(m) = TRUE /\ m.response = client.response \o answers
    BY <1>2 DEF Sends, Live
  <2>2. QED
    BY <1>1, <2>1, ScriptJoin
<1>3. CASE client.socket # "open"
  <2>1. Live(m) = FALSE /\ m.response = client.response
    BY <1>3 DEF Sends, Live
  <2>2. QED
    BY <1>1, <2>1, ScriptWeaker
<1>4. QED
  BY <1>2, <1>3

LEMMA LoginAnswerScript ==
  ASSUME NEW answers \in LoginAnswers
  PROVE  Script(answers, TRUE) /\ (answers # <<>> => answers[1].is = "status")
<1> DEFINE status(k) == [is |-> "status", code |-> k, of |-> login]
           continue == status(381)
           granted == status(281)
           refused == status(502)
           bad == status(400)
           Final == {granted, refused, bad, continue}
<1>1. \A l \in Final : l \in Line /\ Complete(l) /\ l.is = "status"
  BY StatusLine DEF Command, Complete
<1>2. answers \in {<<continue, granted>>, <<continue, refused>>, <<bad>>, <<refused>>}
  BY DEF LoginAnswers
<1> HIDE DEF continue, granted, refused, bad
<1>3. ASSUME NEW k \in Final, NEW l \in Final
      PROVE  /\ Script(<<k, l>>, TRUE) /\ <<k, l>>[1].is = "status"
             /\ Script(<<k>>, TRUE) /\ <<k>>[1].is = "status"
  <2>1. k \in Line /\ l \in Line /\ Complete(k) /\ Complete(l) /\ k.is = "status" /\ l.is = "status"
    BY <1>1
  <2> HIDE DEF Final
  <2>2. Script(<<k, l>>, TRUE) /\ Script(<<k>>, TRUE)
    BY <2>1, TwoLineScript, OneLineScript
  <2>3. QED
    BY <2>1, <2>2
<1>4. continue \in Final /\ granted \in Final /\ refused \in Final /\ bad \in Final
  OBVIOUS
<1> HIDE DEF Final
<1>5. CASE answers = <<continue, granted>>
  BY <1>3, <1>4, <1>5
<1>6. CASE answers = <<continue, refused>>
  BY <1>3, <1>4, <1>6
<1>7. CASE answers = <<bad>>
  BY <1>3, <1>4, <1>7
<1>8. CASE answers = <<refused>>
  BY <1>3, <1>4, <1>8
<1>9. QED
  BY <1>2, <1>5, <1>6, <1>7, <1>8

LEMMA WriteLoginOrder ==
  ASSUME ServiceInv, OrderInv, WriteLogin
  PROVE  OrderInv'
<1>1. PICK answers \in LoginAnswers : Continue(Sent(login, answers))
  BY DEF WriteLogin
<1>2. Writable(login) /\ login \in Command /\ answers \in Seq(Line)
  BY LoginAnswerLines DEF WriteLogin, Command
<1> DEFINE m == Sent(login, answers)
<1>3. Sends(m, client, login, answers) /\ Continue(m)
  BY <1>1, <1>2, SentEffect
<1> HIDE DEF m
<1>4. Orderly => Script(m.response, Live(m))
  BY <1>2, <1>3, LoginAnswerScript, SentScript
<1>5. client.op \in [Command -> Op] /\ Fits(client)
  BY ClientTypes DEF ClientRec
<1>6. m.op = [client.op EXCEPT ![login] = "sent"] /\ client.op[login] = "write"
  BY <1>3 DEF Sends
<1>7. m.op[login] \notin Reading
  BY <1>2, <1>5, <1>6 DEF Reading
<1>8. \A d \in Article : m.op[d] = "none"
  BY <1>5, <1>6, ConnectionAssumption DEF Fits, Command
<1>9. QED
  BY <1>3, <1>4, <1>7, <1>8, ContinueLogin

LEMMA HandleLoginRequestOrder ==
  ASSUME ServiceInv, OrderInv, HandleLoginRequest
  PROVE  OrderInv'
<1> DEFINE n == AfterWrite
<1>1. WriteEnds(login) /\ (Continue(AsyncReadResponse(n, login, "user")) \/ ErrorConnecting(n))
  BY DEF HandleLoginRequest, WriteFails
<1>2. /\ FitsBut(n, login) /\ login \in Command /\ client.op[login] \in {"write", "sent"}
      /\ n \in ClientRec /\ n.op = client.op /\ n.active = client.active
      /\ n.socket = client.socket /\ n.response \in Seq(Line) /\ n.response = client.response
  BY <1>1, AfterWriteState
<1> HIDE DEF n
<1>3. Orderly => Script(n.response, Live(n))
  BY <1>2 DEF OrderInv, Ordered, Live
<1>4. \A d \in Article : client.op[d] = "none"
  BY <1>2 DEF FitsBut
<1>5. n.active \subseteq {login}
  <2>1. Fits(client) /\ client.active \subseteq Command
    BY ClientTypes DEF ClientRec
  <2>2. \A d \in client.active : d = login
    BY <1>4, <2>1 DEF Fits, Command
  <2>3. QED
    BY <1>2, <2>2
<1>6. CASE Continue(AsyncReadResponse(n, login, "user"))
  <2>1. "user" \in Reading
    BY DEF Reading
  <2>2. QED
    BY <1>2, <1>3, <1>4, <1>5, <1>6, <2>1, LoginReads
<1>7. CASE ErrorConnecting(n)
  BY <1>2, <1>3, <1>7, ErrorConnectingOrder
<1>8. QED
  BY <1>1, <1>6, <1>7

-----------------------------------------------------------------------------
(* The actions of an article.                                              *)

\* What an article got, when it goes on as before.
LEMMA GotSame ==
  ASSUME NEW n, NEW m, NEW a \in Article, NEW rec, NEW new, Got(n, a, rec),
         new.got = rec.got, new.state = rec.state, m.op[a] = n.op[a],
         n.op[a] = "data" => InData(rec.got, m.response, Live(m), a)
  PROVE  Got(m, a, new)
BY DEF Got

LEMMA RunGrouplessOrder ==
  ASSUME ServiceInv, OrderInv, NEW a \in Article, RunGroupless(a)
  PROVE  OrderInv'
<1>1. /\ FitsBut(client, a) /\ HasCapacity(client) /\ a \in setting.groupless
      /\ End(client, a, "RetryOther")
  BY RunAside DEF RunGroupless
<1>2. client \in ClientRec /\ Fits(client) /\ client.response \in Seq(Line) /\ "RetryOther" \in Code
  BY ClientTypes DEF Code
<1>3. ASSUME Orderly PROVE Busy(client) = {}
  <2>1. setting.pipeline = 1 /\ IsFiniteSet(Busy(client))
    BY <1>1, <1>3 DEF Orderly, OrderInv, Ordered
  <2>2. Cardinality(Busy(client)) = 0
    BY <1>1, <2>1, FS_CardinalityType DEF HasCapacity
  <2>3. QED
    BY <2>1, <2>2, FS_EmptySet
<1>4. ASSUME Orderly PROVE client.pipeline = <<>> /\ \A e \in Command : ~ Reader(client, e)
  <2>1. \A e \in Command : client.op[e] = "none"
    BY <1>3, <1>4 DEF Busy
  <2>2. {d \in Command : client.op[d] = "queued"} = {}
    BY <2>1
  <2>3. client.pipeline \in Seq(Command) /\ Lists(client.pipeline, {d \in Command : client.op[d] = "queued"})
    BY <1>2 DEF Fits, ClientRec
  <2>4. client.pipeline = <<>>
    BY <2>2, <2>3, EmptyLists
  <2>5. QED
    BY <2>1, <2>4 DEF Reader, Reading
<1>5. Orderly =>
        /\ OneAtATime(client, setting.pipeline) /\ Script(client.response, Live(client))
        /\ \A d \in Article : Got(client, d, article[d])
  BY DEF OrderInv, Ordered
<1>6. QED
  BY <1>1, <1>2, <1>4, <1>5, EndOrder

LEMMA RunOrder ==
  ASSUME ServiceInv, OrderInv, NEW a \in Article, Run(a)
  PROVE  OrderInv'
<1> DEFINE m == AsyncWriteRequest(client, a)
           r == [state |-> "running", request |-> article[a].request + 1, got |-> <<>>]
<1>1. /\ HasCapacity(client) /\ client.op[a] = "none" /\ client' = m /\ setting' = setting
      /\ article' = [article EXCEPT ![a] = r]
  BY RunAside DEF Run
<1>2. /\ a \in Command /\ client \in ClientRec /\ article \in [Article -> ArticleRec]
      /\ client.op \in [Command -> Op]
  BY ArticleUsed DEF ClientRec
<1>3. Writes(m, client, a)
  BY <1>2, WriteRequestEffect
<1>4. r.state = "running" /\ r.got = <<>>
  OBVIOUS
<1> HIDE DEF m, r
<1>5. \A d \in Article : article'[d] = IF d = a THEN r ELSE article[d]
  BY <1>1, <1>2
<1>6. m.op = [client.op EXCEPT ![a] = "write"] /\ m.response = client.response /\ Live(m) = Live(client)
  BY <1>3 DEF Writes, Live
<1>7. \A d \in Command : m.op[d] = IF d = a THEN "write" ELSE client.op[d]
  BY <1>2, <1>6
<1>8. IsFiniteSet(Busy(client))
  BY DEF OrderInv, Ordered
<1>9. IsFiniteSet(Busy(m))
  <2>1. Busy(m) = Busy(client) \cup {a}
    BY <1>2, <1>7 DEF Busy
  <2>2. QED
    BY <1>8, <2>1, FS_AddElement
<1>10. ASSUME Orderly PROVE OneAtATime(m, setting.pipeline)
  <2>1. setting.pipeline \in {1, 2} /\ OneAtATime(client, setting.pipeline)
    BY <1>10, PipelineSize DEF OrderInv, Ordered
  <2>2. Cardinality(Busy(client)) < setting.pipeline
    BY <1>1 DEF HasCapacity
  <2>3. QED
    BY <1>1, <1>2, <1>3, <1>8, <2>1, <2>2, WritesOrder
<1>11. ASSUME Orderly PROVE Script(m.response, Live(m))
  BY <1>6, <1>11 DEF OrderInv, Ordered
<1>12. ASSUME Orderly, NEW d \in Article PROVE Got(m, d, article'[d])
  <2>1. d \in Command /\ Got(client, d, article[d])
    BY <1>12 DEF Command, OrderInv, Ordered
  <2>2. CASE d = a
    BY <1>4, <1>5, <1>7, <2>1, <2>2 DEF Got
  <2>3. CASE d # a
    BY <1>5, <1>6, <1>7, <2>1, <2>3 DEF Got
  <2>4. QED
    BY <2>2, <2>3
<1>13. Ordered(m, article')
  BY <1>9, <1>10, <1>11, <1>12 DEF Ordered
<1>14. QED
  BY <1>1, <1>13, OrderedNext

LEMMA WriteBodyOrder ==
  ASSUME ServiceInv, OrderInv, NEW a \in Article, WriteBody(a)
  PROVE  OrderInv'
<1> DEFINE answers == Repeated(Answer(a), article[a].request)
           m == Sent(a, answers)
<1>1. Writable(a) /\ client' = m /\ setting' = setting /\ article' = article
  BY DEF WriteBody
<1>2. /\ a \in Command /\ article[a].request \in Nat /\ Fits(client)
      /\ client.op \in [Command -> Op]
  BY ArticleUsed DEF ClientRec
<1>3. /\ answers \in Seq(Line) /\ Script(answers, TRUE)
      /\ answers # <<>> => answers[1].is = "status"
  BY <1>2, AnswerLines, RepeatedLines, AnswerScript
<1> HIDE DEF answers
<1>4. Sends(m, client, a, answers)
  BY <1>1, <1>2, <1>3, SentEffect
<1> HIDE DEF m
<1>5. /\ m.op = [client.op EXCEPT ![a] = "sent"] /\ m.active = client.active
      /\ client.op[a] = "write" /\ client.socket \in {"open", "eof"}
  BY <1>4 DEF Sends
<1>6. \A d \in Command : m.op[d] = IF d = a THEN "sent" ELSE client.op[d]
  BY <1>2, <1>5
<1>7. "sent" \in Op
  BY DEF Op
<1>8. Busy(m) = Busy(client)
  BY <1>5, <1>6 DEF Busy
<1>9. ASSUME Orderly PROVE OneAtATime(m, setting.pipeline)
  BY <1>2, <1>5, <1>7, <1>9, MovesOrder DEF OrderInv, Ordered
<1>10. ASSUME Orderly PROVE Script(m.response, Live(m))
  BY <1>3, <1>4, <1>10, SentScript
<1>11. ASSUME Orderly, NEW d \in Article PROVE Got(m, d, article'[d])
  <2>1. d \in Command /\ Got(client, d, article[d]) /\ client.response \in Seq(Line)
    BY <1>11, ClientTypes DEF Command, OrderInv, Ordered
  <2>2. CASE d = a
    <3>1. m.op[a] = "sent" /\ article[a].got = <<>>
      BY <1>2, <1>5, <1>6, <2>1, <2>2 DEF Got
    <3>2. QED
      BY <1>1, <2>1, <2>2, <3>1 DEF Got
  <2>3. CASE d # a
    <3>1. m.op[d] = client.op[d]
      BY <1>6, <2>1, <2>3
    <3>2. ASSUME client.op[d] = "data" PROVE InData(article[d].got, m.response, Live(m), d)
      <4>1. InData(article[d].got, client.response, Live(client), d)
        BY <2>1, <3>2 DEF Got
      <4>2. CASE client.socket = "open"
        <5>1. Live(client) = TRUE /\ Live(m) = TRUE /\ m.response = client.response \o answers
          BY <1>4, <4>2 DEF Sends, Live
        <5>2. QED
          BY <1>3, <2>1, <4>1, <5>1, InDataKept
      <4>3. CASE client.socket # "open"
        <5>1. Live(m) = FALSE /\ m.response = client.response
          BY <1>4, <4>3 DEF Sends, Live
        <5>2. QED
          BY <2>1, <4>1, <5>1, InDataKept
      <4>4. QED
        BY <4>2, <4>3
    <3>3. QED
      BY <1>1, <2>1, <3>1, <3>2, GotSame
  <2>4. QED
    BY <2>2, <2>3
<1>12. Ordered(m, article')
  BY <1>8, <1>9, <1>10, <1>11 DEF Ordered, OrderInv
<1>13. QED
  BY <1>1, <1>12, OrderedNext

\* An error ends a command that reads, or whose write failed.
LEMMA HandleErrorOrder ==
  ASSUME ServiceInv, OrderInv, NEW a \in Article, NEW n, FitsBut(n, a), HandleError(n, a),
         n.op = client.op, n.active = client.active, n.pipeline = client.pipeline,
         n.socket = client.socket, n.response = client.response,
         Reader(client, a) \/ (client.op[a] = "write" /\ client.socket \in {"reset", "closed"})
  PROVE  OrderInv'
<1>1. PICK code \in {"ReconnectRetry", "DisconnectClient", "Error"} : End(n, a, code)
  BY DEF HandleError
<1>2. code \in Code /\ code # "OK" /\ client.op[a] # "none" /\ a \in Command
  BY <1>1, ArticleUsed DEF Code, Reader, Reading
<1>3. n.response \in Seq(Line) /\ client \in ClientRec /\ Fits(client) /\ Live(n) = Live(client)
  BY ClientTypes DEF Live
<1>4. ASSUME n.pipeline # <<>> PROVE \E e \in Command : Reader(n, e)
  <2>1. PICK e \in client.active : TRUE
    BY <1>3, <1>4 DEF Fits
  <2>2. e \in Command /\ client.op[login] = "none"
    BY <1>2, <1>3, <2>1 DEF Fits, ClientRec
  <2>3. client.op[e] \in {"status", "data"}
    BY <1>3, <2>1, <2>2 DEF Fits, Command
  <2>4. QED
    BY <2>2, <2>3 DEF Reader, Reading
<1>5. ASSUME Orderly
      PROVE  /\ OneAtATime(n, setting.pipeline) /\ Script(n.response, Live(n))
             /\ \A d \in Article : Got(n, d, article[d])
             /\ \A e \in Command \ {a} : Reader(n, e) => n.socket \in {"reset", "closed"}
  <2>1. /\ OneAtATime(client, setting.pipeline) /\ Script(client.response, Live(client))
        /\ \A d \in Article : Got(client, d, article[d])
    BY <1>5 DEF OrderInv, Ordered
  <2>2. OneAtATime(n, setting.pipeline)
    BY <2>1, SameOrder
  <2>3. \A d \in Article : Got(n, d, article[d])
    BY <1>3, <2>1 DEF Got
  <2>4. \A e \in Command \ {a} : Reader(n, e) => n.socket \in {"reset", "closed"}
    BY <1>2, <2>1 DEF OneAtATime, Reader
  <2>5. QED
    BY <1>3, <2>1, <2>2, <2>3, <2>4
<1>6. QED
  BY <1>1, <1>2, <1>3, <1>4, <1>5, EndOrder

LEMMA HandleBodyResponseOrder ==
  ASSUME ServiceInv, OrderInv, NEW a \in Article, HandleBodyResponse(a)
  PROVE  OrderInv'
<1> DEFINE n == AfterWrite
<1>1. a \in Command /\ article \in [Article -> ArticleRec]
  BY ArticleUsed
<1>2. WriteEnds(a)
  BY DEF HandleBodyResponse, WriteFails
<1>3. /\ FitsBut(n, a) /\ n \in ClientRec /\ n.op = client.op /\ n.active = client.active
      /\ n.pipeline = client.pipeline /\ n.socket = client.socket
      /\ n.response = client.response /\ n.response \in Seq(Line)
  BY <1>2, AfterWriteState
<1>4. \/ /\ client.op[a] = "sent" /\ client' = AsyncReadResponse(n, a, "status")
         /\ article' = [article EXCEPT ![a].request = 0] /\ setting' = setting
      \/ /\ client.op[a] = "write" /\ client.socket \in {"reset", "closed"}
         /\ HandleError(n, a)
  BY DEF HandleBodyResponse, WriteFails
<1> HIDE DEF n
<1>5. CASE /\ client.op[a] = "write" /\ client.socket \in {"reset", "closed"}
           /\ HandleError(n, a)
  BY <1>3, <1>5, HandleErrorOrder
<1>6. CASE /\ client.op[a] = "sent" /\ client' = AsyncReadResponse(n, a, "status")
           /\ article' = [article EXCEPT ![a].request = 0] /\ setting' = setting
  <2> DEFINE m == AsyncReadResponse(n, a, "status")
  <2>1. "status" \in Reading
    BY DEF Reading
  <2>2. Reads(m, n, a, "status")
    BY <1>1, <1>3, <2>1, ReadResponseEffect
  <2>3. client' = m
    BY <1>6
  <2> HIDE DEF m
  <2>4. \A d \in Article : article'[d].got = article[d].got /\ article'[d].state = article[d].state
    BY <1>1, <1>6 DEF ArticleRec
  <2>5. Live(m) = Live(client) /\ m.response = client.response
    BY <1>3, <2>2 DEF Reads, Live
  <2>6. \A d \in Command : m.op[d] = IF d # a THEN client.op[d]
                                     ELSE IF n.active \subseteq {a} THEN "status" ELSE "queued"
    BY <1>1, <1>3, <2>2 DEF Reads, ClientRec
  <2>7. Busy(m) = Busy(client)
    BY <1>6, <2>6 DEF Busy
  <2>8. ASSUME Orderly PROVE OneAtATime(m, setting.pipeline)
    <3>1. OneAtATime(n, setting.pipeline)
      BY <1>3, <2>8, SameOrder DEF OrderInv, Ordered
    <3>2. QED
      BY <1>3, <1>6, <2>2, <3>1, ReadsOrder
  <2>9. ASSUME Orderly, NEW d \in Article PROVE Got(m, d, article'[d])
    <3>1. d \in Command /\ Got(client, d, article[d])
      BY <2>9 DEF Command, OrderInv, Ordered
    <3>2. CASE d = a
      <4>1. article[a].got = <<>> /\ m.op[a] \in {"status", "queued"}
        BY <1>1, <1>6, <2>6, <3>1, <3>2 DEF Got
      <4>2. QED
        BY <2>4, <3>1, <3>2, <4>1 DEF Got
    <3>3. CASE d # a
      BY <2>4, <2>5, <2>6, <3>1, <3>3 DEF Got
    <3>4. QED
      BY <3>2, <3>3
  <2>10. Ordered(m, article')
    BY <2>5, <2>7, <2>8, <2>9 DEF Ordered, OrderInv
  <2>11. QED
    BY <1>6, <2>3, <2>10, OrderedNext
<1>7. QED
  BY <1>4, <1>5, <1>6

\* The client that consumed a line of the one command that reads.
LEMMA ReadingOrder ==
  ASSUME ServiceInv, OrderInv, Orderly, NEW a \in Article, client.op[a] \in {"status", "data"},
         client.response # <<>>, NEW n, n.op = client.op, n.active = client.active,
         n.socket = client.socket, n.response = Tail(client.response)
  PROVE  /\ OneAtATime(n, setting.pipeline) /\ Script(n.response, Live(n))
         /\ Reader(n, a) /\ a \in Command /\ \A e \in Command : Reader(n, e) => e = a
         /\ \A d \in Article \ {a} : Got(n, d, article[d]) /\ n.op[d] # "data"
         /\ Got(client, a, article[a])
<1>1. /\ OneAtATime(client, setting.pipeline)
      /\ \A d \in Article : d \in Command /\ Got(client, d, article[d])
  BY DEF OrderInv, Ordered, Command
<1>2. OneAtATime(n, setting.pipeline)
  BY <1>1, SameOrder
<1>3. Reader(n, a)
  BY DEF Reader, Reading
<1>4. \A e \in Command : Reader(n, e) => e = a
  BY <1>1, <1>2, <1>3 DEF OneAtATime
<1>5. \A d \in Article \ {a} : n.op[d] # "data"
  BY <1>1, <1>4 DEF Reader, Reading
<1>6. \A d \in Article \ {a} : Got(n, d, article[d])
  BY <1>1, <1>5 DEF Got
<1>7. Script(n.response, Live(n))
  BY ConsumedScript
<1>8. QED
  BY <1>1, <1>2, <1>3, <1>4, <1>5, <1>6, <1>7

\* How m comes from n when a goes on to read lines of its article.
ReadsData(m, n, a) ==
  /\ m.op = [n.op EXCEPT ![a] = "data"] /\ m.active = n.active
  /\ m.socket = n.socket /\ m.response = n.response

LEMMA ReadDataEffect ==
  ASSUME NEW n \in ClientRec, NEW a \in Article
  PROVE  ReadsData(AsyncReadDataResponse(n, a), n, a)
<1> DEFINE m == AsyncReadDataResponse(n, a)
           op == [n.op EXCEPT ![a] = "data"]
<1>1. m = [n EXCEPT !.op = op, !.timer = "armed"]
  BY DEF AsyncReadDataResponse, SetTimeout, ClientRec
<1> HIDE DEF m, op
<1>2. m.op = op /\ m.active = n.active /\ m.socket = n.socket /\ m.response = n.response
  BY <1>1 DEF ClientRec
<1>3. QED
  BY <1>2 DEF ReadsData, m, op

LEMMA DataOrder ==
  ASSUME ServiceInv, OrderInv, NEW a \in Article, client.op[a] \in {"status", "data"},
         client.response # <<>>, NEW n, n = Consumed,
         NEW m, ReadsData(m, n, a), client' = m, setting' = setting,
         \A d \in Article \ {a} : article'[d] = article[d],
         article'[a].state = article[a].state,
         Orderly => InData(article'[a].got, n.response, Live(n), a)
  PROVE  OrderInv'
<1>1. /\ Fits(n) /\ n \in ClientRec /\ n.op = client.op /\ n.active = client.active
      /\ n.socket = client.socket /\ n.response = Tail(client.response)
  BY ReadingState
<1>2. /\ a \in Command /\ n.op \in [Command -> Op] /\ "data" \in Op
      /\ article[a].state = "running" <=> client.op[a] # "none"
  BY <1>1, ArticleUsed DEF ClientRec, Op, Reading
<1>3. /\ m.op = [n.op EXCEPT ![a] = "data"] /\ m.active = n.active
      /\ m.socket = n.socket /\ m.response = n.response /\ Live(m) = Live(n)
  BY DEF ReadsData, Live
<1>4. \A d \in Command : m.op[d] = IF d = a THEN "data" ELSE n.op[d]
  BY <1>2, <1>3
<1>5. Busy(m) = Busy(client)
  BY <1>1, <1>4 DEF Busy
<1>6. ASSUME Orderly
      PROVE  /\ OneAtATime(m, setting.pipeline) /\ Script(m.response, Live(m))
             /\ \A d \in Article : Got(m, d, article'[d])
  <2>1. /\ OneAtATime(n, setting.pipeline) /\ Script(n.response, Live(n))
        /\ \A d \in Article \ {a} : Got(n, d, article[d]) /\ n.op[d] # "data"
    BY <1>1, <1>6, ReadingOrder
  <2>2. OneAtATime(m, setting.pipeline)
    BY <1>1, <1>2, <1>3, <2>1, MovesOrder
  <2>3. Script(m.response, Live(m))
    BY <1>3, <2>1
  <2>4. ASSUME NEW d \in Article PROVE Got(m, d, article'[d])
    <3>1. CASE d = a
      <4>1. article'[a].state # "ok"
        BY <1>2
      <4>2. m.op[a] = "data" /\ InData(article'[a].got, m.response, Live(m), a)
        BY <1>2, <1>3, <1>4, <1>6
      <4>3. QED
        BY <3>1, <4>1, <4>2 DEF Got
    <3>2. CASE d # a
      <4>1. m.op[d] = n.op[d] /\ n.op[d] # "data" /\ Got(n, d, article[d]) /\ article'[d] = article[d]
        BY <1>4, <2>1, <3>2 DEF Command
      <4>2. QED
        BY <4>1 DEF Got
    <3>3. QED
      BY <3>1, <3>2
  <2>5. QED
    BY <2>2, <2>3, <2>4
<1>7. Ordered(m, article')
  BY <1>5, <1>6 DEF Ordered, OrderInv
<1>8. QED
  BY <1>7, OrderedNext

\* The command that reads ends.
LEMMA EndReadOrder ==
  ASSUME ServiceInv, OrderInv, NEW a \in Article, client.op[a] \in {"status", "data"},
         client.response # <<>>, NEW n, n = Consumed, NEW code \in Code, End(n, a, code),
         Orderly /\ code = "OK" => article[a].got = <<DataLine(a)>>
  PROVE  OrderInv'
<1>1. /\ FitsBut(n, a) /\ n.op = client.op /\ n.active = client.active
      /\ n.socket = client.socket /\ n.response = Tail(client.response)
      /\ n.response \in Seq(Line)
  BY ReadingState
<1>2. ASSUME Orderly
      PROVE  /\ OneAtATime(n, setting.pipeline) /\ Script(n.response, Live(n))
             /\ Reader(n, a) /\ a \in Command /\ \A e \in Command \ {a} : ~ Reader(n, e)
             /\ \A d \in Article \ {a} : Got(n, d, article[d])
  BY <1>1, <1>2, ReadingOrder
<1>3. n.op[a] # "none"
  BY <1>1
<1>4. QED
  BY <1>1, <1>2, <1>3, EndOrder

LEMMA ReadStatusOrder ==
  ASSUME ServiceInv, OrderInv, NEW a \in Article, ReadStatus(a)
  PROVE  OrderInv'
<1> DEFINE n == Consumed
           line == Head(client.response)
<1>1. client.op[a] = "status" /\ client.response # <<>>
  BY DEF ReadStatus, Receives
<1>2. \/ Expected(line, a) /\ Continue(AsyncReadDataResponse(n, a))
      \/ \E code \in {"RetryOther", "ReconnectRetry"} : End(n, a, code)
  BY DEF ReadStatus
<1>3. /\ n \in ClientRec /\ n.op = client.op /\ n.active = client.active
      /\ n.socket = client.socket /\ n.response = Tail(client.response)
      /\ client.response \in Seq(Line) /\ line \in Line
  BY <1>1, ReadingState
<1>4. CASE Expected(line, a) /\ Continue(AsyncReadDataResponse(n, a))
  <2> DEFINE m == AsyncReadDataResponse(n, a)
  <2>1. ReadsData(m, n, a)
    BY <1>3, ReadDataEffect
  <2>2. client' = m /\ setting' = setting /\ article' = article
    BY <1>4 DEF Continue
  <2>3. line.is = "status" /\ line.code = 222 /\ line.of = a
    BY <1>4 DEF Expected, Status
  <2> HIDE DEF m, n, line
  <2>4. ASSUME Orderly PROVE InData(article[a].got, n.response, Live(n), a)
    <3>1. Got(client, a, article[a]) /\ Script(client.response, Live(client)) /\ a \in Command
      BY <1>1, <1>3, <2>4, ReadingOrder DEF OrderInv, Ordered
    <3>2. article[a].got = <<>>
      BY <1>1, <3>1 DEF Got
    <3>3. Awaits(n.response, Live(client), DataLine(a))
      BY <1>1, <1>3, <2>3, <3>1, AwaitsNext DEF line
    <3>4. Live(n) = Live(client)
      BY <1>3 DEF Live
    <3>5. QED
      BY <3>2, <3>3, <3>4 DEF InData
  <2>5. QED
    BY <1>1, <2>1, <2>2, <2>4, DataOrder DEF n
<1>5. CASE \E code \in {"RetryOther", "ReconnectRetry"} : End(n, a, code)
  <2>1. PICK code \in {"RetryOther", "ReconnectRetry"} : End(n, a, code)
    BY <1>5
  <2>2. code \in Code /\ code # "OK"
    BY <2>1 DEF Code
  <2> HIDE DEF n
  <2>3. QED
    BY <1>1, <2>1, <2>2, EndReadOrder DEF n
<1>6. QED
  BY <1>2, <1>4, <1>5, Zenon

LEMMA ReadDataOrder ==
  ASSUME ServiceInv, OrderInv, NEW a \in Article, ReadData(a)
  PROVE  OrderInv'
<1> DEFINE n == Consumed
           line == Head(client.response)
           got == Append(article[a].got, line)
           r == [article[a] EXCEPT !.got = got]
<1>1. client.op[a] = "data" /\ client.response # <<>>
  BY DEF ReadData, Receives
<1>2. \/ line.is = "end" /\ End(n, a, "OK")
      \/ /\ line.is # "end" /\ client' = AsyncReadDataResponse(n, a)
         /\ article' = [article EXCEPT ![a] = r] /\ setting' = setting
  BY DEF ReadData
<1>3. /\ n \in ClientRec /\ n.op = client.op /\ n.active = client.active
      /\ n.socket = client.socket /\ n.response = Tail(client.response)
      /\ client.response \in Seq(Line) /\ line \in Line
  BY <1>1, ReadingState
<1>4. /\ article[a] \in ArticleRec /\ article[a].got \in Seq(Line)
      /\ article \in [Article -> ArticleRec]
  BY ArticleUsed
<1>5. DataLine(a).is = "data" /\ EndLine(a).is = "end"
  BY DEF DataLine, EndLine
<1> HIDE DEF n, line
<1>6. ASSUME Orderly
      PROVE  /\ Script(client.response, Live(client)) /\ Live(n) = Live(client)
             /\ \/ article[a].got = <<>> /\ line = DataLine(a)
                \/ article[a].got = <<DataLine(a)>> /\ line = EndLine(a)
                \/ Tail(client.response) = <<>> /\ ~ Live(client) /\ line.is = "status"
  <2>1. Got(client, a, article[a]) /\ Script(client.response, Live(client))
    BY <1>1, <1>3, <1>6, ReadingOrder DEF OrderInv, Ordered
  <2>2. InData(article[a].got, client.response, Live(client), a)
    BY <1>1, <2>1 DEF Got
  <2>3. Len(client.response) = 1 => Tail(client.response) = <<>>
    <3>1. ASSUME Len(client.response) = 1 PROVE Len(Tail(client.response)) = 0
      BY <1>1, <1>3, <3>1
    <3>2. Tail(client.response) \in Seq(Line)
      BY <1>1, <1>3
    <3>3. QED
      BY <3>1, <3>2, EmptySeq
  <2>4. Live(n) = Live(client)
    BY <1>3 DEF Live
  <2>5. \A l : Awaits(client.response, Live(client), l) =>
          line = l \/ (Tail(client.response) = <<>> /\ ~ Live(client) /\ line.is = "status")
    BY <1>1, <2>3 DEF Awaits, line
  <2>6. QED
    BY <1>1, <2>1, <2>2, <2>4, <2>5 DEF InData
<1>7. CASE line.is = "end" /\ End(n, a, "OK")
  <2>1. "OK" \in Code
    BY DEF Code
  <2>2. Orderly => article[a].got = <<DataLine(a)>>
    BY <1>5, <1>6, <1>7
  <2>3. QED
    BY <1>1, <1>7, <2>1, <2>2, EndReadOrder DEF n
<1>8. CASE /\ line.is # "end" /\ client' = AsyncReadDataResponse(n, a)
           /\ article' = [article EXCEPT ![a] = r] /\ setting' = setting
  <2> DEFINE m == AsyncReadDataResponse(n, a)
  <2>1. ReadsData(m, n, a)
    BY <1>3, ReadDataEffect
  <2>2. client' = m
    BY <1>8
  <2> HIDE DEF m, got
  <2>3. r.got = got /\ r.state = article[a].state
    BY <1>4 DEF ArticleRec
  <2> HIDE DEF r
  <2>4. \A d \in Article : article'[d] = IF d = a THEN r ELSE article[d]
    BY <1>4, <1>8
  <2>5. ASSUME Orderly PROVE InData(got, n.response, Live(n), a)
    <3>1. CASE article[a].got = <<>> /\ line = DataLine(a)
      <4>1. got = <<DataLine(a)>>
        BY <3>1 DEF got
      <4>2. Awaits(Tail(client.response), Live(client), EndLine(a))
        BY <1>1, <1>3, <1>6, <2>5, <3>1, AwaitsNext DEF line
      <4>3. QED
        BY <1>3, <1>6, <2>5, <4>1, <4>2 DEF InData
    <3>2. CASE Tail(client.response) = <<>> /\ ~ Live(client)
      BY <1>3, <1>6, <2>5, <3>2 DEF InData
    <3>3. QED
      BY <1>5, <1>6, <1>8, <2>5, <3>1, <3>2
  <2>6. /\ \A d \in Article \ {a} : article'[d] = article[d]
        /\ article'[a].state = article[a].state
        /\ Orderly => InData(article'[a].got, n.response, Live(n), a)
    BY <2>3, <2>4, <2>5
  <2>7. QED
    BY <1>1, <1>8, <2>1, <2>2, <2>6, DataOrder DEF n
<1>9. QED
  BY <1>2, <1>7, <1>8, Zenon

LEMMA BodyReadFailsOrder ==
  ASSUME ServiceInv, OrderInv, NEW a \in Article, BodyReadFails(a)
  PROVE  OrderInv'
<1> DEFINE n == CancelTimeout(client)
<1>1. client.op[a] \in Reading /\ HandleError(n, a)
  BY DEF BodyReadFails, ReadFails
<1>2. Quiet(n, client) /\ Fits(n)
  BY CancelTimeoutState
<1> HIDE DEF n
<1>3. Fits(client) /\ a \in Command
  BY ArticleUsed
<1>4. client.op[a] \notin {"none", "write", "sent", "queued"}
  BY <1>1, <1>3, ReadingOps
<1>5. FitsBut(n, a)
  BY <1>2, <1>3, <1>4, ReaderAside DEF Quiet
<1>6. Reader(client, a)
  BY <1>1 DEF Reader
<1>7. QED
  BY <1>1, <1>2, <1>5, <1>6, HandleErrorOrder DEF Quiet

-----------------------------------------------------------------------------
(* The timer, the dispatcher and the server.                               *)

\* The commands stay where they are; of what was sent m has all, or the first
\* part, perhaps with a last status of a server that is gone.
LEMMA StillOrder ==
  ASSUME ServiceInv, OrderInv, NEW m, client' = m, setting' = setting, article' = article,
         m.op = client.op, m.active = client.active,
         m.socket \in {"reset", "closed"} \/ client.socket \notin {"reset", "closed"}
           \/ m.socket = client.socket,
         \/ m.response = client.response /\ m.socket = client.socket
         \/ ~ Live(m) /\ Prefix(m.response, client.response)
         \/ /\ ~ Live(m) /\ client.socket = "open"
            /\ \E p : \E line \in Line : Prefix(p, client.response) /\ line.is = "status"
                                       /\ m.response = p \o <<line>>
  PROVE  OrderInv'
<1>1. client.response \in Seq(Line) /\ Busy(m) = Busy(client) /\ \A a \in Article : a \in Command
  BY ClientTypes DEF Busy, Command
<1>2. ASSUME Orderly
      PROVE  /\ OneAtATime(m, setting.pipeline) /\ Script(m.response, Live(m))
             /\ \A a \in Article : Got(m, a, article[a])
  <2>1. /\ OneAtATime(client, setting.pipeline) /\ Script(client.response, Live(client))
        /\ \A a \in Article : Got(client, a, article[a])
    BY <1>2 DEF OrderInv, Ordered
  <2>2. OneAtATime(m, setting.pipeline)
    BY <2>1, SameOrder
  <2>3. Live(m) \in BOOLEAN
    BY DEF Live
  <2>4. /\ Script(m.response, Live(m))
        /\ \A a \in Article : client.op[a] = "data" => InData(article[a].got, m.response, Live(m), a)
    <3>1. CASE m.response = client.response /\ m.socket = client.socket
      BY <2>1, <3>1 DEF Live, Got
    <3>2. CASE ~ Live(m) /\ Prefix(m.response, client.response)
      <4>1. Live(m) = FALSE
        BY <2>3, <3>2
      <4>2. Script(m.response, FALSE)
        BY <1>1, <2>1, <3>2, ScriptPrefix
      <4>3. ASSUME NEW a \in Article, client.op[a] = "data"
            PROVE  InData(article[a].got, m.response, FALSE, a)
        <5>1. InData(article[a].got, client.response, Live(client), a)
          BY <2>1, <4>3 DEF Got
        <5>2. QED
          BY <1>1, <3>2, <5>1, InDataKept
      <4>4. QED
        BY <4>1, <4>2, <4>3
    <3>3. CASE /\ ~ Live(m) /\ client.socket = "open"
               /\ \E p : \E line \in Line : Prefix(p, client.response) /\ line.is = "status"
                                          /\ m.response = p \o <<line>>
      <4>1. Live(m) = FALSE /\ Live(client) = TRUE
        BY <2>3, <3>3 DEF Live
      <4>2. PICK p : \E line \in Line : Prefix(p, client.response) /\ line.is = "status"
                                           /\ m.response = p \o <<line>>
        BY <3>3
      <4>3. PICK line \in Line : Prefix(p, client.response) /\ line.is = "status"
                                   /\ m.response = p \o <<line>>
        BY <4>2
      <4>4. Script(m.response, FALSE)
        BY <1>1, <2>1, <4>1, <4>3, ScriptCut
      <4>5. ASSUME NEW a \in Article, client.op[a] = "data"
            PROVE  InData(article[a].got, m.response, FALSE, a)
        <5>1. InData(article[a].got, client.response, Live(client), a)
          BY <2>1, <4>5 DEF Got
        <5>2. QED
          BY <1>1, <4>1, <4>3, <5>1, InDataKept
      <4>6. QED
        BY <4>1, <4>4, <4>5
    <3>4. QED
      BY <3>1, <3>2, <3>3
  <2>5. \A a \in Article : Got(m, a, article[a])
    BY <2>1, <2>4 DEF Got
  <2>6. QED
    BY <2>2, <2>4, <2>5
<1>3. Ordered(m, article')
  BY <1>1, <1>2 DEF Ordered, OrderInv
<1>4. QED
  BY <1>3, OrderedNext

LEMMA TimerExpiresOrder ==
  ASSUME ServiceInv, OrderInv, TimerExpires
  PROVE  OrderInv'
<1> DEFINE m == [client EXCEPT !.timer = "expired"]
<1>1. client' = m /\ setting' = setting /\ article' = article
  BY DEF TimerExpires, Continue
<1>2. /\ m.op = client.op /\ m.active = client.active /\ m.socket = client.socket
      /\ m.response = client.response
  BY ClientTypes DEF ClientRec
<1> HIDE DEF m
<1>3. QED
  BY <1>1, <1>2, StillOrder

LEMMA TimerFiresOrder ==
  ASSUME ServiceInv, OrderInv, TimerFires
  PROVE  OrderInv'
<1> DEFINE n == [client EXCEPT !.timer = "off"]
           k == [n EXCEPT !.timedOut = TRUE]
<1>1. \/ Continue(n)
      \/ \E arrived \in Arrived(n) : Continue(Disconnect(k, arrived))
  BY DEF TimerFires
<1>2. /\ n \in ClientRec /\ n.op = client.op /\ n.active = client.active /\ n.socket = client.socket
      /\ n.response = client.response
  BY ClientTypes DEF ClientRec
<1> HIDE DEF n
<1>3. CASE Continue(n)
  BY <1>2, <1>3, StillOrder DEF Continue
<1>4. CASE \E arrived \in Arrived(n) : Continue(Disconnect(k, arrived))
  <2>1. PICK arrived \in Arrived(n) : Continue(Disconnect(k, arrived))
    BY <1>4, Zenon
  <2>2. arrived \in Seq(Line) /\ Prefix(arrived, client.response)
    BY <1>2, ArrivedLines, ArrivedPrefix, ClientTypes
  <2>3. k \in ClientRec /\ k.op = n.op /\ k.active = n.active
    BY <1>2 DEF ClientRec
  <2> HIDE DEF k
  <2> DEFINE m == Disconnect(k, arrived)
  <2>4. Closes(m, k, arrived)
    BY <2>2, <2>3, DisconnectEffect
  <2>5. client' = m /\ setting' = setting /\ article' = article
    BY <2>1 DEF Continue
  <2> HIDE DEF m
  <2>6. /\ m.op = client.op /\ m.active = client.active /\ m.socket = "closed"
        /\ m.response = arrived /\ ~ Live(m)
    BY <1>2, <2>3, <2>4 DEF Closes, Live
  <2>7. QED
    BY <2>2, <2>5, <2>6, StillOrder
<1>5. QED
  BY <1>1, <1>3, <1>4, Zenon

LEMMA DisconnectedOrder ==
  ASSUME ServiceInv, OrderInv, Disconnected
  PROVE  OrderInv'
<1>1. \E arrived \in Arrived(client) :
        Continue([Disconnect(client, arrived) EXCEPT !.life = "stopping"])
  BY DEF Disconnected
<1>2. PICK arrived \in Arrived(client) :
        Continue([Disconnect(client, arrived) EXCEPT !.life = "stopping"])
  BY <1>1, Zenon
<1>3. client \in ClientRec /\ arrived \in Seq(Line) /\ Prefix(arrived, client.response)
  BY ClientTypes, ArrivedLines, ArrivedPrefix
<1> DEFINE k == Disconnect(client, arrived)
           m == [k EXCEPT !.life = "stopping"]
<1>4. Closes(k, client, arrived)
  BY <1>3, DisconnectEffect
<1>5. client' = m /\ setting' = setting /\ article' = article
  BY <1>2 DEF Continue
<1> HIDE DEF k
<1>6. /\ m.op = k.op /\ m.active = k.active /\ m.socket = k.socket /\ m.response = k.response
  <2>1. k \in ClientRec
    BY <1>4 DEF Closes
  <2>2. QED
    BY <2>1 DEF ClientRec
<1> HIDE DEF m
<1>7. /\ m.op = client.op /\ m.active = client.active /\ m.socket = "closed"
      /\ m.response = arrived /\ ~ Live(m)
  BY <1>4, <1>6 DEF Closes, Live
<1>8. QED
  BY <1>3, <1>5, <1>7, StillOrder

LEMMA OnStoppedOrder ==
  ASSUME ServiceInv, OrderInv, OnStopped
  PROVE  OrderInv'
<1>1. CASE Continue([client EXCEPT !.life = "stopped"])
  <2> DEFINE m == [client EXCEPT !.life = "stopped"]
  <2>1. client' = m /\ setting' = setting /\ article' = article
    BY <1>1 DEF Continue
  <2>2. /\ m.op = client.op /\ m.active = client.active /\ m.socket = client.socket
        /\ m.response = client.response
    BY ClientTypes DEF ClientRec
  <2> HIDE DEF m
  <2>3. QED
    BY <2>1, <2>2, StillOrder
<1>2. CASE client' = NewClient /\ UNCHANGED <<setting, article>>
  <2>1. NewClient.response = <<>> /\ NewClient.op[login] \notin Reading
    BY NewClientFits DEF NewClient, Reading
  <2>2. QED
    BY <1>2, <2>1, NewClientFits, EmptyScript, LoginGoesOn
<1>3. QED
  BY <1>1, <1>2 DEF OnStopped

LEMMA ServerClosesOrder ==
  ASSUME ServiceInv, OrderInv, ServerCloses
  PROVE  OrderInv'
<1> DEFINE line == [is |-> "status", code |-> 400, of |-> login]
<1>1. PICK arrived \in Arrived(client), how \in {"eof", "reset"}, last \in {<<>>, <<line>>} :
        client' = [client EXCEPT !.socket = how, !.response = arrived \o last]
  BY Zenon DEF ServerCloses
<1>2. /\ client \in ClientRec /\ client.response \in Seq(Line)
      /\ arrived \in Seq(Line) /\ Prefix(arrived, client.response)
  BY ClientTypes, ArrivedLines, ArrivedPrefix
<1>3. client.socket = "open" /\ setting' = setting /\ article' = article
  BY DEF ServerCloses
<1>4. line \in Line /\ line.is = "status"
  BY StatusLine DEF Command
<1> HIDE DEF line
<1> DEFINE response == arrived \o last
           m == [client EXCEPT !.socket = how, !.response = response]
<1>5. client' = m
  BY <1>1
<1> HIDE DEF response
<1>6. m.op = client.op /\ m.active = client.active /\ m.socket = how /\ m.response = response
  BY <1>2 DEF ClientRec
<1> HIDE DEF m
<1>7. ~ Live(m)
  BY <1>6 DEF Live
<1>8. CASE last = <<>>
  <2>1. response = arrived
    BY <1>2, <1>8 DEF response
  <2>2. QED
    BY <1>2, <1>3, <1>5, <1>6, <1>7, <2>1, StillOrder
<1>9. CASE last = <<line>>
  <2>1. response = arrived \o <<line>>
    BY <1>9 DEF response
  <2>2. \E p : \E l \in Line : Prefix(p, client.response) /\ l.is = "status" /\ m.response = p \o <<l>>
    BY <1>2, <1>4, <1>6, <2>1
  <2>3. QED
    BY <1>3, <1>5, <1>6, <1>7, <2>2, StillOrder
<1>10. QED
  BY <1>8, <1>9

-----------------------------------------------------------------------------
(* The theorems.                                                           *)

LEMMA OrderStarts ==
  ASSUME Init
  PROVE  OrderInv
<1> DEFINE r == [state |-> "waiting", request |-> 0, got |-> <<>>]
<1>1. client = NewClient /\ article = [a \in Article |-> r]
  BY DEF Init
<1>2. NewClient.response = <<>> /\ NewClient.op[login] \notin Reading
  BY NewClientFits DEF NewClient, Reading
<1>3. OneAtATime(client, setting.pipeline) /\ IsFiniteSet(Busy(client))
  BY <1>1, <1>2, NewClientFits, LoginOrder
<1>4. Script(client.response, Live(client))
  BY <1>1, <1>2, EmptyScript
<1>5. r.state # "ok"
  OBVIOUS
<1> HIDE DEF r
<1>6. \A a \in Article : client.op[a] = "none" /\ article[a].state # "ok"
  BY <1>1, <1>5, NewClientFits
<1>7. \A a \in Article : Got(client, a, article[a])
  BY <1>6 DEF Got
<1>8. QED
  BY <1>3, <1>4, <1>7 DEF OrderInv, Ordered

LEMMA OrderSteps ==
  ASSUME ServiceInv, OrderInv, [Next]_vars
  PROVE  OrderInv'
<1>1. CASE Next
  <2>1. CASE Login
    BY <2>1, HandleResolveOrder, HandleConnectOrder, HandleAsyncHandshakeOrder,
       ReadLoginLineOrder, LoginReadFailsOrder, WriteLoginOrder, HandleLoginRequestOrder
    DEF Login
  <2>2. ASSUME NEW a \in Article, RunGroupless(a) PROVE OrderInv'
    BY <2>2, RunGrouplessOrder
  <2>3. ASSUME NEW a \in Article, Run(a) PROVE OrderInv'
    BY <2>3, RunOrder
  <2>4. ASSUME NEW a \in Article, Body(a) PROVE OrderInv'
    BY <2>4, WriteBodyOrder, HandleBodyResponseOrder, ReadStatusOrder, ReadDataOrder,
       BodyReadFailsOrder DEF Body
  <2>5. CASE TimerExpires \/ TimerFires \/ Disconnected \/ OnStopped \/ ServerCloses
    BY <2>5, TimerExpiresOrder, TimerFiresOrder, DisconnectedOrder, OnStoppedOrder,
       ServerClosesOrder
  <2>6. QED
    BY <1>1, <2>1, <2>2, <2>3, <2>4, <2>5 DEF Next
<1>2. CASE UNCHANGED vars
  BY <1>2, StillOrder DEF vars
<1>3. QED
  BY <1>1, <1>2

LEMMA OrderAlways == Spec => [](ServiceInv /\ OrderInv)
<1>1. Init => ServiceInv /\ OrderInv
  BY ServiceStarts, OrderStarts
<1>2. (ServiceInv /\ OrderInv) /\ [Next]_vars => (ServiceInv /\ OrderInv)'
  BY ServiceSteps, OrderSteps DEF KeepsService
<1>3. QED
  BY <1>1, <1>2, PTL DEF Spec

\* Where the pipeline has room for one command, or for two that all name their
\* groups, NewsClient::m_response is read by one command at a time, whatever
\* the server sends, breaks or leaves open and whenever the timer runs out.
THEOREM ReadByOne == Spec => []OneReader
<1>1. ServiceInv /\ OrderInv => OneReader
  <2> SUFFICES ASSUME ServiceInv, OrderInv, Orderly
               PROVE  Cardinality({c \in Command : client.op[c] \in Reading}) <= 1
    BY DEF OneReader
  <2> DEFINE R == {c \in Command : client.op[c] \in Reading}
  <2>1. R \subseteq Busy(client) /\ IsFiniteSet(Busy(client))
    BY DEF Busy, Reading, OrderInv, Ordered
  <2>2. \A c, d \in R : c = d
    BY DEF OrderInv, Ordered, OneAtATime, Reader
  <2> HIDE DEF R
  <2>3. CASE R = {}
    BY <2>3, FS_EmptySet DEF R
  <2>4. CASE R # {}
    <3>1. PICK c \in R : TRUE
      BY <2>4
    <3>2. R = {c}
      BY <2>2, <3>1
    <3>3. Cardinality(R) = 1
      BY <3>2, FS_Singleton
    <3>4. QED
      BY <3>3 DEF R
  <2>5. QED
    BY <2>3, <2>4
<1>2. QED
  BY <1>1, OrderAlways, PTL

\* An article that ended OK got its own lines and no others, whatever commands
\* that failed, were asked for twice or never read left on the connection.
THEOREM GetsItsArticle == Spec => []RightArticle
<1>1. ServiceInv /\ OrderInv => RightArticle
  BY DEF OrderInv, Ordered, Got, RightArticle, DataLine
<1>2. QED
  BY <1>1, OrderAlways, PTL

-----------------------------------------------------------------------------
(* Whose answer a line is.                                                 *)

\* The operations of a command whose request was sent and whose answer was not read.
Waits == {"sent", "queued", "status"}

\* b is to read its answer before c reads one.
Ahead(n, b, c) ==
  \/ n.op[b] \in Waits /\ n.op[c] = "write"
  \/ n.op[b] \in {"queued", "status"} /\ n.op[c] = "sent"
  \/ n.op[b] = "status" /\ n.op[c] = "queued"
  \/ n.op[b] = "sent" /\ n.op[c] = "sent" /\ b = Head(n.writing)

First(n, b) ==
  \A c \in Command \ {b} : n.op[c] \in {"write", "sent", "queued", "status"} => Ahead(n, b, c)

\* The client is given up or replaced, and no two commands are left to it.
Spoiled(n) == n.life # "up" /\ \A c, d \in Busy(n) : c = d

\* Somebody else is there, or may come.
Company(n, d) == n.life = "up" \/ \E e \in Busy(n) : e # d

\* The server does not have the article of b.
Refusal(l, b) == l.is = "status" /\ l.code = 430 /\ l.of = b

\* A status that answers no request for an article.
Odd(l) == l.is = "status" /\ l.code \notin {222, 430}

RefusedAt(n, absent, i, b) ==
  /\ b \in absent
  /\ \A j \in DOMAIN n.response : i = j + 1 => Complete(n.response[j])
  /\ \A j \in DOMAIN n.response : Refusal(n.response[j], b) => i = j
  /\ n.op[b] \in Waits \/ (n.op[b] = "none" /\ Spoiled(n))
  /\ i = 1 => First(n, b)

\* An article that is refused is absent, it is refused once, and its command
\* waits for that, unless it ended with the client; the refusal comes next only
\* if the command is the next to read.
Refused(n, absent) ==
  \A i \in DOMAIN n.response : \A b \in Command :
    Refusal(n.response[i], b) => RefusedAt(n, absent, i, b)

\* An article that the server announces it has.
Found(n, absent) ==
  \A i \in DOMAIN n.response :
    n.response[i].is = "status" /\ n.response[i].code = 222 => n.response[i].of \in Article \ absent

\* The answer that a command waits for is there, next only if it is the next to read.
Answered(n) ==
  n.socket = "open" =>
    \A d \in Article : n.op[d] \in Waits /\ Company(n, d) =>
      \E j \in DOMAIN n.response :
        n.response[j].is = "status" /\ n.response[j].of = d /\ (j = 1 => First(n, d))

\* After the login an odd status is the last word of the server.
OddLast(n) ==
  n.op[login] = "none" /\ (n.life = "up" \/ Busy(n) # {}) =>
    \A i \in DOMAIN n.response : Odd(n.response[i]) => i = Len(n.response) /\ ~ Live(n)

Lines(n, k) == Len(n.response) <= IF Live(n) THEN k ELSE k + 1

\* The login is told what it asks for, and no more.
LoginLines(n) ==
  /\ n.op[login] # "none" => \A i \in DOMAIN n.response : Odd(n.response[i])
  /\ n.op[login] = "write" => Lines(n, 0)
  /\ n.op[login] \in {"greeting", "pass"} => Lines(n, 1)
  /\ n.op[login] \in {"sent", "user"} => Lines(n, 2)

\* Lines of an article that nobody reads are left by a command that ended with
\* its client.
Stray(n) ==
  n.response # <<>> /\ Head(n.response).is # "status" /\ (\A a \in Article : n.op[a] # "data") =>
    Spoiled(n)

SentFirst(n) == \A c \in Command : n.op[c] = "sent" => n.op[Head(n.writing)] = "sent"

Aligned(n, absent) ==
  /\ Refused(n, absent) /\ Found(n, absent) /\ Answered(n) /\ OddLast(n) /\ LoginLines(n)
  /\ Stray(n) /\ SentFirst(n)

\* No missing article was asked for twice by one write.
Honest == Orderly /\ sentTwice \cap setting.absent = {}

AnswerInv ==
  /\ \A a \in Article : client.op[a] = "write" => article[a].request > 0
  /\ Honest =>
       /\ Aligned(client, setting.absent)
       /\ \A a \in Article :
            article[a].state = "missing" => a \in setting.absent \cup setting.groupless

LEMMA AnswerNext ==
  ASSUME AnswerInv, NEW m, client' = m, setting' = setting, sentTwice' = sentTwice,
         \A a \in Article : m.op[a] = "write" => article'[a].request > 0,
         Honest => Aligned(m, setting.absent),
         Honest => \A a \in Article : article'[a].state = "missing" =>
           article[a].state = "missing" \/ a \in setting.absent \cup setting.groupless
  PROVE  AnswerInv'
<1>1. Honest' <=> Honest
  BY DEF Honest, Orderly
<1>2. Honest => \A a \in Article :
        article'[a].state = "missing" => a \in setting.absent \cup setting.groupless
  BY DEF AnswerInv
<1>3. QED
  BY <1>1, <1>2 DEF AnswerInv

-----------------------------------------------------------------------------
(* Steps that read nothing.                                                *)

\* q is the first part of r, perhaps with an odd status that ends an open one.
Carried(q, r, open) ==
  \A i \in DOMAIN q : \/ i \in DOMAIN r /\ q[i] = r[i]
                      \/ open /\ i = Len(q) /\ Odd(q[i])

\* Who waits for an answer goes on to, in his place, or ended with the client.
KeepsPlace(m, n) ==
  \A b \in Command :
    n.op[b] \in Waits \/ (n.op[b] = "none" /\ Spoiled(n)) =>
      /\ m.op[b] \in Waits \/ (m.op[b] = "none" /\ Spoiled(m))
      /\ First(n, b) => First(m, b)

Remains(m, n) ==
  /\ Carried(m.response, n.response, Live(n))
  /\ m.response = n.response \/ ~ Live(m)
  /\ Live(m) => Live(n)
  /\ KeepsPlace(m, n)
  /\ m.socket = "open" =>
       /\ n.socket = "open" /\ m.response = n.response
       /\ \A d \in Article : m.op[d] \in Waits /\ Company(m, d) => n.op[d] \in Waits /\ Company(n, d)
  /\ m.op[login] = "none" /\ (m.life = "up" \/ Busy(m) # {}) =>
       n.op[login] = "none" /\ (n.life = "up" \/ Busy(n) # {})
  /\ m.op[login] \in {"none", n.op[login]}
  /\ Spoiled(n) => Spoiled(m)
  /\ (\E a \in Article : n.op[a] = "data") => \E a \in Article : m.op[a] = "data"
  /\ SentFirst(m)

LEMMA RefusedStays ==
  ASSUME NEW n, NEW m, NEW absent, Refused(n, absent), NEW open,
         n.response \in Seq(Line), m.response \in Seq(Line),
         Carried(m.response, n.response, open), KeepsPlace(m, n)
  PROVE  Refused(m, absent)
<1> DEFINE q == m.response
           r == n.response
<1>1. DOMAIN q = 1 .. Len(q) /\ DOMAIN r = 1 .. Len(r) /\ Len(q) \in Nat /\ Len(r) \in Nat
  OBVIOUS
<1> SUFFICES ASSUME NEW i \in DOMAIN q, NEW b \in Command, Refusal(q[i], b)
             PROVE  RefusedAt(m, absent, i, b)
  BY DEF Refused
<1>2. \A j \in DOMAIN q : Refusal(q[j], b) => j \in DOMAIN r /\ q[j] = r[j]
  BY DEF Carried, Refusal, Odd
<1>3. i \in DOMAIN r /\ q[i] = r[i] /\ RefusedAt(n, absent, i, b)
  BY <1>2 DEF Refused
<1>4. ASSUME NEW j \in DOMAIN q, i = j + 1 PROVE Complete(q[j])
  <2>1. j # Len(q)
    BY <1>1, <1>4
  <2>2. j \in DOMAIN r /\ q[j] = r[j]
    BY <2>1 DEF Carried
  <2>3. QED
    BY <1>3, <1>4, <2>2 DEF RefusedAt
<1>5. \A j \in DOMAIN q : Refusal(q[j], b) => i = j
  BY <1>2, <1>3 DEF RefusedAt
<1>6. /\ m.op[b] \in Waits \/ (m.op[b] = "none" /\ Spoiled(m))
      /\ i = 1 => First(m, b)
  BY <1>3 DEF RefusedAt, KeepsPlace
<1>7. QED
  BY <1>3, <1>4, <1>5, <1>6 DEF RefusedAt

LEMMA CarriedLength ==
  ASSUME NEW q \in Seq(Line), NEW r \in Seq(Line), NEW open, Carried(q, r, open)
  PROVE  Len(q) > Len(r) => open /\ Len(q) = Len(r) + 1
<1>1. DOMAIN q = 1 .. Len(q) /\ DOMAIN r = 1 .. Len(r) /\ Len(q) \in Nat /\ Len(r) \in Nat
  OBVIOUS
<1> SUFFICES ASSUME Len(q) > Len(r) PROVE open /\ Len(q) = Len(r) + 1
  OBVIOUS
<1>2. Len(r) + 1 \in DOMAIN q /\ Len(r) + 1 \notin DOMAIN r
  BY <1>1
<1>3. open /\ Len(r) + 1 = Len(q)
  BY <1>2 DEF Carried
<1>4. QED
  BY <1>3

LEMMA AlignedStays ==
  ASSUME NEW n, NEW m, NEW absent, Aligned(n, absent),
         n.response \in Seq(Line), m.response \in Seq(Line), Remains(m, n)
  PROVE  Aligned(m, absent)
<1> DEFINE q == m.response
           r == n.response
<1>1. DOMAIN q = 1 .. Len(q) /\ DOMAIN r = 1 .. Len(r) /\ Len(q) \in Nat /\ Len(r) \in Nat
  OBVIOUS
<1>2. Carried(q, r, Live(n)) /\ (q = r \/ ~ Live(m)) /\ (Live(m) => Live(n))
  BY DEF Remains
<1>3. Len(q) <= Len(r) \/ (Live(n) /\ Len(q) = Len(r) + 1)
  <2>1. Len(q) > Len(r) => Live(n) /\ Len(q) = Len(r) + 1
    BY <1>2, CarriedLength
  <2>2. CASE Len(q) > Len(r)
    BY <2>1, <2>2
  <2>3. CASE ~ (Len(q) > Len(r))
    BY <1>1, <2>3
  <2>4. QED
    BY <2>2, <2>3
<1>4. Refused(m, absent)
  BY <1>2, RefusedStays DEF Aligned, Remains
<1>5. Found(m, absent)
  BY <1>2 DEF Carried, Odd, Found, Aligned
<1>6. Answered(m)
  <2> SUFFICES ASSUME m.socket = "open", NEW d \in Article, m.op[d] \in Waits, Company(m, d)
               PROVE  \E j \in DOMAIN q : q[j].is = "status" /\ q[j].of = d /\ (j = 1 => First(m, d))
    BY DEF Answered
  <2>1. n.socket = "open" /\ q = r /\ n.op[d] \in Waits /\ Company(n, d) /\ d \in Command
    BY DEF Remains, Command
  <2>2. PICK j \in DOMAIN r : r[j].is = "status" /\ r[j].of = d /\ (j = 1 => First(n, d))
    BY <2>1 DEF Aligned, Answered
  <2>3. j = 1 => First(m, d)
    BY <2>1, <2>2 DEF Remains, KeepsPlace
  <2>4. QED
    BY <2>1, <2>2, <2>3
<1>7. OddLast(m)
  <2> SUFFICES ASSUME m.op[login] = "none", m.life = "up" \/ Busy(m) # {},
                      NEW i \in DOMAIN q, Odd(q[i])
               PROVE  i = Len(q) /\ ~ Live(m)
    BY DEF OddLast
  <2>1. \A k \in DOMAIN r : Odd(r[k]) => k = Len(r) /\ ~ Live(n)
    BY DEF Remains, Aligned, OddLast
  <2>2. CASE i \in DOMAIN r /\ q[i] = r[i]
    BY <1>1, <1>2, <1>3, <2>1, <2>2
  <2>3. CASE i \notin DOMAIN r /\ Live(n) /\ i = Len(q)
    BY <1>2, <2>3
  <2>4. CASE i \in DOMAIN r /\ q[i] # r[i]
    <3>1. Live(n) /\ i = Len(q)
      BY <1>2, <2>4 DEF Carried
    <3>2. QED
      BY <1>2, <2>4, <3>1
  <2>5. QED
    BY <1>2, <2>2, <2>3, <2>4 DEF Carried
<1>8. LoginLines(m)
  <2>1. ASSUME m.op[login] # "none", NEW i \in DOMAIN q PROVE Odd(q[i])
    BY <1>2, <2>1 DEF Remains, Aligned, LoginLines, Carried
  <2>2. ASSUME NEW k \in Nat, Lines(n, k) PROVE Lines(m, k)
    <3>1. CASE q = r
      BY <1>1, <1>2, <2>2, <3>1 DEF Lines
    <3>2. CASE ~ Live(m)
      BY <1>1, <1>3, <2>2, <3>2 DEF Lines
    <3>3. QED
      BY <1>2, <3>1, <3>2
  <2>3. m.op[login] \in {"none", n.op[login]}
    BY DEF Remains
  <2>4. QED
    BY <2>1, <2>2, <2>3 DEF LoginLines, Aligned
<1>9. Stray(m)
  <2> SUFFICES ASSUME q # <<>>, Head(q).is # "status", \A a \in Article : m.op[a] # "data"
               PROVE  Spoiled(m)
    BY DEF Stray
  <2>1. 1 \in DOMAIN q /\ Head(q) = q[1]
    BY EmptySeq
  <2>2. 1 \in DOMAIN r /\ q[1] = r[1]
    BY <1>2, <2>1 DEF Carried, Odd
  <2>3. r # <<>> /\ Head(r) = r[1]
    BY <2>2
  <2>4. \A a \in Article : n.op[a] # "data"
    BY DEF Remains
  <2>5. QED
    BY <2>1, <2>2, <2>3, <2>4 DEF Aligned, Stray, Remains
<1>10. QED
  BY <1>4, <1>5, <1>6, <1>7, <1>8, <1>9 DEF Aligned, Remains

-----------------------------------------------------------------------------
(* The login.                                                              *)

\* A client on which no article's command runs.
LEMMA LoginAligned ==
  ASSUME NEW m, NEW absent, m.response \in Seq(Line), \A d \in Article : m.op[d] = "none",
         \A i \in DOMAIN m.response : Odd(m.response[i]),
         LoginLines(m), m.op[login] = "none" /\ m.life = "up" => Lines(m, 0), SentFirst(m)
  PROVE  Aligned(m, absent)
<1> DEFINE r == m.response
<1>1. DOMAIN r = 1 .. Len(r) /\ Len(r) \in Nat
  OBVIOUS
<1>2. Refused(m, absent) /\ Found(m, absent)
  BY DEF Refused, Found, Refusal, Odd
<1>3. Answered(m)
  BY DEF Answered, Waits
<1>4. OddLast(m)
  <2> SUFFICES ASSUME m.op[login] = "none", m.life = "up" \/ Busy(m) # {}, NEW i \in DOMAIN r
               PROVE  i = Len(r) /\ ~ Live(m)
    BY DEF OddLast
  <2>1. Busy(m) = {}
    BY DEF Busy, Command
  <2>2. Lines(m, 0)
    BY <2>1
  <2>3. QED
    BY <1>1, <2>2 DEF Lines
<1>5. Stray(m)
  <2>1. r # <<>> => 1 \in DOMAIN r /\ Head(r) = r[1]
    BY EmptySeq
  <2>2. QED
    BY <2>1 DEF Stray, Odd
<1>6. QED
  BY <1>2, <1>3, <1>4, <1>5 DEF Aligned

\* What is known of the lines while the login runs.
LEMMA LoginKnown ==
  ASSUME AnswerInv, Honest, client.op[login] # "none"
  PROVE  LoginLines(client) /\ \A i \in DOMAIN client.response : Odd(client.response[i])
BY DEF AnswerInv, Aligned, LoginLines

\* A step of the login.
LEMMA LoginAnswer ==
  ASSUME ServiceInv, AnswerInv, NEW m, client' = m, setting' = setting, sentTwice' = sentTwice,
         \A a \in Article : article'[a] = article[a] \/ article'[a].state # "missing",
         \A d \in Article : m.op[d] = "none", m.response \in Seq(Line),
         Honest => /\ \A i \in DOMAIN m.response : Odd(m.response[i])
                   /\ LoginLines(m) /\ SentFirst(m)
                   /\ m.op[login] = "none" /\ m.life = "up" => Lines(m, 0)
  PROVE  AnswerInv'
<1>1. Honest => Aligned(m, setting.absent)
  BY LoginAligned
<1>2. \A a \in Article : m.op[a] = "write" => article'[a].request > 0
  OBVIOUS
<1>3. Honest => \A a \in Article : article'[a].state = "missing" =>
        article[a].state = "missing" \/ a \in setting.absent \cup setting.groupless
  OBVIOUS
<1>4. QED
  BY <1>1, <1>2, <1>3, AnswerNext

\* The login ends: it has read all that it was told, or the client is given up.
LEMMA EndLoginAnswer ==
  ASSUME ServiceInv, AnswerInv, NEW n, NEW code \in Code, FitsBut(n, login),
         n.op = client.op, n.response \in Seq(Line), End(n, login, code),
         Honest => /\ \A i \in DOMAIN n.response : Odd(n.response[i])
                   /\ code \in {"ReconnectRetry", "DisconnectClient"} \/ Lines(n, 0)
  PROVE  AnswerInv'
<1>1. PICK arrived \in Arrived(n) : client' = OnDone(n, login, code, arrived)
  BY DEF End
<1>2. setting' = setting /\ sentTwice' = sentTwice
  BY DEF End
<1>3. arrived \in Seq(Line) /\ Prefix(arrived, n.response) /\ login \in Command /\ n \in ClientRec
  BY ArrivedLines, ArrivedPrefix DEF Command, FitsBut
<1> DEFINE m == OnDone(n, login, code, arrived)
<1>4. Ends(m, n, login, code, arrived)
  BY <1>3, OnDoneEffect
<1>5. client' = m
  BY <1>1
<1> HIDE DEF m
<1>6. \A d \in Article : n.op[d] = "none" /\ d \in Command /\ d # login
  BY ConnectionAssumption DEF FitsBut, Command
<1>7. \A d \in Article : m.op[d] = "none" /\ d \notin Ending(n, login, code)
  BY <1>3, <1>4, <1>6, FitsEnds
<1>8. m.op[login] = "none"
  BY <1>3, <1>4, EndsOps
<1>9. \A a \in Article : article'[a] = article[a]
  BY <1>3, <1>7, EndRecords
<1>10. m.response \in Seq(Line)
  BY <1>4 DEF Ends, ClientRec
<1>11. LoginLines(m) /\ SentFirst(m)
  BY <1>7, <1>8 DEF LoginLines, SentFirst, Command
<1>12. ASSUME Honest PROVE \A i \in DOMAIN m.response : Odd(m.response[i])
  <2>1. CASE code = "DisconnectClient"
    <3>1. m.response = arrived
      BY <1>4, <2>1 DEF Ends
    <3>2. \A i \in DOMAIN arrived : i \in DOMAIN n.response /\ arrived[i] = n.response[i]
      BY <1>3 DEF Prefix
    <3>3. QED
      BY <1>12, <3>1, <3>2
  <2>2. CASE code # "DisconnectClient"
    BY <1>4, <1>12, <2>2 DEF Ends
  <2>3. QED
    BY <2>1, <2>2
<1>13. ASSUME Honest, m.life = "up" PROVE Lines(m, 0)
  <2>1. code \notin {"ReconnectRetry", "DisconnectClient"}
    BY <1>4, <1>13 DEF Ends, Leaving
  <2>2. m.response = n.response /\ m.socket = n.socket
    BY <1>4, <2>1 DEF Ends
  <2>3. QED
    BY <1>13, <2>1, <2>2 DEF Lines, Live
<1>14. QED
  BY <1>2, <1>5, <1>7, <1>9, <1>10, <1>11, <1>12, <1>13, LoginAnswer

LEMMA ErrorConnectingAnswer ==
  ASSUME ServiceInv, AnswerInv, NEW n, FitsBut(n, login), ErrorConnecting(n),
         n.op = client.op, n.response \in Seq(Line),
         Honest => \A i \in DOMAIN n.response : Odd(n.response[i])
  PROVE  AnswerInv'
<1>1. PICK code \in {"DisconnectClient", "ReconnectRetry"} : End(n, login, code)
  BY DEF ErrorConnecting
<1>2. code \in Code
  BY DEF Code
<1>3. QED
  BY <1>1, <1>2, EndLoginAnswer

\* The login goes on.
LEMMA ContinueLoginAnswer ==
  ASSUME ServiceInv, AnswerInv, NEW m, Continue(m), \A d \in Article : m.op[d] = "none",
         m.response \in Seq(Line), m.op[login] # "none",
         Honest => LoginLines(m) /\ SentFirst(m)
  PROVE  AnswerInv'
<1>1. client' = m /\ setting' = setting /\ article' = article /\ sentTwice' = sentTwice
  BY DEF Continue
<1>2. Honest => \A i \in DOMAIN m.response : Odd(m.response[i])
  BY DEF LoginLines
<1>3. QED
  BY <1>1, <1>2, LoginAnswer

LEMMA AsyncConnectAnswer ==
  ASSUME ServiceInv, AnswerInv, client.op[login] \in {"resolve", "connect"},
         NEW n \in ClientRec, n.op = client.op, NEW left, Continue(AsyncConnect(n, left))
  PROVE  AnswerInv'
<1> DEFINE m == AsyncConnect(n, left)
           op == [n.op EXCEPT ![login] = "connect"]
<1>1. m = [n EXCEPT !.op = op, !.active = {login}, !.socket = "connecting",
                    !.endpoints = left, !.response = <<>>]
  BY DEF AsyncConnect, ClientRec
<1>2. Fits(client) /\ login \in Command /\ n.op \in [Command -> Op]
  BY DEF ServiceInv, Command, ClientRec
<1>3. \A d \in Command : op[d] = IF d = login THEN "connect" ELSE n.op[d]
  BY <1>2
<1> HIDE DEF op, m
<1>4. m.op = op /\ m.response = <<>>
  BY <1>1 DEF ClientRec
<1>5. \A d \in Article : client.op[d] = "none"
  BY <1>2, LoginAlone
<1>6. m.op[login] = "connect" /\ \A d \in Article : m.op[d] = "none"
  BY <1>2, <1>3, <1>4, <1>5, ConnectionAssumption DEF Command
<1>7. LoginLines(m) /\ SentFirst(m)
  BY <1>4, <1>6 DEF LoginLines, SentFirst, Command
<1>8. Continue(m) /\ m.response \in Seq(Line)
  BY <1>4 DEF m
<1>9. QED
  BY <1>6, <1>7, <1>8, ContinueLoginAnswer

LEMMA HandleResolveAnswer ==
  ASSUME ServiceInv, AnswerInv, HandleResolve
  PROVE  AnswerInv'
<1> DEFINE n == [client EXCEPT !.active = {}]
<1>1. client \in ClientRec /\ client.op[login] = "resolve"
  BY DEF ServiceInv, Fits, HandleResolve
<1>2. \/ \E left \in {0, 1} : Continue(AsyncConnect(n, left))
      \/ ErrorConnecting(n)
  BY DEF HandleResolve
<1>3. /\ n \in ClientRec /\ n.op = client.op /\ n.active = {} /\ n.pipeline = client.pipeline
      /\ n.writing = client.writing /\ n.response = client.response /\ n.response \in Seq(Line)
  BY <1>1 DEF ClientRec
<1> HIDE DEF n
<1>4. CASE \E left \in {0, 1} : Continue(AsyncConnect(n, left))
  BY <1>1, <1>3, <1>4, AsyncConnectAnswer
<1>5. CASE ErrorConnecting(n)
  <2>1. FitsBut(n, login)
    BY <1>1, <1>3, LoginState
  <2>2. Honest => \A i \in DOMAIN n.response : Odd(n.response[i])
    BY <1>1, <1>3, LoginKnown
  <2>3. QED
    BY <1>3, <1>5, <2>1, <2>2, ErrorConnectingAnswer
<1>6. QED
  BY <1>2, <1>4, <1>5

LEMMA GreetingOdd ==
  ASSUME NEW g \in Greeting
  PROVE  Len(g) = 1 /\ \A i \in DOMAIN g : Odd(g[i])
<1>1. PICK k \in {200, 400, 502} : g = <<[is |-> "status", code |-> k, of |-> login]>>
  BY DEF Greeting
<1> DEFINE line == [is |-> "status", code |-> k, of |-> login]
<1>2. Odd(line)
  BY DEF Odd
<1> HIDE DEF line
<1>3. g = <<line>>
  BY <1>1 DEF line
<1>4. QED
  BY <1>2, <1>3

LEMMA OneLine ==
  ASSUME NEW n, Len(n.response) = 1
  PROVE  Lines(n, 1)
BY DEF Lines

\* The login goes on to read.
LEMMA LoginReadsAnswer ==
  ASSUME ServiceInv, AnswerInv, NEW k \in ClientRec, k.op = client.op,
         \A d \in Article : client.op[d] = "none", k.active \subseteq {login},
         NEW what \in Reading, Continue(AsyncReadResponse(k, login, what)),
         Honest => /\ \A i \in DOMAIN k.response : Odd(k.response[i])
                   /\ what \in {"greeting", "pass"} => Lines(k, 1)
                   /\ what = "user" => Lines(k, 2)
  PROVE  AnswerInv'
<1> DEFINE m == AsyncReadResponse(k, login, what)
<1>1. login \in Command /\ k.op \in [Command -> Op]
  BY DEF Command, ClientRec
<1>2. Reads(m, k, login, what) /\ Continue(m)
  BY <1>1, ReadResponseEffect
<1> HIDE DEF m
<1>3. m.response = k.response /\ m.socket = k.socket /\ m.op = [k.op EXCEPT ![login] = what]
      /\ m.response \in Seq(Line)
  BY <1>2 DEF Reads, ClientRec
<1>4. m.op[login] = what /\ \A d \in Article : m.op[d] = "none"
  BY <1>1, <1>3, ConnectionAssumption DEF Command
<1>5. what \notin {"none", "write", "sent"}
  BY DEF Reading
<1>6. Honest => LoginLines(m)
  BY <1>3, <1>4, <1>5 DEF LoginLines, Lines, Live
<1>7. SentFirst(m)
  BY <1>4, <1>5 DEF SentFirst, Command
<1>8. QED
  BY <1>2, <1>3, <1>4, <1>5, <1>6, <1>7, ContinueLoginAnswer

LEMMA HandleConnectAnswer ==
  ASSUME ServiceInv, AnswerInv, HandleConnect
  PROVE  AnswerInv'
<1> DEFINE n == [client EXCEPT !.active = {}]
           open == [n EXCEPT !.socket = "open"]
<1>1. client \in ClientRec /\ client.op[login] = "connect" /\ login \in Command /\ Fits(client)
  <2>1. client.op[login] = "connect"
    <3> HIDE DEF n, open
    <3>1. QED
      BY Zenon DEF HandleConnect
  <2>2. QED
    BY <2>1 DEF ServiceInv, Fits, Command
<1>2. /\ n \in ClientRec /\ n.op = client.op /\ n.active = {} /\ n.pipeline = client.pipeline
      /\ n.writing = client.writing /\ n.response = client.response /\ n.response \in Seq(Line)
  BY <1>1 DEF ClientRec
<1>3. \/ Continue([open EXCEPT !.op[login] = "handshake"])
      \/ \E g \in Greeting : Continue(AsyncReadResponse([open EXCEPT !.response = g], login, "greeting"))
      \/ Continue(AsyncConnect(n, client.endpoints - 1))
      \/ ErrorConnecting([n EXCEPT !.socket = "closed"])
  BY Zenon DEF HandleConnect
<1>4. \A d \in Article : client.op[d] = "none"
  BY <1>1, LoginAlone
<1>5. Honest => \A i \in DOMAIN n.response : Odd(n.response[i])
  BY <1>1, <1>2, LoginKnown
<1> HIDE DEF n
<1>6. CASE Continue([open EXCEPT !.op[login] = "handshake"])
  <2> DEFINE m == [open EXCEPT !.op[login] = "handshake"]
             op == [n.op EXCEPT ![login] = "handshake"]
  <2>1. m = [n EXCEPT !.socket = "open", !.op = op]
    BY <1>2 DEF ClientRec
  <2>2. n.op \in [Command -> Op]
    BY <1>2 DEF ClientRec
  <2>3. \A d \in Command : op[d] = IF d = login THEN "handshake" ELSE n.op[d]
    BY <2>2
  <2> HIDE DEF m, op, open
  <2>4. m.op = op /\ m.response = n.response
    BY <1>2, <2>1 DEF ClientRec
  <2>5. m.op[login] = "handshake" /\ \A d \in Article : m.op[d] = "none"
    BY <1>1, <1>2, <1>4, <2>3, <2>4, ConnectionAssumption DEF Command
  <2>6. Honest => LoginLines(m)
    BY <1>5, <2>4, <2>5 DEF LoginLines
  <2>7. SentFirst(m)
    BY <2>5 DEF SentFirst, Command
  <2>8. Continue(m)
    BY <1>6 DEF m
  <2>9. QED
    BY <1>2, <2>4, <2>5, <2>6, <2>7, <2>8, ContinueLoginAnswer
<1>7. CASE \E g \in Greeting : Continue(AsyncReadResponse([open EXCEPT !.response = g], login, "greeting"))
  <2>1. PICK g \in Greeting : Continue(AsyncReadResponse([open EXCEPT !.response = g], login, "greeting"))
    BY <1>7, Zenon
  <2> DEFINE k == [open EXCEPT !.response = g]
  <2>2. g \in Seq(Line) /\ Len(g) = 1 /\ \A i \in DOMAIN g : Odd(g[i])
    BY GreetingLines, GreetingOdd
  <2>3. k = [n EXCEPT !.socket = "open", !.response = g]
    BY <1>2 DEF ClientRec
  <2> HIDE DEF k, open
  <2>4. k \in ClientRec /\ k.op = n.op /\ k.active = {} /\ k.response = g /\ k.socket = "open"
    BY <1>2, <2>2, <2>3 DEF ClientRec
  <2>5. "greeting" \in Reading /\ Lines(k, 1)
    <3>1. Len(k.response) = 1
      BY <2>2, <2>4
    <3>2. QED
      BY <3>1, OneLine DEF Reading
  <2>6. QED
    BY <1>2, <1>4, <2>1, <2>2, <2>4, <2>5, LoginReadsAnswer DEF k
<1>8. CASE Continue(AsyncConnect(n, client.endpoints - 1))
  BY <1>1, <1>2, <1>8, AsyncConnectAnswer
<1>9. CASE ErrorConnecting([n EXCEPT !.socket = "closed"])
  <2> DEFINE k == [n EXCEPT !.socket = "closed"]
  <2>1. /\ k \in ClientRec /\ k.op = n.op /\ k.active = {} /\ k.pipeline = n.pipeline
        /\ k.writing = n.writing /\ k.response = n.response
    BY <1>2 DEF ClientRec
  <2> HIDE DEF k
  <2>2. FitsBut(k, login)
    BY <1>1, <1>2, <2>1, LoginState
  <2>3. ErrorConnecting(k)
    BY <1>9 DEF k
  <2>4. QED
    BY <1>2, <1>5, <2>1, <2>2, <2>3, ErrorConnectingAnswer
<1>10. QED
  BY <1>3, <1>6, <1>7, <1>8, <1>9, Zenon

LEMMA HandleAsyncHandshakeAnswer ==
  ASSUME ServiceInv, AnswerInv, HandleAsyncHandshake
  PROVE  AnswerInv'
<1>1. client \in ClientRec /\ client.op[login] = "handshake" /\ Fits(client)
      /\ client.response \in Seq(Line)
  BY DEF ServiceInv, Fits, HandleAsyncHandshake, ClientRec
<1>2. client.active \subseteq {login} /\ \A d \in Article : client.op[d] = "none"
  BY <1>1, LoginAlone
<1>3. CASE client.socket = "open" /\ \E g \in Greeting :
             Continue(AsyncReadResponse([client EXCEPT !.response = g], login, "greeting"))
  <2>1. PICK g \in Greeting : Continue(AsyncReadResponse([client EXCEPT !.response = g], login, "greeting"))
    BY <1>3
  <2> DEFINE k == [client EXCEPT !.response = g]
  <2>2. g \in Seq(Line) /\ Len(g) = 1 /\ \A i \in DOMAIN g : Odd(g[i])
    BY GreetingLines, GreetingOdd
  <2>3. k \in ClientRec /\ k.op = client.op /\ k.active = client.active /\ k.response = g
    BY <1>1, <2>2 DEF ClientRec
  <2> HIDE DEF k
  <2>4. "greeting" \in Reading /\ Lines(k, 1)
    <3>1. Len(k.response) = 1
      BY <2>2, <2>3
    <3>2. QED
      BY <3>1, OneLine DEF Reading
  <2>5. QED
    BY <1>2, <2>1, <2>2, <2>3, <2>4, LoginReadsAnswer DEF k
<1>4. CASE ErrorConnecting(client)
  <2>1. FitsBut(client, login)
    BY <1>1, <1>2, LoginState
  <2>2. Honest => \A i \in DOMAIN client.response : Odd(client.response[i])
    BY <1>1, LoginKnown
  <2>3. QED
    BY <1>1, <1>4, <2>1, <2>2, ErrorConnectingAnswer
<1>5. QED
  BY <1>3, <1>4 DEF HandleAsyncHandshake

\* One line less.
LEMMA LinesTail ==
  ASSUME NEW n, n.response \in Seq(Line), n.response # <<>>, NEW k \in Nat, Lines(n, k + 1),
         NEW m, m.response = Tail(n.response), m.socket = n.socket
  PROVE  Lines(m, k)
<1>1. Len(n.response) \in Nat /\ Len(m.response) = Len(n.response) - 1
  BY EmptySeq
<1>2. Live(m) = Live(n)
  BY DEF Live
<1>3. QED
  BY <1>1, <1>2 DEF Lines

LEMMA TailOdd ==
  ASSUME NEW r \in Seq(Line), r # <<>>, \A i \in DOMAIN r : Odd(r[i])
  PROVE  \A i \in DOMAIN Tail(r) : Odd(Tail(r)[i])
<1>1. /\ Len(r) \in Nat /\ Len(r) > 0 /\ DOMAIN r = 1 .. Len(r)
      /\ DOMAIN Tail(r) = 1 .. Len(r) - 1
      /\ \A i \in 1 .. Len(r) - 1 : Tail(r)[i] = r[i + 1]
  BY EmptySeq
<1>2. QED
  BY <1>1

LEMMA ReadLoginLineAnswer ==
  ASSUME ServiceInv, AnswerInv, ReadLoginLine
  PROVE  AnswerInv'
<1> DEFINE code == Status(Head(client.response))
           step == client.op[login]
<1>1. client.response # <<>> /\ step \in Reading
  BY DEF ReadLoginLine, Receives
<1>2. \/ step = "greeting" /\ Continue(AsyncWriteRequest(Consumed, login))
      \/ step = "user" /\ Continue(AsyncReadResponse(Consumed, login, "pass"))
      \/ step \in {"greeting", "pass"} /\ End(Consumed, login, "OK")
      \/ step = "greeting" /\ End(Consumed, login, "Error")
      \/ \E how \in {"ReconnectRetry", "DisconnectClient"} : End(Consumed, login, how)
  BY DEF ReadLoginLine
<1> HIDE DEF code
<1> DEFINE n == Consumed
<1>3. /\ Fits(n) /\ n \in ClientRec /\ n.op = client.op /\ n.active = client.active
      /\ n.socket = client.socket /\ n.response = Tail(client.response)
      /\ n.response \in Seq(Line) /\ client.response \in Seq(Line)
  BY <1>1, ConsumedState
<1> HIDE DEF n
<1>4. Fits(client) /\ login \in Command /\ login \notin Article
  BY ConnectionAssumption DEF ServiceInv, Command
<1>5. step \notin {"none", "resolve", "connect", "handshake", "write", "sent", "queued"}
  BY <1>1, <1>4, ReadingOps
<1>6. n.active \subseteq {login} /\ \A d \in Article : client.op[d] = "none"
  BY <1>3, <1>4, <1>5, LoginAlone
<1>7. FitsBut(n, login)
  BY <1>3, <1>4, <1>5, ReaderAside
<1>8. Honest => LoginLines(client) /\ \A i \in DOMAIN client.response : Odd(client.response[i])
  BY <1>5, LoginKnown
<1>9. Honest => \A i \in DOMAIN n.response : Odd(n.response[i])
  BY <1>1, <1>3, <1>8, TailOdd
<1>10. Honest => (step \in {"greeting", "pass"} => Lines(n, 0))
  <2>1. Honest /\ step \in {"greeting", "pass"} => Lines(client, 0 + 1)
    BY <1>8 DEF LoginLines
  <2>2. QED
    BY <1>1, <1>3, <2>1, LinesTail
<1>11. Honest => (step = "user" => Lines(n, 1))
  <2>1. Honest /\ step = "user" => Lines(client, 1 + 1)
    BY <1>8 DEF LoginLines
  <2>2. QED
    BY <1>1, <1>3, <2>1, LinesTail
<1>12. CASE step = "greeting" /\ Continue(AsyncWriteRequest(n, login))
  <2> DEFINE m == AsyncWriteRequest(n, login)
  <2>1. Writes(m, n, login) /\ Continue(m)
    BY <1>3, <1>4, <1>12, WriteRequestEffect
  <2> HIDE DEF m
  <2>2. /\ m.op = [n.op EXCEPT ![login] = "write"] /\ m.response = n.response
        /\ m.socket = n.socket
    BY <2>1 DEF Writes
  <2>3. n.op \in [Command -> Op]
    BY <1>3 DEF ClientRec
  <2>4. m.op[login] = "write"
    BY <1>4, <2>2, <2>3
  <2>5. \A d \in Article : m.op[d] = "none"
    BY <1>3, <1>4, <1>6, <2>2, <2>3 DEF Command
  <2>6. Honest => LoginLines(m)
    BY <1>9, <1>10, <1>12, <2>2, <2>4 DEF LoginLines, Lines, Live
  <2>7. SentFirst(m)
    BY <2>4, <2>5 DEF SentFirst, Command
  <2>8. QED
    BY <1>3, <2>1, <2>2, <2>4, <2>5, <2>6, <2>7, ContinueLoginAnswer
<1>13. CASE step = "user" /\ Continue(AsyncReadResponse(n, login, "pass"))
  <2>1. "pass" \in Reading
    BY DEF Reading
  <2>2. QED
    BY <1>3, <1>6, <1>9, <1>11, <1>13, <2>1, LoginReadsAnswer
<1>14. CASE step \in {"greeting", "pass"} /\ \E how \in {"OK", "Error"} : End(n, login, how)
  <2>1. PICK how \in {"OK", "Error"} : End(n, login, how)
    BY <1>14
  <2>2. how \in Code
    BY <2>1 DEF Code
  <2>3. QED
    BY <1>3, <1>7, <1>9, <1>10, <1>14, <2>1, <2>2, EndLoginAnswer
<1>15. CASE \E how \in {"ReconnectRetry", "DisconnectClient"} : End(n, login, how)
  <2>1. PICK how \in {"ReconnectRetry", "DisconnectClient"} : End(n, login, how)
    BY <1>15
  <2>2. how \in Code
    BY <2>1 DEF Code
  <2>3. QED
    BY <1>3, <1>7, <1>9, <2>1, <2>2, EndLoginAnswer
<1>16. QED
  BY <1>2, <1>12, <1>13, <1>14, <1>15 DEF n

LEMMA LoginReadFailsAnswer ==
  ASSUME ServiceInv, AnswerInv, LoginReadFails
  PROVE  AnswerInv'
<1> DEFINE n == CancelTimeout(client)
<1>1. client.op[login] \in Reading /\ ErrorConnecting(n)
  BY DEF LoginReadFails, ReadFails
<1>2. Quiet(n, client) /\ Fits(n) /\ n.response \in Seq(Line)
  BY CancelTimeoutState
<1> HIDE DEF n
<1>3. Fits(client) /\ login \in Command
  BY DEF ServiceInv, Command
<1>4. client.op[login] \notin {"none", "resolve", "connect", "handshake", "write", "sent", "queued"}
  BY <1>1, <1>3, ReadingOps
<1>5. n.op = client.op /\ n.response = client.response
  BY <1>2 DEF Quiet
<1>6. FitsBut(n, login)
  BY <1>2, <1>3, <1>4, <1>5, ReaderAside
<1>7. Honest => \A i \in DOMAIN n.response : Odd(n.response[i])
  BY <1>4, <1>5, LoginKnown
<1>8. QED
  BY <1>1, <1>2, <1>5, <1>6, <1>7, ErrorConnectingAnswer

LEMMA LoginAnswersOdd ==
  ASSUME NEW answers \in LoginAnswers
  PROVE  Len(answers) \in {1, 2} /\ \A i \in DOMAIN answers : Odd(answers[i])
<1> DEFINE status(k) == [is |-> "status", code |-> k, of |-> login]
           continue == status(381)
           granted == status(281)
           refused == status(502)
           bad == status(400)
<1>1. Odd(continue) /\ Odd(granted) /\ Odd(refused) /\ Odd(bad)
  BY DEF Odd
<1>2. answers \in {<<continue, granted>>, <<continue, refused>>, <<bad>>, <<refused>>}
  BY DEF LoginAnswers
<1> HIDE DEF continue, granted, refused, bad
<1>3. QED
  BY <1>1, <1>2

\* What the request of c leaves alone.
LEMMA SentKeeps ==
  ASSUME ServiceInv, NEW c \in Command, NEW answers \in Seq(Line)
  PROVE  /\ Sent(c, answers).writing = client.writing /\ Sent(c, answers).life = client.life
         /\ Sent(c, answers).response \in Seq(Line)
<1> DEFINE m == Sent(c, answers)
           op == [client.op EXCEPT ![c] = "sent"]
           response == client.response \o answers
<1>1. client \in ClientRec /\ response \in Seq(Line)
  BY ClientTypes
<1>2. m = IF client.socket = "open" THEN [client EXCEPT !.op = op, !.response = response]
          ELSE [client EXCEPT !.op = op, !.socket = "reset"]
  BY <1>1 DEF Sent, ClientRec
<1> HIDE DEF m, op, response
<1>3. m.writing = client.writing /\ m.life = client.life /\ m.response \in Seq(Line)
  BY <1>1, <1>2 DEF ClientRec
<1>4. QED
  BY <1>3 DEF m

\* Of the writes under way the ones that were sent come first.
LEMMA SentSentFirst ==
  ASSUME ServiceInv, NEW c \in Command, Writable(c), NEW m,
         m.op = [client.op EXCEPT ![c] = "sent"], m.writing = client.writing
  PROVE  m.op[Head(m.writing)] = "sent"
<1> DEFINE w == client.writing
<1>1. client.op \in [Command -> Op] /\ w \in Seq(Command)
  BY ClientTypes DEF ClientRec
<1>2. PICK i \in DOMAIN w : c = w[i] /\ \A j \in 1 .. i - 1 : client.op[w[j]] = "sent"
  BY DEF Writable
<1>3. DOMAIN w = 1 .. Len(w) /\ Len(w) \in Nat /\ 1 \in DOMAIN w /\ Head(w) = w[1] /\ w[1] \in Command
  BY <1>1, <1>2
<1>4. CASE i = 1
  BY <1>1, <1>2, <1>3, <1>4
<1>5. CASE i # 1
  <2>1. client.op[w[1]] = "sent"
    BY <1>2, <1>3, <1>5
  <2>2. QED
    BY <1>1, <1>3, <2>1
<1>6. QED
  BY <1>4, <1>5

LEMMA JoinedOdd ==
  ASSUME NEW r \in Seq(Line), NEW s \in Seq(Line), \A i \in DOMAIN r : Odd(r[i]),
         \A i \in DOMAIN s : Odd(s[i])
  PROVE  Len(r \o s) = Len(r) + Len(s) /\ \A i \in DOMAIN (r \o s) : Odd((r \o s)[i])
OBVIOUS

LEMMA WriteLoginAnswer ==
  ASSUME ServiceInv, AnswerInv, WriteLogin
  PROVE  AnswerInv'
<1>1. PICK answers \in LoginAnswers : Continue(Sent(login, answers))
  BY DEF WriteLogin
<1>2. Writable(login) /\ login \in Command /\ answers \in Seq(Line)
  BY LoginAnswerLines DEF WriteLogin, Command
<1> DEFINE m == Sent(login, answers)
<1>3. Sends(m, client, login, answers) /\ Continue(m)
      /\ m.writing = client.writing /\ m.response \in Seq(Line)
  BY <1>1, <1>2, SentEffect, SentKeeps
<1> HIDE DEF m
<1>4. client.op \in [Command -> Op] /\ Fits(client) /\ client.response \in Seq(Line)
  BY ClientTypes DEF ClientRec
<1>5. m.op = [client.op EXCEPT ![login] = "sent"] /\ client.op[login] = "write"
  BY <1>3 DEF Sends
<1>6. m.op[login] = "sent"
  BY <1>2, <1>4, <1>5
<1>7. \A d \in Article : m.op[d] = "none"
  BY <1>4, <1>5, ConnectionAssumption DEF Fits, Command
<1>8. SentFirst(m)
  BY <1>2, <1>3, <1>5, SentSentFirst DEF SentFirst
<1>9. ASSUME Honest PROVE LoginLines(m)
  <2>1. Lines(client, 0) /\ \A i \in DOMAIN client.response : Odd(client.response[i])
    BY <1>5, <1>9, LoginKnown DEF LoginLines
  <2>2. Len(answers) \in {1, 2} /\ \A i \in DOMAIN answers : Odd(answers[i])
    BY LoginAnswersOdd
  <2>3. /\ Len(client.response \o answers) = Len(client.response) + Len(answers)
        /\ \A i \in DOMAIN (client.response \o answers) : Odd((client.response \o answers)[i])
    BY <1>2, <1>4, <2>1, <2>2, JoinedOdd
  <2>4. \A i \in DOMAIN m.response : Odd(m.response[i])
    BY <1>3, <2>1, <2>3 DEF Sends
  <2>5. Len(client.response) \in Nat
    BY <1>4
  <2>6. CASE client.socket = "open"
    <3>1. Live(client) /\ Live(m) /\ Len(m.response) = Len(client.response) + Len(answers)
      BY <1>3, <2>3, <2>6 DEF Sends, Live
    <3>2. Lines(m, 2)
      <4>1. Len(client.response) <= 0
        BY <2>1, <3>1 DEF Lines
      <4>2. Len(m.response) <= 2
        <5>1. \A i, j \in Nat : i <= 0 /\ j \in {1, 2} => i + j <= 2
          OBVIOUS
        <5>2. Len(answers) \in Nat
          BY <1>2
        <5>3. QED
          BY <2>2, <2>5, <3>1, <4>1, <5>1, <5>2
      <4>3. QED
        BY <3>1, <4>2 DEF Lines
    <3>3. QED
      BY <1>6, <2>4, <3>2 DEF LoginLines
  <2>7. CASE client.socket # "open"
    <3>1. ~ Live(m) /\ m.response = client.response
      BY <1>3, <2>7 DEF Sends, Live
    <3>2. Lines(m, 2)
      BY <2>1, <2>5, <3>1 DEF Lines
    <3>3. QED
      BY <1>6, <2>4, <3>2 DEF LoginLines
  <2>8. QED
    BY <2>6, <2>7
<1>10. QED
  BY <1>3, <1>6, <1>7, <1>8, <1>9, ContinueLoginAnswer

LEMMA HandleLoginRequestAnswer ==
  ASSUME ServiceInv, AnswerInv, HandleLoginRequest
  PROVE  AnswerInv'
<1> DEFINE n == AfterWrite
<1>1. /\ WriteEnds(login)
      /\ \/ client.op[login] = "sent" /\ Continue(AsyncReadResponse(n, login, "user"))
         \/ ErrorConnecting(n)
  BY DEF HandleLoginRequest, WriteFails
<1>2. /\ FitsBut(n, login) /\ login \in Command /\ client.op[login] \in {"write", "sent"}
      /\ n \in ClientRec /\ n.op = client.op /\ n.active = client.active
      /\ n.socket = client.socket /\ n.response \in Seq(Line) /\ n.response = client.response
  BY <1>1, AfterWriteState
<1> HIDE DEF n
<1>3. Honest => LoginLines(client) /\ \A i \in DOMAIN n.response : Odd(n.response[i])
  BY <1>2, LoginKnown
<1>4. \A d \in Article : client.op[d] = "none"
  BY <1>2 DEF FitsBut
<1>5. n.active \subseteq {login}
  <2>1. Fits(client) /\ client.active \subseteq Command
    BY ClientTypes DEF ClientRec
  <2>2. \A d \in client.active : d = login
    BY <1>4, <2>1 DEF Fits, Command
  <2>3. QED
    BY <1>2, <2>2
<1>6. CASE client.op[login] = "sent" /\ Continue(AsyncReadResponse(n, login, "user"))
  <2>1. "user" \in Reading
    BY DEF Reading
  <2>2. Honest => Lines(n, 2)
    BY <1>2, <1>3, <1>6 DEF LoginLines, Lines, Live
  <2>3. QED
    BY <1>2, <1>3, <1>4, <1>5, <1>6, <2>1, <2>2, LoginReadsAnswer
<1>7. CASE ErrorConnecting(n)
  BY <1>2, <1>3, <1>7, ErrorConnectingAnswer
<1>8. QED
  BY <1>1, <1>6, <1>7

-----------------------------------------------------------------------------
(* The timer, the dispatcher and the server.                               *)

LEMMA SamePlaces ==
  ASSUME NEW m, NEW n, m.op = n.op, m.writing = n.writing
  PROVE  Busy(m) = Busy(n) /\ \A b \in Command : First(m, b) <=> First(n, b)
<1>1. \A b, c : Ahead(m, b, c) <=> Ahead(n, b, c)
  BY DEF Ahead
<1>2. QED
  BY <1>1 DEF Busy, First

LEMMA PrefixCarried ==
  ASSUME NEW p, NEW r, Prefix(p, r), r \in Seq(Line), NEW open
  PROVE  Carried(p, r, open)
BY DEF Prefix, Carried

LEMMA CutCarried ==
  ASSUME NEW p, NEW r, Prefix(p, r), r \in Seq(Line), NEW line \in Line, Odd(line)
  PROVE  Carried(p \o <<line>>, r, TRUE) /\ p \o <<line>> \in Seq(Line)
<1> DEFINE q == p \o <<line>>
<1>1. /\ p \in Seq(Line) /\ Len(p) \in Nat /\ DOMAIN p = 1 .. Len(p)
      /\ Len(q) = Len(p) + 1 /\ DOMAIN q = 1 .. Len(p) + 1
      /\ \A i \in 1 .. Len(p) : q[i] = p[i]
      /\ q[Len(p) + 1] = line /\ q \in Seq(Line)
  BY DEF Prefix
<1> HIDE DEF q
<1>2. ASSUME NEW i \in DOMAIN q
      PROVE  (i \in DOMAIN r /\ q[i] = r[i]) \/ (i = Len(q) /\ Odd(q[i]))
  <2>1. CASE i = Len(p) + 1
    BY <1>1, <2>1
  <2>2. CASE i # Len(p) + 1
    <3>1. i \in 1 .. Len(p)
      BY <1>1, <1>2, <2>2
    <3>2. QED
      BY <1>1, <3>1 DEF Prefix
  <2>3. QED
    BY <2>1, <2>2
<1>3. Carried(q, r, TRUE)
  BY <1>2 DEF Carried
<1>4. QED
  BY <1>1, <1>3 DEF q

\* The commands stay where they are; of what was sent m has all, or the first
\* part, perhaps with a last status of a server that is gone.
LEMMA StillAnswer ==
  ASSUME ServiceInv, AnswerInv, NEW m, client' = m, setting' = setting, article' = article,
         sentTwice' = sentTwice, m.op = client.op, m.writing = client.writing,
         m.life = client.life \/ m.life # "up", m.response \in Seq(Line),
         \/ m.response = client.response /\ m.socket = client.socket
         \/ ~ Live(m) /\ Carried(m.response, client.response, Live(client))
  PROVE  AnswerInv'
<1> DEFINE n == client
<1>1. n.response \in Seq(Line) /\ Fits(n)
  BY ClientTypes
<1>2. Busy(m) = Busy(n) /\ \A b \in Command : First(m, b) <=> First(n, b)
  BY SamePlaces
<1>3. ASSUME Honest PROVE Aligned(m, setting.absent)
  <2>1. Aligned(n, setting.absent)
    BY <1>3 DEF AnswerInv
  <2>2. Carried(n.response, n.response, Live(n))
    BY DEF Carried
  <2>3. Carried(m.response, n.response, Live(n))
    BY <2>2
  <2>4. (m.response = n.response /\ m.socket = n.socket) \/ (~ Live(m) /\ m.socket # "open")
    BY DEF Live
  <2>5. (m.life = "up" => n.life = "up") /\ (Spoiled(n) => Spoiled(m))
    BY <1>2 DEF Spoiled
  <2>6. \A d : Company(m, d) => Company(n, d)
    BY <1>2, <2>5 DEF Company
  <2>7. KeepsPlace(m, n)
    BY <1>2, <2>5 DEF KeepsPlace
  <2>8. SentFirst(m)
    BY <2>1 DEF Aligned, SentFirst
  <2>9. Live(m) => Live(n)
    BY <2>4 DEF Live
  <2>10. Remains(m, n)
    BY <1>2, <2>3, <2>4, <2>5, <2>6, <2>7, <2>8, <2>9 DEF Remains
  <2>11. QED
    BY <1>1, <2>1, <2>10, AlignedStays
<1>4. \A a \in Article : m.op[a] = "write" => article'[a].request > 0
  BY DEF AnswerInv
<1>5. QED
  BY <1>3, <1>4, AnswerNext

LEMMA TimerExpiresAnswer ==
  ASSUME ServiceInv, AnswerInv, TimerExpires
  PROVE  AnswerInv'
<1> DEFINE m == [client EXCEPT !.timer = "expired"]
<1>1. client' = m /\ setting' = setting /\ article' = article /\ sentTwice' = sentTwice
  BY DEF TimerExpires, Continue
<1>2. /\ m.op = client.op /\ m.writing = client.writing /\ m.socket = client.socket
      /\ m.life = client.life /\ m.response = client.response /\ m.response \in Seq(Line)
  BY ClientTypes DEF ClientRec
<1> HIDE DEF m
<1>3. QED
  BY <1>1, <1>2, StillAnswer

LEMMA TimerFiresAnswer ==
  ASSUME ServiceInv, AnswerInv, TimerFires
  PROVE  AnswerInv'
<1> DEFINE n == [client EXCEPT !.timer = "off"]
           k == [n EXCEPT !.timedOut = TRUE]
<1>1. \/ Continue(n)
      \/ \E arrived \in Arrived(n) : Continue(Disconnect(k, arrived))
  BY DEF TimerFires
<1>2. /\ n \in ClientRec /\ n.op = client.op /\ n.writing = client.writing
      /\ n.socket = client.socket /\ n.life = client.life /\ n.response = client.response
      /\ n.response \in Seq(Line)
  BY ClientTypes DEF ClientRec
<1> HIDE DEF n
<1>3. CASE Continue(n)
  BY <1>2, <1>3, StillAnswer DEF Continue
<1>4. CASE \E arrived \in Arrived(n) : Continue(Disconnect(k, arrived))
  <2>1. PICK arrived \in Arrived(n) : Continue(Disconnect(k, arrived))
    BY <1>4, Zenon
  <2>2. arrived \in Seq(Line) /\ Prefix(arrived, client.response)
    BY <1>2, ArrivedLines, ArrivedPrefix
  <2>3. k \in ClientRec /\ k.op = n.op /\ k.writing = n.writing /\ k.life = n.life
    BY <1>2 DEF ClientRec
  <2> HIDE DEF k
  <2> DEFINE m == Disconnect(k, arrived)
  <2>4. Closes(m, k, arrived)
    BY <2>2, <2>3, DisconnectEffect
  <2>5. client' = m /\ setting' = setting /\ article' = article /\ sentTwice' = sentTwice
    BY <2>1 DEF Continue
  <2> HIDE DEF m
  <2>6. /\ m.op = client.op /\ m.writing = client.writing /\ m.life = client.life
        /\ m.response = arrived /\ ~ Live(m)
    BY <1>2, <2>3, <2>4 DEF Closes, Live
  <2>7. Carried(arrived, client.response, Live(client))
    BY <1>2, <2>2, PrefixCarried
  <2>8. QED
    BY <2>2, <2>5, <2>6, <2>7, StillAnswer
<1>5. QED
  BY <1>1, <1>3, <1>4, Zenon

LEMMA DisconnectedAnswer ==
  ASSUME ServiceInv, AnswerInv, Disconnected
  PROVE  AnswerInv'
<1>1. \E arrived \in Arrived(client) :
        Continue([Disconnect(client, arrived) EXCEPT !.life = "stopping"])
  BY DEF Disconnected
<1>2. PICK arrived \in Arrived(client) :
        Continue([Disconnect(client, arrived) EXCEPT !.life = "stopping"])
  BY <1>1, Zenon
<1>3. client \in ClientRec /\ arrived \in Seq(Line) /\ Prefix(arrived, client.response)
      /\ client.response \in Seq(Line)
  BY ClientTypes, ArrivedLines, ArrivedPrefix
<1> DEFINE k == Disconnect(client, arrived)
           m == [k EXCEPT !.life = "stopping"]
<1>4. Closes(k, client, arrived)
  BY <1>3, DisconnectEffect
<1>5. client' = m /\ setting' = setting /\ article' = article /\ sentTwice' = sentTwice
  BY <1>2 DEF Continue
<1> HIDE DEF k
<1>6. /\ m.op = k.op /\ m.writing = k.writing /\ m.socket = k.socket /\ m.response = k.response
      /\ m.life = "stopping"
  <2>1. k \in ClientRec
    BY <1>4 DEF Closes
  <2>2. QED
    BY <2>1 DEF ClientRec
<1> HIDE DEF m
<1>7. /\ m.op = client.op /\ m.writing = client.writing /\ m.response = arrived /\ ~ Live(m)
  BY <1>4, <1>6 DEF Closes, Live
<1>8. Carried(arrived, client.response, Live(client))
  BY <1>3, PrefixCarried
<1>9. QED
  BY <1>3, <1>5, <1>6, <1>7, <1>8, StillAnswer

LEMMA NewClientAligned ==
  ASSUME NEW absent
  PROVE  Aligned(NewClient, absent)
<1> DEFINE m == NewClient
<1>1. m.response = <<>> /\ m.op[login] = "resolve" /\ \A d \in Article : m.op[d] = "none"
  BY NewClientFits DEF NewClient
<1>2. LoginLines(m) /\ SentFirst(m)
  BY <1>1 DEF LoginLines, SentFirst, Command
<1> HIDE DEF m
<1>3. m.response \in Seq(Line) /\ \A i \in DOMAIN m.response : Odd(m.response[i])
  BY <1>1
<1>4. m.op[login] # "none"
  BY <1>1
<1>5. Aligned(m, absent)
  BY <1>1, <1>2, <1>3, <1>4, LoginAligned
<1>6. QED
  BY <1>5 DEF m

LEMMA OnStoppedAnswer ==
  ASSUME ServiceInv, AnswerInv, OnStopped
  PROVE  AnswerInv'
<1>1. CASE Continue([client EXCEPT !.life = "stopped"])
  <2> DEFINE m == [client EXCEPT !.life = "stopped"]
  <2>1. client' = m /\ setting' = setting /\ article' = article /\ sentTwice' = sentTwice
    BY <1>1 DEF Continue
  <2>2. /\ m.op = client.op /\ m.writing = client.writing /\ m.socket = client.socket
        /\ m.life = "stopped" /\ m.response = client.response /\ m.response \in Seq(Line)
    BY ClientTypes DEF ClientRec
  <2> HIDE DEF m
  <2>3. QED
    BY <2>1, <2>2, StillAnswer
<1>2. CASE client' = NewClient /\ UNCHANGED <<setting, article, sentTwice>>
  <2>1. Honest => Aligned(NewClient, setting.absent)
    BY NewClientAligned
  <2>2. \A a \in Article : NewClient.op[a] = "write" => article'[a].request > 0
    BY NewClientFits
  <2>3. QED
    BY <1>2, <2>1, <2>2, AnswerNext
<1>3. QED
  BY <1>1, <1>2 DEF OnStopped

LEMMA ServerClosesAnswer ==
  ASSUME ServiceInv, AnswerInv, ServerCloses
  PROVE  AnswerInv'
<1> DEFINE line == [is |-> "status", code |-> 400, of |-> login]
<1>1. PICK arrived \in Arrived(client), how \in {"eof", "reset"}, last \in {<<>>, <<line>>} :
        client' = [client EXCEPT !.socket = how, !.response = arrived \o last]
  BY Zenon DEF ServerCloses
<1>2. /\ client \in ClientRec /\ client.response \in Seq(Line)
      /\ arrived \in Seq(Line) /\ Prefix(arrived, client.response)
  BY ClientTypes, ArrivedLines, ArrivedPrefix
<1>3. client.socket = "open" /\ setting' = setting /\ article' = article /\ sentTwice' = sentTwice
  BY DEF ServerCloses
<1>4. line \in Line /\ Odd(line)
  BY StatusLine DEF Command, Odd
<1> HIDE DEF line
<1> DEFINE response == arrived \o last
           m == [client EXCEPT !.socket = how, !.response = response]
<1>5. client' = m
  BY <1>1
<1>6. response \in Seq(Line) /\ Carried(response, client.response, TRUE)
  <2>1. CASE last = <<>>
    <3>1. response = arrived
      BY <1>2, <2>1
    <3>2. QED
      BY <1>2, <3>1, PrefixCarried
  <2>2. CASE last = <<line>>
    BY <1>2, <1>4, <2>2, CutCarried
  <2>3. QED
    BY <2>1, <2>2
<1> HIDE DEF response
<1>7. /\ m.op = client.op /\ m.writing = client.writing /\ m.life = client.life
      /\ m.socket = how /\ m.response = response
  BY <1>2 DEF ClientRec
<1> HIDE DEF m
<1>8. ~ Live(m) /\ Live(client) = TRUE
  BY <1>3, <1>7 DEF Live
<1>9. QED
  BY <1>3, <1>5, <1>6, <1>7, <1>8, StillAnswer

-----------------------------------------------------------------------------
(* An article's command that begins, writes, or is answered.               *)

LEMMA HeadWriting ==
  ASSUME NEW n, Fits(n), NEW b \in Command, n.op[b] \in {"write", "sent"}
  PROVE  /\ n.writing # <<>> /\ n.writing \in Seq(Command)
         /\ Head(n.writing) \in Command /\ n.op[Head(n.writing)] \in {"write", "sent"}
<1> DEFINE C == {d \in Command : n.op[d] \in {"write", "sent"}}
<1>1. n.writing \in Seq(Command) /\ Lists(n.writing, C)
  BY DEF Fits, ClientRec
<1>2. C # {}
  OBVIOUS
<1> HIDE DEF C
<1>3. n.writing # <<>>
  BY <1>1, <1>2, EmptyLists
<1>4. Head(n.writing) \in C
  BY <1>1, <1>3, TailLists
<1>5. QED
  BY <1>1, <1>3, <1>4 DEF C

\* One command alone is the first.
LEMMA LoneSentFirst ==
  ASSUME NEW m, Fits(m), \A d, e \in Busy(m) : d = e
  PROVE  SentFirst(m)
<1> SUFFICES ASSUME NEW c \in Command, m.op[c] = "sent" PROVE m.op[Head(m.writing)] = "sent"
  BY DEF SentFirst
<1>1. Head(m.writing) \in Command /\ m.op[Head(m.writing)] \in {"write", "sent"}
  BY HeadWriting
<1>2. Head(m.writing) \in Busy(m) /\ c \in Busy(m)
  BY <1>1 DEF Busy
<1>3. QED
  BY <1>2

LEMMA RunAnswer ==
  ASSUME ServiceInv, AnswerInv, NEW a \in Article, Run(a)
  PROVE  AnswerInv'
<1> DEFINE m == AsyncWriteRequest(client, a)
           r == [state |-> "running", request |-> article[a].request + 1, got |-> <<>>]
           n == client
<1>1. /\ n.op[login] = "none" /\ n.op[a] = "none" /\ n.life = "up"
      /\ client' = m /\ setting' = setting /\ sentTwice' = sentTwice
      /\ article' = [article EXCEPT ![a] = r]
  BY RunAside DEF Run
<1>2. /\ a \in Command /\ a # login /\ n \in ClientRec /\ article \in [Article -> ArticleRec]
      /\ n.op \in [Command -> Op] /\ Fits(n) /\ n.response \in Seq(Line)
      /\ article[a].request \in Nat /\ login \in Command
  BY ArticleUsed DEF ClientRec
<1>3. Writes(m, n, a)
  BY <1>2, WriteRequestEffect
<1>4. r.state = "running" /\ r.request > 0
  BY <1>2
<1> HIDE DEF m, r
<1>5. \A d \in Article : article'[d] = IF d = a THEN r ELSE article[d]
  BY <1>1, <1>2
<1>6. /\ m.op = [n.op EXCEPT ![a] = "write"] /\ m.response = n.response /\ m.socket = n.socket
      /\ m.life = "up" /\ m.writing = Append(n.writing, a) /\ Live(m) = Live(n)
  BY <1>1, <1>3 DEF Writes, Live
<1>7. \A d \in Command : m.op[d] = IF d = a THEN "write" ELSE n.op[d]
  BY <1>2, <1>6
<1>8. ASSUME NEW d \in Command, n.op[d] = "sent" PROVE Head(m.writing) = Head(n.writing)
  <2>1. n.writing # <<>> /\ n.writing \in Seq(Command)
    BY <1>2, <1>8, HeadWriting
  <2>2. QED
    BY <1>2, <1>6, <2>1
<1>9. ASSUME Aligned(n, setting.absent) PROVE Aligned(m, setting.absent)
  <2>1. ~ Spoiled(n)
    BY <1>1 DEF Spoiled
  <2>2. ASSUME NEW b \in Command, n.op[b] \in Waits, First(n, b) PROVE First(m, b)
    <3> SUFFICES ASSUME NEW c \in Command \ {b}, m.op[c] \in {"write", "sent", "queued", "status"}
                 PROVE  Ahead(m, b, c)
      BY DEF First
    <3>1. b # a /\ m.op[b] = n.op[b]
      BY <1>1, <1>7, <2>2 DEF Waits
    <3>2. CASE c = a
      BY <1>7, <2>2, <3>1, <3>2 DEF Ahead
    <3>3. CASE c # a
      <4>1. m.op[c] = n.op[c] /\ Ahead(n, b, c)
        BY <1>7, <2>2, <3>3 DEF First
      <4>2. QED
        BY <1>8, <3>1, <4>1 DEF Ahead
    <3>4. QED
      BY <3>2, <3>3
  <2>3. KeepsPlace(m, n)
    <3>1. \A b \in Command : n.op[b] \in Waits => m.op[b] \in Waits
      BY <1>1, <1>7 DEF Waits
    <3>2. QED
      BY <2>1, <2>2, <3>1 DEF KeepsPlace
  <2>4. Carried(m.response, n.response, Live(n))
    BY <1>6 DEF Carried
  <2>5. \A d \in Article : m.op[d] \in Waits => n.op[d] \in Waits /\ Company(n, d)
    BY <1>1, <1>7 DEF Waits, Command, Company
  <2>6. m.op[login] = n.op[login]
    BY <1>2, <1>7
  <2>7. \A d \in Article : n.op[d] = "data" => m.op[d] = "data"
    BY <1>1, <1>7 DEF Command
  <2>8. SentFirst(m)
    <3> SUFFICES ASSUME NEW c \in Command, m.op[c] = "sent" PROVE m.op[Head(m.writing)] = "sent"
      BY DEF SentFirst
    <3>1. n.op[c] = "sent"
      BY <1>7
    <3>2. n.op[Head(n.writing)] = "sent" /\ Head(n.writing) \in Command
      BY <1>2, <1>9, <3>1, HeadWriting DEF Aligned, SentFirst
    <3>3. QED
      BY <1>1, <1>7, <1>8, <3>1, <3>2
  <2>9. Remains(m, n)
    BY <1>1, <1>6, <2>1, <2>3, <2>4, <2>5, <2>6, <2>7, <2>8 DEF Remains
  <2>10. m.response \in Seq(Line)
    BY <1>2, <1>6
  <2>11. QED
    BY <1>2, <1>9, <2>9, <2>10, AlignedStays
<1>10. Honest => Aligned(m, setting.absent)
  BY <1>9 DEF AnswerInv
<1>11. \A d \in Article : m.op[d] = "write" => article'[d].request > 0
  BY <1>4, <1>5, <1>7 DEF AnswerInv, Command
<1>12. \A d \in Article : article'[d].state = "missing" => article[d].state = "missing"
  BY <1>4, <1>5
<1>13. QED
  BY <1>1, <1>10, <1>11, <1>12, AnswerNext

\* The request of a is sent: the commands before it keep their places.
LEMMA SendsPlaces ==
  ASSUME NEW n, Fits(n), SentFirst(n), NEW p, OneAtATime(n, p), NEW a \in Article,
         NEW m, m.op = [n.op EXCEPT ![a] = "sent"], n.op[a] = "write",
         m.writing = n.writing, m.life = n.life
  PROVE  KeepsPlace(m, n) /\ Busy(m) = Busy(n)
<1>1. a \in Command /\ n.op \in [Command -> Op]
  BY DEF Fits, ClientRec, Command
<1>2. \A d \in Command : m.op[d] = IF d = a THEN "sent" ELSE n.op[d]
  BY <1>1
<1>3. Busy(m) = Busy(n)
  BY <1>2 DEF Busy
<1>4. ASSUME NEW b \in Command, b # a, First(n, b) PROVE First(m, b)
  <2>1. Ahead(n, b, a)
    BY <1>1, <1>4 DEF First
  <2>2. n.op[b] \in Waits /\ m.op[b] = n.op[b]
    BY <1>2, <1>4, <2>1 DEF Ahead, Waits
  <2> SUFFICES ASSUME NEW c \in Command \ {b}, m.op[c] \in {"write", "sent", "queued", "status"}
               PROVE  Ahead(m, b, c)
    BY DEF First
  <2>3. CASE c # a
    <3>1. m.op[c] = n.op[c] /\ Ahead(n, b, c)
      BY <1>2, <1>4, <2>3 DEF First
    <3>2. QED
      BY <2>2, <3>1 DEF Ahead
  <2>4. CASE c = a /\ n.op[b] \in {"queued", "status"}
    BY <1>1, <1>2, <2>2, <2>4 DEF Ahead
  <2>5. CASE c = a /\ n.op[b] = "sent"
    <3> DEFINE h == Head(n.writing)
    <3>1. h \in Command /\ n.op[h] = "sent"
      BY <2>5, HeadWriting DEF SentFirst
    <3>2. a \in Busy(n) /\ b \in Busy(n) /\ h \in Busy(n) /\ a # h
      BY <1>1, <2>5, <3>1 DEF Busy
    <3>3. h = b
      BY <1>4, <3>2 DEF OneAtATime
    <3>4. QED
      BY <1>1, <1>2, <2>2, <2>5, <3>3 DEF Ahead
  <2>6. QED
    BY <2>2, <2>3, <2>4, <2>5 DEF Waits
<1>5. Spoiled(m) <=> Spoiled(n)
  BY <1>3 DEF Spoiled
<1>6. ASSUME NEW b \in Command, n.op[b] \in Waits \/ (n.op[b] = "none" /\ Spoiled(n))
      PROVE  /\ m.op[b] \in Waits \/ (m.op[b] = "none" /\ Spoiled(m))
             /\ First(n, b) => First(m, b)
  <2>1. b # a
    BY <1>6 DEF Waits
  <2>2. QED
    BY <1>2, <1>4, <1>5, <1>6, <2>1
<1>7. QED
  BY <1>3, <1>6 DEF KeepsPlace

LEMMA AnswerKinds ==
  ASSUME NEW a \in Article, NEW k \in Nat, k > 0, NEW s, s = Repeated(Answer(a), k)
  PROVE  /\ s # <<>> /\ s[1].is = "status" /\ s[1].of = a /\ 1 \in DOMAIN s
         /\ \A i \in DOMAIN s : /\ ~ Odd(s[i])
                                /\ s[i].of = a
                                /\ s[i].is = "status" /\ s[i].code = 222 => a \notin setting.absent
                                /\ s[i].is = "status" /\ s[i].code = 430 => a \in setting.absent
         /\ a \in setting.absent => Len(s) = k
<1> DEFINE status(c) == [is |-> "status", code |-> c, of |-> a]
           t == Answer(a)
           no == status(430)
           yes == status(222)
           first == [is |-> "data", of |-> a]
           last == [is |-> "end", of |-> a]
<1>1. t = IF a \in setting.absent THEN <<no>> ELSE <<yes, first, last>>
  BY DEF Answer
<1>2. t \in Seq(Line) /\ Len(t) \in {1, 3}
  BY AnswerLines
<1>3. /\ no.is = "status" /\ no.code = 430 /\ no.of = a
      /\ yes.is = "status" /\ yes.code = 222 /\ yes.of = a
      /\ first.is = "data" /\ first.of = a /\ last.is = "end" /\ last.of = a
  OBVIOUS
<1> HIDE DEF t, no, yes, first, last
<1>4. /\ s \in Seq(Line) /\ Len(s) = k * Len(t)
      /\ \A i \in 1 .. k * Len(t) : s[i] = t[1 + ((i - 1) % Len(t))]
  BY <1>2, RepeatedLines DEF t
<1>5. CASE a \in setting.absent
  <2>1. Len(t) = 1 /\ t[1] = no
    BY <1>1, <1>5
  <2>2. Len(s) = k /\ DOMAIN s = 1 .. k
    BY <1>4, <2>1
  <2>3. \A i \in 1 .. k : (i - 1) % 1 = 0
    OBVIOUS
  <2>4. \A i \in DOMAIN s : s[i] = no
    BY <1>4, <2>1, <2>2, <2>3
  <2>5. 1 \in DOMAIN s /\ s # <<>>
    BY <2>2
  <2>6. ~ Odd(no)
    BY <1>3 DEF Odd
  <2>7. QED
    BY <1>3, <1>5, <2>2, <2>4, <2>5, <2>6
<1>6. CASE a \notin setting.absent
  <2>1. Len(t) = 3 /\ t[1] = yes /\ t[2] = first /\ t[3] = last
    BY <1>1, <1>6
  <2>2. Len(s) = k * 3 /\ DOMAIN s = 1 .. k * 3
    BY <1>4, <2>1
  <2>3. \A i \in 1 .. k * 3 : (i - 1) % 3 \in {0, 1, 2}
    OBVIOUS
  <2>4. \A i \in DOMAIN s : s[i] \in {yes, first, last}
    BY <1>4, <2>1, <2>2, <2>3
  <2>5. 1 \in DOMAIN s /\ s # <<>> /\ s[1] = yes
    <3>1. (1 - 1) % 3 = 0 /\ 1 \in 1 .. k * 3
      OBVIOUS
    <3>2. s[1] = t[1 + 0]
      BY <1>4, <2>1, <3>1
    <3>3. QED
      BY <2>1, <2>2, <3>1, <3>2
  <2>6. ~ Odd(yes) /\ ~ Odd(first) /\ ~ Odd(last)
    BY <1>3 DEF Odd
  <2>7. QED
    BY <1>3, <1>6, <2>4, <2>5, <2>6
<1>7. QED
  BY <1>5, <1>6

\* The answers to a's requests come behind those of the others.
LEMMA SendsAligned ==
  ASSUME NEW n, Fits(n), NEW absent, absent = setting.absent, Aligned(n, absent), n.socket = "open",
         n.response \in Seq(Line), Script(n.response, Live(n)), NEW a \in Article, n.op[a] = "write",
         NEW k \in Nat, k > 0, a \in absent => k = 1, NEW s \in Seq(Line), s = Repeated(Answer(a), k),
         NEW m, m.op = [n.op EXCEPT ![a] = "sent"], m.life = n.life, m.socket = "open",
         m.response = n.response \o s, KeepsPlace(m, n), Busy(m) = Busy(n), SentFirst(m)
  PROVE  Aligned(m, absent)
<1> DEFINE r == n.response
           q == m.response
<1>1. /\ Len(r) \in Nat /\ DOMAIN r = 1 .. Len(r) /\ Len(s) \in Nat /\ DOMAIN s = 1 .. Len(s)
      /\ Len(q) = Len(r) + Len(s) /\ DOMAIN q = 1 .. Len(r) + Len(s)
      /\ \A i \in 1 .. Len(r) : q[i] = r[i]
      /\ \A i \in Len(r) + 1 .. Len(r) + Len(s) : q[i] = s[i - Len(r)] /\ i - Len(r) \in DOMAIN s
  OBVIOUS
<1>0. /\ Len(r) \in Nat /\ DOMAIN r = 1 .. Len(r) /\ Len(s) \in Nat /\ DOMAIN s = 1 .. Len(s)
      /\ DOMAIN q \subseteq Nat
  BY <1>1
<1>2. /\ s # <<>> /\ s[1].is = "status" /\ s[1].of = a /\ 1 \in DOMAIN s
      /\ \A i \in DOMAIN s : /\ ~ Odd(s[i])
                             /\ s[i].of = a
                             /\ s[i].is = "status" /\ s[i].code = 222 => a \notin absent
                             /\ s[i].is = "status" /\ s[i].code = 430 => a \in absent
      /\ a \in absent => Len(s) = k
  BY AnswerKinds
<1>3. a \in Command /\ n.op \in [Command -> Op] /\ a # login /\ login \in Command
  BY ConnectionAssumption DEF Fits, ClientRec, Command
<1>4. \A d \in Command : m.op[d] = IF d = a THEN "sent" ELSE n.op[d]
  BY <1>3
<1>5. Len(r) + 1 \in DOMAIN q /\ q[Len(r) + 1] = s[1]
  <2>0. \A u, v \in Nat : v >= 1 => u + 1 \in u + 1 .. u + v /\ (u + 1) - u = 1
    OBVIOUS
  <2>6. 1 \in DOMAIN s
    BY <1>2
  <2>5. Len(s) >= 1 /\ Len(s) \in Nat /\ Len(r) \in Nat
    BY <1>0, <2>6
  <2> HIDE DEF r, q
  <2>1. Len(r) + 1 \in Len(r) + 1 .. Len(r) + Len(s) /\ (Len(r) + 1) - Len(r) = 1
    BY <2>0, <2>5
  <2>2. q[Len(r) + 1] = s[(Len(r) + 1) - Len(r)]
    BY <1>1, <2>1
  <2>3. Len(r) + 1 \in DOMAIN q
    BY <1>1, <2>1
  <2>4. QED
    BY <2>1, <2>2, <2>3
<1>6. \A i \in DOMAIN q : i \in DOMAIN r \/ (i > Len(r) /\ i - Len(r) \in DOMAIN s /\ q[i] = s[i - Len(r)])
  BY <1>1
<1>7. \A i \in DOMAIN r : i \in DOMAIN q /\ q[i] = r[i]
  BY <1>1
<1>8. r = <<>> <=> Len(r) = 0
  BY EmptySeq
<1> HIDE DEF q, r
<1>9. n.op[login] = "none" /\ a \in Busy(n) /\ Live(n) /\ Live(m)
  BY <1>3 DEF Fits, Busy, Live
<1>10. r = <<>> => First(m, a)
  <2> SUFFICES ASSUME r = <<>>, NEW c \in Command \ {a},
                      m.op[c] \in {"write", "sent", "queued", "status"}
               PROVE  Ahead(m, a, c)
    BY DEF First
  <2>1. m.op[c] = n.op[c] /\ m.op[a] = "sent"
    BY <1>3, <1>4
  <2>2. CASE n.op[c] = "write"
    BY <2>1, <2>2 DEF Ahead, Waits
  <2>3. CASE n.op[c] \in Waits
    <3>1. c \in Article /\ Company(n, c)
      BY <1>9, <2>3 DEF Company, Command, Waits
    <3>2. \E j \in DOMAIN r : TRUE
      BY <2>3, <3>1 DEF Aligned, Answered, r
    <3>3. QED
      BY <1>1, <1>8, <3>2 DEF r
  <2>4. QED
    BY <2>1, <2>2, <2>3 DEF Waits
<1>11. ASSUME NEW i \in DOMAIN q, NEW b \in Command, Refusal(q[i], b) PROVE RefusedAt(m, absent, i, b)
  <2>1. ASSUME i \in DOMAIN r PROVE RefusedAt(m, absent, i, b)
    <3>1. q[i] = r[i] /\ RefusedAt(n, absent, i, b)
      BY <1>7, <1>11, <2>1 DEF Aligned, Refused, r
    <3>2. b # a
      BY <3>1 DEF RefusedAt, Waits
    <3>3. ASSUME NEW j \in DOMAIN q, i = j + 1 PROVE Complete(q[j])
      <4>1. j \in DOMAIN r
        BY <1>1, <2>1, <3>3 DEF r, q
      <4>2. QED
        BY <1>7, <3>1, <3>3, <4>1 DEF RefusedAt, r
    <3>4. ASSUME NEW j \in DOMAIN q, Refusal(q[j], b) PROVE i = j
      <4>1. j \in DOMAIN r
        BY <1>2, <1>6, <3>2, <3>4 DEF Refusal
      <4>2. QED
        BY <1>7, <3>1, <3>4, <4>1 DEF RefusedAt, r
    <3>5. /\ m.op[b] \in Waits \/ (m.op[b] = "none" /\ Spoiled(m))
          /\ i = 1 => First(m, b)
      BY <3>1 DEF RefusedAt, KeepsPlace
    <3>6. QED
      BY <3>1, <3>3, <3>4, <3>5 DEF RefusedAt, q
  <2>2. ASSUME i \notin DOMAIN r PROVE RefusedAt(m, absent, i, b)
    <3>1. i > Len(r) /\ i - Len(r) \in DOMAIN s /\ q[i] = s[i - Len(r)]
      BY <1>6, <2>2
    <3>2. b = a /\ a \in absent
      BY <1>2, <1>11, <3>1 DEF Refusal
    <3>3. Len(s) = 1 /\ i = Len(r) + 1
      <4>1. Len(s) = 1 /\ DOMAIN s = 1 .. 1 /\ Len(r) \in Nat /\ i \in Nat
        <5>1. Len(s) = 1
          BY <1>2, <3>2
        <5>2. i \in DOMAIN q
          OBVIOUS
        <5>3. QED
          BY <1>0, <5>1, <5>2
      <4>2. i - Len(r) \in 1 .. 1
        BY <3>1, <4>1
      <4>3. \A u, v \in Nat : u - v \in 1 .. 1 => u = v + 1
        OBVIOUS
      <4>4. QED
        BY <4>1, <4>2, <4>3
    <3>4. ASSUME NEW j \in DOMAIN q, i = j + 1 PROVE Complete(q[j])
      <4>1. j = Len(r) /\ j \in DOMAIN r /\ r # <<>>
        BY <1>1, <1>8, <3>3, <3>4 DEF r, q
      <4>2. Complete(r[Len(r)])
        BY <1>9, <4>1 DEF Script, r
      <4>3. QED
        BY <1>7, <4>1, <4>2
    <3>5. ASSUME NEW j \in DOMAIN q, Refusal(q[j], b) PROVE i = j
      <4>1. j \notin DOMAIN r
        <5>1. SUFFICES ASSUME j \in DOMAIN r PROVE FALSE
          OBVIOUS
        <5>2. RefusedAt(n, absent, j, a)
          BY <1>3, <1>7, <3>2, <3>5, <5>1 DEF Aligned, Refused, r
        <5>3. QED
          BY <5>2 DEF RefusedAt, Waits
      <4>2. j = Len(r) + 1
        BY <1>1, <3>3, <4>1 DEF r, q
      <4>3. QED
        BY <3>3, <4>2
    <3>6. m.op[b] \in Waits
      BY <1>3, <1>4, <3>2 DEF Waits
    <3>7. i = 1 => First(m, b)
      <4>1. i = 1 => Len(r) = 0
        BY <1>1, <3>3 DEF r
      <4>2. QED
        BY <1>8, <1>10, <3>2, <4>1
    <3>8. QED
      BY <3>2, <3>4, <3>5, <3>6, <3>7 DEF RefusedAt, q
  <2>3. QED
    BY <2>1, <2>2
<1>12. Refused(m, absent)
  BY <1>11 DEF Refused, q
<1>13. Found(m, absent)
  <2> SUFFICES ASSUME NEW i \in DOMAIN q, q[i].is = "status", q[i].code = 222
               PROVE  q[i].of \in Article \ absent
    BY DEF Found, q
  <2>1. CASE i \in DOMAIN r
    BY <1>7, <2>1 DEF Aligned, Found, r
  <2>2. CASE i \notin DOMAIN r
    BY <1>2, <1>6, <2>2
  <2>3. QED
    BY <2>1, <2>2
<1>14. Answered(m)
  <2> SUFFICES ASSUME NEW d \in Article, m.op[d] \in Waits, Company(m, d)
               PROVE  \E j \in DOMAIN q : q[j].is = "status" /\ q[j].of = d /\ (j = 1 => First(m, d))
    BY DEF Answered, q
  <2>1. CASE d = a
    <3>1. Len(r) + 1 = 1 => r = <<>>
      BY <1>1, <1>8 DEF r
    <3>2. QED
      BY <1>2, <1>5, <1>10, <2>1, <3>1
  <2>2. CASE d # a
    <3>1. d \in Command /\ n.op[d] \in Waits /\ Company(n, d)
      BY <1>4, <2>2 DEF Command, Company
    <3>2. PICK j \in DOMAIN r : r[j].is = "status" /\ r[j].of = d /\ (j = 1 => First(n, d))
      BY <3>1 DEF Aligned, Answered, r
    <3>3. j = 1 => First(m, d)
      BY <3>1, <3>2 DEF KeepsPlace
    <3>4. QED
      BY <1>7, <3>2, <3>3
  <2>3. QED
    BY <2>1, <2>2
<1>15. OddLast(m)
  <2>1. \A i \in DOMAIN r : ~ Odd(r[i])
    BY <1>9 DEF Aligned, OddLast, r
  <2>2. \A i \in DOMAIN q : ~ Odd(q[i])
    BY <1>2, <1>6, <1>7, <2>1
  <2>3. QED
    BY <2>2 DEF OddLast, q
<1>16. LoginLines(m)
  BY <1>3, <1>4, <1>9 DEF LoginLines
<1>17. Stray(m)
  <2> SUFFICES ASSUME q # <<>>, Head(q).is # "status", \A d \in Article : m.op[d] # "data"
               PROVE  Spoiled(m)
    BY DEF Stray, q
  <2>1. Head(q) = q[1]
    BY <1>1 DEF q
  <2>2. r # <<>>
    <3>1. r = <<>> => Len(r) + 1 = 1
      BY <1>8
    <3>2. q[1] # s[1]
      BY <1>2, <2>1
    <3>3. QED
      BY <1>5, <3>1, <3>2
  <2>3. 1 \in DOMAIN r /\ Head(r) = r[1] /\ q[1] = r[1]
    <3>1. Len(r) > 0
      BY <1>1, <1>8, <2>2 DEF r
    <3>2. 1 \in DOMAIN r
      BY <1>1, <3>1 DEF r
    <3>3. QED
      BY <1>7, <2>2, <3>2 DEF r
  <2>4. \A d \in Article : n.op[d] # "data"
    BY <1>4 DEF Command
  <2>5. Spoiled(n)
    BY <2>1, <2>2, <2>3, <2>4 DEF Aligned, Stray, r
  <2>6. QED
    BY <2>5 DEF Spoiled
<1>18. QED
  BY <1>12, <1>13, <1>14, <1>15, <1>16, <1>17 DEF Aligned

LEMMA WriteBodyAnswer ==
  ASSUME ServiceInv, OrderInv, AnswerInv, NEW a \in Article, WriteBody(a)
  PROVE  AnswerInv'
<1> DEFINE k == article[a].request
           s == Repeated(Answer(a), k)
           m == Sent(a, s)
           n == client
<1>1. /\ Writable(a) /\ client' = m /\ setting' = setting /\ article' = article
      /\ sentTwice' = IF k > 1 THEN sentTwice \cup {a} ELSE sentTwice
  BY DEF WriteBody
<1>2. /\ a \in Command /\ Fits(n) /\ n.response \in Seq(Line) /\ k \in Nat
      /\ n.op \in [Command -> Op] /\ login \in Command /\ a # login
  BY ArticleUsed, ClientTypes DEF ClientRec
<1>3. s \in Seq(Line)
  BY <1>2, AnswerLines, RepeatedLines
<1>4. s = Repeated(Answer(a), k)
  OBVIOUS
<1> HIDE DEF s
<1>5. Sends(m, n, a, s)
  BY <1>1, <1>2, <1>3, SentEffect
<1>6. m.writing = n.writing /\ m.life = n.life /\ m.response \in Seq(Line)
  BY <1>2, <1>3, SentKeeps
<1> HIDE DEF m
<1>7. /\ m.op = [n.op EXCEPT ![a] = "sent"] /\ n.op[a] = "write"
      /\ \/ n.socket = "open" /\ m.socket = "open" /\ m.response = n.response \o s
         \/ m.socket = "reset" /\ m.response = n.response
  BY <1>5 DEF Sends
<1>8. k > 0
  BY <1>7 DEF AnswerInv
<1>9. \A d \in Command : m.op[d] = IF d = a THEN "sent" ELSE n.op[d]
  BY <1>2, <1>7
<1>10. \A d \in Article : m.op[d] = "write" => article'[d].request > 0
  BY <1>1, <1>9 DEF AnswerInv, Command
<1>11. SentFirst(m)
  BY <1>1, <1>2, <1>6, <1>7, SentSentFirst DEF SentFirst
<1>12. ASSUME Honest'
       PROVE  /\ Aligned(m, setting.absent)
              /\ \A d \in Article :
                   article'[d].state = "missing" => d \in setting.absent \cup setting.groupless
  <2>1. Orderly /\ sentTwice' \cap setting.absent = {}
    BY <1>1, <1>12 DEF Honest, Orderly
  <2>2. sentTwice \subseteq sentTwice' /\ (k > 1 => a \in sentTwice')
    BY <1>1
  <2>3. Honest
    BY <2>1, <2>2 DEF Honest
  <2>4. a \in setting.absent => k = 1
    <3>1. a \in setting.absent => ~ (k > 1)
      BY <2>1, <2>2
    <3>2. QED
      BY <1>2, <1>8, <3>1
  <2>5. Aligned(n, setting.absent)
    BY <2>3 DEF AnswerInv
  <2>6. KeepsPlace(m, n) /\ Busy(m) = Busy(n)
    <3>1. OneAtATime(n, setting.pipeline) /\ SentFirst(n)
      BY <2>1, <2>5 DEF OrderInv, Ordered, Aligned
    <3>2. QED
      BY <1>2, <1>6, <1>7, <3>1, SendsPlaces
  <2>7. ASSUME n.socket = "open", m.socket = "open", m.response = n.response \o s
        PROVE  Aligned(m, setting.absent)
    <3>1. Script(n.response, Live(n))
      BY <2>1 DEF OrderInv, Ordered
    <3>2. Fits(n) /\ n.response \in Seq(Line) /\ k \in Nat
      BY <1>2
    <3>3. m.op = [n.op EXCEPT ![a] = "sent"] /\ n.op[a] = "write"
      BY <1>7
    <3> HIDE DEF k, n
    <3>4. QED
      BY <1>3, <1>4, <1>6, <1>8, <1>11, <2>4, <2>5, <2>6, <2>7, <3>1, <3>2, <3>3, SendsAligned
  <2>8. ASSUME m.socket = "reset", m.response = n.response
        PROVE  Aligned(m, setting.absent)
    <3>1. ~ Live(m) /\ m.socket # "open"
      BY <2>8 DEF Live
    <3>2. Carried(m.response, n.response, Live(n))
      BY <2>8 DEF Carried
    <3>3. m.op[login] = n.op[login] /\ (Spoiled(n) => Spoiled(m))
      BY <1>2, <1>6, <1>9, <2>6 DEF Spoiled
    <3>4. \A d \in Article : n.op[d] = "data" => m.op[d] = "data"
      BY <1>7, <1>9 DEF Command
    <3>5. Remains(m, n)
      BY <1>6, <1>11, <2>6, <2>8, <3>1, <3>2, <3>3, <3>4 DEF Remains
    <3>6. n.response \in Seq(Line) /\ m.response \in Seq(Line)
      BY <1>2, <1>6
    <3> HIDE DEF k, n
    <3>7. QED
      BY <2>5, <3>5, <3>6, AlignedStays
  <2>9. Aligned(m, setting.absent)
    BY <1>7, <2>7, <2>8
  <2>10. QED
    BY <1>1, <2>3, <2>9 DEF AnswerInv
<1>13. QED
  BY <1>1, <1>10, <1>12 DEF AnswerInv

\* The command whose request went out first reads its answer next, or waits for the
\* one that reads.
LEMMA ReadsPlaces ==
  ASSUME NEW k, Fits(k), NEW p, OneAtATime(k, p), NEW a \in Article, a = Head(k.writing),
         k.op[a] = "sent", NEW n, FitsBut(n, a), n.op = k.op, n.active = k.active,
         NEW m, Reads(m, n, a, "status"), m.life = k.life
  PROVE  KeepsPlace(m, k) /\ Busy(m) = Busy(k) /\ SentFirst(m)
<1>1. /\ a \in Command /\ k.op \in [Command -> Op] /\ k.active \subseteq Command
      /\ a # login /\ k.op[login] = "none" /\ k.pipeline \in Seq(Command)
  BY ConnectionAssumption DEF Fits, ClientRec, Command
<1>2. /\ \A d \in Command \ {a} : m.op[d] = k.op[d]
      /\ m.op[a] = IF k.active \subseteq {a} THEN "status" ELSE "queued"
  BY <1>1 DEF Reads
<1>3. Busy(m) = Busy(k)
  BY <1>2 DEF Busy
<1>4. ASSUME NEW b \in Command, b # a, Ahead(k, b, a) PROVE Ahead(m, b, a)
  <2>1. k.op[b] \in {"queued", "status"} /\ m.op[b] = k.op[b]
    BY <1>2, <1>4 DEF Ahead
  <2>2. CASE k.op[b] = "status"
    <3>1. b \in k.active
      <4>1. Reader(k, b) /\ a \in Command \ {b} /\ k.op[a] \notin {"none", "write"}
        BY <1>1, <1>4, <2>2 DEF Reader, Reading
      <4>2. QED
        BY <4>1 DEF OneAtATime
    <3>2. m.op[a] = "queued"
      BY <1>2, <1>4, <3>1
    <3>3. QED
      BY <2>1, <2>2, <3>2 DEF Ahead
  <2>3. CASE k.op[b] = "queued"
    <3>1. k.pipeline # <<>>
      BY <2>3 DEF Fits, Lists
    <3>2. PICK e \in k.active : TRUE
      BY <3>1 DEF Fits
    <3>3. e \in Command /\ k.op[e] \in {"status", "data"}
      <4>1. e \in Command /\ e # login
        BY <1>1, <3>2 DEF Fits
      <4>2. QED
        BY <3>2, <4>1 DEF Fits, Command
    <3>4. e \in Busy(k) /\ a \in Busy(k) /\ b \in Busy(k) /\ e # a /\ e # b
      BY <1>1, <2>3, <3>3 DEF Busy
    <3>5. QED
      BY <1>4, <3>4 DEF OneAtATime
  <2>4. QED
    BY <2>1, <2>2, <2>3
<1>5. ASSUME NEW b \in Command, First(k, b) PROVE First(m, b)
  <2> SUFFICES ASSUME NEW c \in Command \ {b}, m.op[c] \in {"write", "sent", "queued", "status"}
               PROVE  Ahead(m, b, c)
    BY DEF First
  <2>1. Ahead(k, b, c)
    BY <1>2, <1>5 DEF First
  <2>2. CASE c = a
    BY <1>4, <2>1, <2>2
  <2>3. CASE b = a
    <3>1. m.op[a] \in {"status", "queued"} /\ m.op[c] = k.op[c]
      BY <1>2, <2>3
    <3>2. QED
      BY <2>1, <2>3, <3>1 DEF Ahead, Waits
  <2>4. CASE b # a /\ c # a
    BY <1>2, <2>1, <2>4 DEF Ahead
  <2>5. QED
    BY <2>2, <2>3, <2>4
<1>6. KeepsPlace(m, k)
  <2>1. Spoiled(m) <=> Spoiled(k)
    BY <1>3 DEF Spoiled
  <2>2. \A b \in Command : /\ k.op[b] \in Waits => m.op[b] \in Waits
                           /\ k.op[b] = "none" => m.op[b] = "none"
    BY <1>2 DEF Waits
  <2>3. QED
    BY <1>5, <2>1, <2>2 DEF KeepsPlace
<1>7. SentFirst(m)
  <2> SUFFICES ASSUME NEW c \in Command, m.op[c] = "sent" PROVE m.op[Head(m.writing)] = "sent"
    BY DEF SentFirst
  <2>1. Fits(m)
    <3>1. "status" \in Reading /\ "status" \in ArticleOp
      BY DEF Reading, ArticleOp
    <3>2. QED
      BY <1>1, <3>1, FitsReads
  <2>2. Head(m.writing) \in Command /\ m.op[Head(m.writing)] \in {"write", "sent"}
    BY <2>1, HeadWriting
  <2>3. c # a /\ Head(m.writing) # a
    BY <1>2, <2>2
  <2>4. c \in Busy(k) /\ a \in Busy(k) /\ Head(m.writing) \in Busy(k)
    BY <1>1, <1>3, <2>2 DEF Busy
  <2>5. c = Head(m.writing)
    BY <2>3, <2>4 DEF OneAtATime
  <2>6. QED
    BY <2>5
<1>8. QED
  BY <1>3, <1>6, <1>7

LEMMA ReadsAnswer ==
  ASSUME ServiceInv, OrderInv, AnswerInv, NEW a \in Article, WriteEnds(a), client.op[a] = "sent",
         client' = AsyncReadResponse(AfterWrite, a, "status"), setting' = setting,
         article' = [article EXCEPT ![a].request = 0], sentTwice' = sentTwice
  PROVE  AnswerInv'
<1> DEFINE n == AfterWrite
           m == AsyncReadResponse(n, a, "status")
<1>1. a \in Command /\ article \in [Article -> ArticleRec] /\ Fits(client) /\ a # login /\ login \in Command
  BY ArticleUsed
<1>2. /\ FitsBut(n, a) /\ n \in ClientRec /\ n.op = client.op /\ n.active = client.active
      /\ n.life = client.life /\ n.socket = client.socket
      /\ n.response = client.response /\ n.response \in Seq(Line)
  BY AfterWriteState
<1> HIDE DEF n
<1>3. Reads(m, n, a, "status")
  <2>1. "status" \in Reading
    BY DEF Reading
  <2>2. QED
    BY <1>1, <1>2, <2>1, ReadResponseEffect
<1>4. client' = m
  BY DEF n
<1> HIDE DEF m
<1>5. m.life = client.life /\ m.response = client.response /\ m.socket = client.socket
  BY <1>2, <1>3 DEF Reads
<1>6. /\ \A d \in Command \ {a} : m.op[d] = client.op[d]
      /\ m.op[a] \in {"status", "queued"}
  BY <1>1, <1>2, <1>3 DEF Reads, ClientRec
<1>7. a = Head(client.writing)
  BY DEF WriteEnds
<1>8. ASSUME Honest PROVE Aligned(m, setting.absent)
  <2>1. OneAtATime(client, setting.pipeline)
    BY <1>8 DEF Honest, OrderInv, Ordered
  <2>2. KeepsPlace(m, client) /\ Busy(m) = Busy(client) /\ SentFirst(m)
    BY <1>1, <1>2, <1>3, <1>5, <1>7, <2>1, ReadsPlaces
  <2>3. Carried(m.response, client.response, Live(client)) /\ (Live(m) => Live(client))
    BY <1>5 DEF Carried, Live
  <2>4. /\ m.op[login] = client.op[login]
        /\ \A d \in Article : client.op[d] = "data" => m.op[d] = "data"
        /\ \A d \in Article : m.op[d] \in Waits => client.op[d] \in Waits
    BY <1>1, <1>6 DEF Command, Waits
  <2>5. (Spoiled(client) => Spoiled(m)) /\ \A d : Company(m, d) <=> Company(client, d)
    BY <1>5, <2>2 DEF Spoiled, Company
  <2>6. Remains(m, client)
    BY <1>5, <2>2, <2>3, <2>4, <2>5 DEF Remains
  <2>7. Aligned(client, setting.absent)
    BY <1>8 DEF AnswerInv
  <2>8. client.response \in Seq(Line) /\ m.response \in Seq(Line)
    BY <1>2, <1>5
  <2>9. QED
    BY <2>6, <2>7, <2>8, AlignedStays
<1>9. \A d \in Article : article'[d].state = article[d].state
                         /\ (d # a => article'[d].request = article[d].request)
  BY <1>1 DEF ArticleRec
<1>10. \A d \in Article : m.op[d] = "write" => article'[d].request > 0
  BY <1>6, <1>9 DEF AnswerInv, Command
<1>11. QED
  BY <1>4, <1>8, <1>9, <1>10, AnswerNext

-----------------------------------------------------------------------------
(* An article's command that ends or reads.                                *)

\* What the end of c, or its going on with the article, does to the others: they
\* stay, get their turn, or end with the client.
Others(m, k, c) ==
  \A b \in Command \ {c} :
    \/ m.op[b] = k.op[b]
    \/ k.op[b] = "queued" /\ (m.op[b] = "status" \/ (m.op[b] = "none" /\ Spoiled(m)))

\* One command at the most is left when c ends.
LEMMA EndsPlaces ==
  ASSUME NEW n, NEW c \in Article, FitsBut(n, c), n.op[c] # "none", NEW p, OneAtATime(n, p),
         NEW code \in Code, NEW arrived \in Seq(Line), NEW m, Ends(m, n, c, code, arrived)
  PROVE  /\ \A d, e \in Busy(m) : d = e
         /\ Busy(m) \subseteq Busy(n) \ {c} /\ c \in Busy(n)
         /\ m.op[c] = "none" /\ m.op[login] = "none" /\ SentFirst(m)
         /\ m.life = "up" => n.life = "up"
         /\ code = "ReconnectRetry" => m.life # "up"
         /\ Spoiled(n) => Spoiled(m)
         /\ Others(m, n, c)
<1> DEFINE C == Ending(n, c, code)
<1>1. c \in Command /\ login \in Command /\ login # c /\ n.op[login] = "none"
  BY ConnectionAssumption DEF Command, FitsBut
<1>2. /\ Fits(m) /\ C \subseteq {c} \cup {d \in Article : n.op[d] = "queued"}
      /\ \A d \in Command : m.op[d] # "none" <=> n.op[d] # "none" /\ d \notin C
  BY <1>1, FitsEnds
<1>3. c \in C /\ (code \notin {"ReconnectRetry", "DisconnectClient"} => C = {c})
  BY DEF Ending
<1>4. /\ m.op[c] = "none"
      /\ \A d \in Command : m.op[d] \in {"none", n.op[d]} \/ (m.op[d] = "status" /\ n.op[d] = "queued")
  BY <1>1, EndsOps
<1>5. m.life = Leaving(n, code)
  BY DEF Ends
<1> HIDE DEF C
<1>6. Busy(m) \subseteq Busy(n) \ {c} /\ c \in Busy(n)
  BY <1>1, <1>2, <1>3 DEF Busy
<1>7. \A d, e \in Busy(m) : d = e
  BY <1>6 DEF OneAtATime
<1>8. /\ m.life = "up" => n.life = "up"
      /\ code \in {"ReconnectRetry", "DisconnectClient"} => m.life # "up"
  BY <1>5 DEF Leaving
<1>9. Spoiled(n) => Spoiled(m)
  BY <1>7, <1>8 DEF Spoiled
<1>10. SentFirst(m)
  BY <1>2, <1>7, LoneSentFirst
<1>11. m.op[login] = "none"
  BY <1>1, <1>2
<1>12. ASSUME NEW b \in Command \ {c}
       PROVE  \/ m.op[b] = n.op[b]
              \/ n.op[b] = "queued" /\ (m.op[b] = "status" \/ (m.op[b] = "none" /\ Spoiled(m)))
  <2>1. CASE b \in C
    <3>1. n.op[b] = "queued" /\ m.op[b] = "none"
      BY <1>2, <2>1
    <3>2. m.life # "up"
      BY <1>3, <1>8, <2>1
    <3>3. QED
      BY <1>7, <3>1, <3>2 DEF Spoiled
  <2>2. CASE b \notin C
    BY <1>2, <1>4, <2>2
  <2>3. QED
    BY <2>1, <2>2
<1>13. QED
  BY <1>4, <1>6, <1>7, <1>8, <1>9, <1>10, <1>11, <1>12 DEF Others

\* Who waits and is not c keeps his place.
LEMMA OthersPlaces ==
  ASSUME NEW k, NEW p, OneAtATime(k, p), NEW c \in Command, c \in Busy(k), NEW m, Others(m, k, c),
         m.op[c] \in {"none", "data"}, Spoiled(k) => Spoiled(m),
         NEW b \in Command \ {c}, k.op[b] \in Waits \/ (k.op[b] = "none" /\ Spoiled(k))
  PROVE  /\ m.op[b] \in Waits \/ (m.op[b] = "none" /\ Spoiled(m))
         /\ First(m, b)
<1>1. \/ m.op[b] = k.op[b]
      \/ k.op[b] = "queued" /\ (m.op[b] = "status" \/ (m.op[b] = "none" /\ Spoiled(m)))
  BY DEF Others
<1>2. m.op[b] \in Waits \/ (m.op[b] = "none" /\ Spoiled(m))
  BY <1>1 DEF Waits
<1>3. ASSUME NEW d \in Command \ {b}, m.op[d] \in {"write", "sent", "queued", "status"} PROVE FALSE
  <2>1. d # c
    BY <1>3
  <2>2. d \in Busy(k)
    BY <1>3, <2>1 DEF Others, Busy
  <2>3. CASE k.op[b] \in Waits
    <3>1. b \in Busy(k)
      BY <2>3 DEF Busy, Waits
    <3>2. QED
      BY <2>1, <2>2, <3>1 DEF OneAtATime
  <2>4. CASE Spoiled(k)
    BY <2>1, <2>2, <2>4 DEF Spoiled
  <2>5. QED
    BY <2>3, <2>4
<1>4. QED
  BY <1>2, <1>3 DEF First

\* c consumed a line.
LEMMA ReadAligned ==
  ASSUME NEW k, Fits(k), NEW p, OneAtATime(k, p), NEW absent, Aligned(k, absent),
         NEW c \in Article, k.op[c] \in {"status", "data"},
         k.response \in Seq(Line), k.response # <<>>,
         k.socket = "open" /\ k.op[c] = "data" => Head(k.response).is # "status",
         NEW m, m.response = Tail(k.response), m.socket = k.socket,
         m.op[c] \in {"none", "data"}, Others(m, k, c), Spoiled(k) => Spoiled(m),
         \A i \in DOMAIN k.response : i # 1 /\ Refusal(k.response[i], c) =>
           /\ m.op[c] = "none" /\ Spoiled(m)
           /\ i = 2 => Busy(k) = {c},
         Stray(m), SentFirst(m)
  PROVE  Aligned(m, absent)
<1> DEFINE r == k.response
           q == m.response
<1>1. /\ Len(r) \in Nat /\ Len(r) > 0 /\ DOMAIN r = 1 .. Len(r) /\ Len(q) = Len(r) - 1
      /\ DOMAIN q = 1 .. Len(r) - 1
      /\ \A i \in 1 .. Len(r) - 1 : q[i] = r[i + 1]
      /\ Head(r) = r[1]
  BY EmptySeq
<1>2. /\ \A i \in DOMAIN q : i \in Nat /\ i + 1 \in DOMAIN r /\ q[i] = r[i + 1] /\ i + 1 # 1
      /\ \A i \in DOMAIN r : i # 1 => i - 1 \in DOMAIN q /\ q[i - 1] = r[i] /\ (i - 1) + 1 = i
  BY <1>1
<1>3. /\ c \in Command /\ c \in Busy(k) /\ k.op[login] = "none" /\ login \in Command /\ login # c
      /\ \A d \in Article : d \in Command
  BY ConnectionAssumption DEF Fits, Command, Busy
<1>4. m.op[login] = "none"
  BY <1>3 DEF Others
<1>5. Refused(k, absent) /\ Found(k, absent) /\ Answered(k) /\ OddLast(k)
  BY DEF Aligned
<1> HIDE DEF r, q
<1>6. ASSUME NEW i \in DOMAIN q, NEW b \in Command, Refusal(q[i], b) PROVE RefusedAt(m, absent, i, b)
  <2>1. i \in Nat /\ i + 1 \in DOMAIN r /\ q[i] = r[i + 1] /\ i + 1 # 1
    BY <1>2
  <2>2. RefusedAt(k, absent, i + 1, b)
    BY <1>5, <1>6, <2>1 DEF Refused, r
  <2>3. ASSUME NEW j \in DOMAIN q, i = j + 1 PROVE Complete(q[j])
    <3>1. j + 1 \in DOMAIN r /\ q[j] = r[j + 1] /\ i + 1 = (j + 1) + 1
      BY <1>2, <2>3
    <3>2. QED
      BY <2>2, <3>1 DEF RefusedAt, r
  <2>4. ASSUME NEW j \in DOMAIN q, Refusal(q[j], b) PROVE i = j
    <3>1. j \in Nat /\ j + 1 \in DOMAIN r /\ q[j] = r[j + 1]
      BY <1>2
    <3>2. i + 1 = j + 1
      BY <2>2, <2>4, <3>1 DEF RefusedAt, r
    <3>3. QED
      BY <2>1, <3>1, <3>2
  <2>5. /\ m.op[b] \in Waits \/ (m.op[b] = "none" /\ Spoiled(m))
        /\ i = 1 => First(m, b)
    <3>1. CASE b # c
      <4>1. k.op[b] \in Waits \/ (k.op[b] = "none" /\ Spoiled(k))
        BY <2>2 DEF RefusedAt
      <4>2. QED
        BY <1>3, <3>1, <4>1, OthersPlaces
    <3>2. CASE b = c
      <4>1. /\ m.op[c] = "none" /\ Spoiled(m)
            /\ i = 1 => Busy(k) = {c}
        BY <1>6, <2>1, <3>2 DEF r
      <4>2. ASSUME Busy(k) = {c} PROVE First(m, c)
        <5>1. \A d \in Command \ {c} : k.op[d] = "none"
          BY <4>2 DEF Busy
        <5>2. QED
          BY <5>1 DEF First, Others
      <4>3. QED
        BY <3>2, <4>1, <4>2
    <3>3. QED
      BY <3>1, <3>2
  <2>6. QED
    BY <2>2, <2>3, <2>4, <2>5 DEF RefusedAt, q
<1>7. Refused(m, absent)
  BY <1>6 DEF Refused, q
<1>8. Found(m, absent)
  BY <1>2, <1>5 DEF Found, q, r
<1>9. Answered(m)
  <2> SUFFICES ASSUME m.socket = "open", NEW d \in Article, m.op[d] \in Waits
               PROVE  \E j \in DOMAIN q : q[j].is = "status" /\ q[j].of = d /\ (j = 1 => First(m, d))
    BY DEF Answered, q
  <2>1. d # c /\ d \in Command
    BY <1>3 DEF Waits
  <2>2. k.op[d] \in Waits
    BY <2>1 DEF Others, Waits
  <2>3. First(m, d)
    BY <1>3, <2>1, <2>2, OthersPlaces
  <2>4. k.socket = "open" /\ Company(k, d)
    BY <1>3, <2>1 DEF Company
  <2>5. PICK j \in DOMAIN r : r[j].is = "status" /\ r[j].of = d /\ (j = 1 => First(k, d))
    BY <1>5, <2>2, <2>4 DEF Answered, r
  <2>6. j # 1
    <3>1. SUFFICES ASSUME j = 1 PROVE FALSE
      OBVIOUS
    <3>2. CASE k.op[c] = "status"
      <4>1. Ahead(k, d, c)
        BY <1>3, <2>1, <2>5, <3>1, <3>2 DEF First
      <4>2. QED
        BY <3>2, <4>1 DEF Ahead
    <3>3. CASE k.op[c] = "data"
      BY <1>1, <2>4, <2>5, <3>1, <3>3 DEF r
    <3>4. QED
      BY <3>2, <3>3
  <2>7. j - 1 \in DOMAIN q /\ q[j - 1] = r[j]
    BY <1>2, <2>6
  <2>8. QED
    BY <2>3, <2>5, <2>7
<1>10. OddLast(m)
  <2> SUFFICES ASSUME NEW i \in DOMAIN q, Odd(q[i]) PROVE i = Len(q) /\ ~ Live(m)
    BY DEF OddLast, q
  <2>1. i + 1 \in DOMAIN r /\ q[i] = r[i + 1] /\ i \in Nat
    BY <1>2
  <2>2. i + 1 = Len(r) /\ ~ Live(k)
    BY <1>3, <1>5, <2>1 DEF OddLast, r
  <2>3. i = Len(q)
    BY <1>1, <2>1, <2>2 DEF r, q
  <2>4. QED
    BY <2>2, <2>3 DEF Live
<1>11. LoginLines(m)
  BY <1>4 DEF LoginLines
<1>12. QED
  BY <1>7, <1>8, <1>9, <1>10, <1>11 DEF Aligned

LEMMA EndRequests ==
  ASSUME ServiceInv, NEW n, NEW c \in Command, NEW code, End(n, c, code)
  PROVE  \A a \in Article : article'[a].request = article[a].request
<1>1. article \in [Article -> ArticleRec]
  BY DEF ServiceInv
<1> DEFINE rec(a) == [article[a] EXCEPT !.state = Outcome(n, code)]
<1>2. article' = [a \in Article |-> IF a \in Ending(n, c, code) THEN rec(a) ELSE article[a]]
  BY DEF End
<1>3. \A a \in Article : rec(a).request = article[a].request
  BY <1>1 DEF ArticleRec
<1> HIDE DEF rec
<1>4. QED
  BY <1>2, <1>3

\* A command that ends: only the server's word makes its article missing.
LEMMA EndAnswer ==
  ASSUME ServiceInv, AnswerInv, NEW n, NEW c \in Article, FitsBut(n, c), n.op = client.op,
         n.response \in Seq(Line), NEW code \in Code, End(n, c, code),
         Honest /\ code = "RetryOther" => c \in setting.absent \cup setting.groupless,
         \A m : \A arrived \in Seq(Line) :
           Honest /\ Prefix(arrived, n.response) /\ Ends(m, n, c, code, arrived) =>
             Aligned(m, setting.absent)
  PROVE  AnswerInv'
<1>1. PICK arrived \in Arrived(n) : client' = OnDone(n, c, code, arrived)
  BY DEF End
<1>2. setting' = setting /\ sentTwice' = sentTwice
  BY DEF End
<1>3. arrived \in Seq(Line) /\ Prefix(arrived, n.response) /\ c \in Command /\ n \in ClientRec
  BY ArrivedLines, ArrivedPrefix DEF Command, FitsBut
<1> DEFINE m == OnDone(n, c, code, arrived)
<1>4. Ends(m, n, c, code, arrived)
  BY <1>3, OnDoneEffect
<1>5. client' = m
  BY <1>1
<1> HIDE DEF m
<1>6. Honest => Aligned(m, setting.absent)
  BY <1>3, <1>4
<1>7. \A d \in Command : m.op[d] = "write" => client.op[d] = "write"
  BY <1>3, <1>4, EndsOps
<1>8. \A d \in Article : article'[d].request = article[d].request
  BY <1>3, EndRequests
<1>9. \A d \in Article : m.op[d] = "write" => article'[d].request > 0
  BY <1>7, <1>8 DEF AnswerInv, Command
<1>10. ASSUME Honest, NEW d \in Article, article'[d].state = "missing"
       PROVE  article[d].state = "missing" \/ d \in setting.absent \cup setting.groupless
  <2>1. CASE d \notin Ending(n, c, code)
    BY <1>3, <1>10, <2>1, EndRecords
  <2>2. CASE d \in Ending(n, c, code)
    <3>1. Outcome(n, code) = "missing"
      BY <1>3, <1>10, <2>2, EndRecords
    <3>2. code = "RetryOther"
      BY <3>1 DEF Outcome, Code
    <3>3. d = c
      BY <2>2, <3>2 DEF Ending
    <3>4. QED
      BY <1>10, <3>2, <3>3
  <2>3. QED
    BY <2>1, <2>2
<1>11. QED
  BY <1>2, <1>5, <1>6, <1>9, <1>10, AnswerNext

\* Nothing is left to read.
LEMMA EmptyAligned ==
  ASSUME NEW m, NEW absent, m.response = <<>>, m.socket # "open", m.op[login] = "none", SentFirst(m)
  PROVE  Aligned(m, absent)
<1>1. Refused(m, absent) /\ Found(m, absent) /\ OddLast(m)
  BY DEF Refused, Found, OddLast
<1>2. Answered(m) /\ LoginLines(m) /\ Stray(m)
  BY DEF Answered, LoginLines, Stray
<1>3. QED
  BY <1>1, <1>2 DEF Aligned

\* An error ends a command that has nothing to read, or whose write failed.
LEMMA HandleErrorAnswer ==
  ASSUME ServiceInv, OrderInv, AnswerInv, NEW a \in Article, NEW n, FitsBut(n, a), HandleError(n, a),
         n.op = client.op, n.active = client.active, n.life = client.life,
         n.socket = client.socket, n.response = client.response, n.socket # "open",
         \/ client.op[a] \in {"status", "data"} /\ client.response = <<>>
         \/ client.op[a] = "write" /\ client.socket \in {"reset", "closed"}
  PROVE  AnswerInv'
<1>1. PICK code \in {"ReconnectRetry", "DisconnectClient", "Error"} : End(n, a, code)
  BY DEF HandleError
<1>2. code \in Code /\ code # "RetryOther"
  BY DEF Code
<1>3. client.response \in Seq(Line) /\ n.response \in Seq(Line) /\ client.op[a] # "none"
  BY ClientTypes
<1>4. a \in Command /\ login \in Command /\ login # a /\ n.op[login] = "none"
  BY ConnectionAssumption DEF Command, FitsBut
<1>5. ASSUME NEW m, NEW arrived \in Seq(Line), Honest, Prefix(arrived, n.response),
             Ends(m, n, a, code, arrived)
      PROVE  Aligned(m, setting.absent)
  <2>1. OneAtATime(n, setting.pipeline) /\ Aligned(client, setting.absent)
    <3>1. OneAtATime(client, setting.pipeline)
      BY <1>5 DEF Honest, OrderInv, Ordered
    <3>2. QED
      BY <1>5, <3>1, SameOrder DEF AnswerInv
  <2>2. /\ \A d, e \in Busy(m) : d = e
        /\ Busy(m) \subseteq Busy(n) \ {a} /\ a \in Busy(n)
        /\ m.op[a] = "none" /\ m.op[login] = "none" /\ SentFirst(m)
        /\ m.life = "up" => n.life = "up"
        /\ Spoiled(n) => Spoiled(m)
        /\ Others(m, n, a)
    BY <1>2, <1>3, <1>5, <2>1, EndsPlaces
  <2>3. m.socket \in {n.socket, "closed"} /\ m.response \in {n.response, arrived}
    BY <1>5 DEF Ends
  <2>4. m.socket # "open"
    BY <2>3
  <2>5. ASSUME client.response = <<>> PROVE Aligned(m, setting.absent)
    <3>1. arrived = <<>>
      <4>1. Len(arrived) <= 0 /\ Len(arrived) \in Nat
        BY <1>5, <2>5 DEF Prefix
      <4>2. QED
        BY <4>1, EmptySeq
    <3>2. m.response = <<>>
      BY <2>3, <2>5, <3>1
    <3>3. QED
      BY <2>2, <2>4, <3>2, EmptyAligned
  <2>6. ASSUME client.op[a] = "write", client.socket \in {"reset", "closed"}
        PROVE  Aligned(m, setting.absent)
    <3>1. ~ Live(m) /\ ~ Live(client)
      BY <2>3, <2>6 DEF Live
    <3>2. Carried(m.response, client.response, Live(client)) /\ m.response \in Seq(Line)
      <4>1. Carried(arrived, client.response, Live(client))
        BY <1>3, <1>5, PrefixCarried
      <4>2. Carried(client.response, client.response, Live(client))
        BY DEF Carried
      <4>3. CASE m.response = arrived
        BY <4>1, <4>3
      <4>4. CASE m.response = n.response
        BY <1>3, <4>2, <4>4
      <4>5. QED
        BY <2>3, <4>3, <4>4
    <3>3. Busy(client) = Busy(n) /\ (Spoiled(n) <=> Spoiled(client))
      BY DEF Busy, Spoiled
    <3>4. OneAtATime(client, setting.pipeline) /\ Others(m, client, a) /\ (Spoiled(client) => Spoiled(m))
          /\ a \in Busy(client) /\ m.op[a] \in {"none", "data"}
      BY <1>5, <2>2, <3>3 DEF Honest, OrderInv, Ordered, Others
    <3>5. ASSUME NEW b \in Command, client.op[b] \in Waits \/ (client.op[b] = "none" /\ Spoiled(client))
          PROVE  /\ m.op[b] \in Waits \/ (m.op[b] = "none" /\ Spoiled(m))
                 /\ First(m, b)
      <4>1. b # a
        BY <2>6, <3>5 DEF Waits
      <4>2. QED
        BY <1>4, <3>4, <3>5, <4>1, OthersPlaces
    <3>6. KeepsPlace(m, client)
      BY <3>5 DEF KeepsPlace
    <3>7. \A d \in Article : client.op[d] = "data" => m.op[d] = "data"
      BY <2>6, <3>4 DEF Others, Command
    <3>8. client.op[login] = "none" /\ Busy(client) # {}
      BY <1>4, <3>4
    <3>9. Remains(m, client)
      BY <2>2, <2>4, <3>1, <3>2, <3>4, <3>6, <3>7, <3>8 DEF Remains
    <3>10. QED
      BY <1>3, <2>1, <3>2, <3>9, AlignedStays
  <2>7. QED
    BY <2>5, <2>6
<1>6. QED
  BY <1>1, <1>2, <1>3, <1>5, EndAnswer

LEMMA HandleBodyResponseAnswer ==
  ASSUME ServiceInv, OrderInv, AnswerInv, NEW a \in Article, HandleBodyResponse(a)
  PROVE  AnswerInv'
<1>1. CASE /\ WriteEnds(a) /\ client.op[a] = "sent"
           /\ client' = AsyncReadResponse(AfterWrite, a, "status")
           /\ article' = [article EXCEPT ![a].request = 0]
           /\ UNCHANGED <<setting, restarts, sentTwice, faults>>
  BY <1>1, ReadsAnswer
<1>2. CASE WriteFails(a) /\ HandleError(AfterWrite, a)
  <2> DEFINE n == AfterWrite
  <2>1. WriteEnds(a) /\ client.op[a] = "write" /\ client.socket \in {"reset", "closed"}
    BY <1>2 DEF WriteFails
  <2>2. /\ FitsBut(n, a) /\ n.op = client.op /\ n.active = client.active
        /\ n.life = client.life /\ n.socket = client.socket /\ n.response = client.response
    BY <2>1, AfterWriteState
  <2>3. HandleError(n, a) /\ n.socket # "open"
    BY <1>2, <2>1, <2>2
  <2> HIDE DEF n
  <2>4. QED
    BY <2>1, <2>2, <2>3, HandleErrorAnswer
<1>3. QED
  BY <1>1, <1>2 DEF HandleBodyResponse

LEMMA BodyReadFailsAnswer ==
  ASSUME ServiceInv, OrderInv, AnswerInv, NEW a \in Article, BodyReadFails(a)
  PROVE  AnswerInv'
<1> DEFINE n == CancelTimeout(client)
<1>1. /\ client.op[a] \in Reading /\ client.response = <<>> /\ client.socket # "open"
      /\ HandleError(n, a)
  BY DEF BodyReadFails, ReadFails
<1>2. /\ Quiet(n, client) /\ Fits(n) /\ a \in Command
  BY CancelTimeoutState, ArticleUsed
<1> HIDE DEF n
<1>3. /\ n.op = client.op /\ n.active = client.active /\ n.life = client.life
      /\ n.socket = client.socket /\ n.response = client.response
  BY <1>2 DEF Quiet
<1>4. client.op[a] \in {"status", "data"}
  BY <1>1, <1>2, <1>3 DEF Fits, ArticleOp, Reading
<1>5. FitsBut(n, a)
  BY <1>2, <1>3, <1>4, ReaderAside
<1>6. QED
  BY <1>1, <1>3, <1>4, <1>5, HandleErrorAnswer

LEMMA RunGrouplessAnswer ==
  ASSUME ServiceInv, OrderInv, AnswerInv, NEW a \in Article, RunGroupless(a)
  PROVE  AnswerInv'
<1> DEFINE n == client
<1>1. /\ FitsBut(n, a) /\ HasCapacity(n) /\ a \in setting.groupless /\ n.life = "up"
      /\ n.op[login] = "none" /\ End(n, a, "RetryOther")
  BY RunAside DEF RunGroupless
<1>2. n.response \in Seq(Line) /\ "RetryOther" \in Code /\ a \in Command /\ login \in Command
  BY ClientTypes, ArticleUsed DEF Code
<1>3. ASSUME Orderly PROVE Busy(n) = {}
  <2>1. setting.pipeline = 1 /\ IsFiniteSet(Busy(n))
    BY <1>1, <1>3 DEF Orderly, OrderInv, Ordered
  <2>2. Cardinality(Busy(n)) = 0
    BY <1>1, <2>1, FS_CardinalityType DEF HasCapacity
  <2>3. QED
    BY <2>1, <2>2, FS_EmptySet
<1>4. ASSUME NEW m, NEW arrived \in Seq(Line), Honest, Prefix(arrived, n.response),
             Ends(m, n, a, "RetryOther", arrived)
      PROVE  Aligned(m, setting.absent)
  <2>1. /\ m.response = n.response /\ m.socket = n.socket /\ m.life = n.life
    BY <1>1, <1>4 DEF Ends, Leaving
  <2>2. \A d \in Command : n.op[d] = "none"
    BY <1>3, <1>4 DEF Busy, Honest
  <2>3. \A d \in Command : m.op[d] = "none"
    BY <1>1, <1>2, <1>4, <2>2, FitsEnds
  <2>4. Busy(m) = Busy(n)
    BY <2>2, <2>3 DEF Busy
  <2>5. KeepsPlace(m, n) /\ SentFirst(m) /\ ~ Spoiled(n)
    BY <1>1, <2>2, <2>3 DEF KeepsPlace, SentFirst, Waits, Spoiled
  <2>6. Carried(m.response, n.response, Live(n)) /\ (Live(m) => Live(n))
    BY <2>1 DEF Carried, Live
  <2>7. \A d \in Article : d \in Command
    BY DEF Command
  <2>8. Remains(m, n)
    BY <1>1, <1>2, <2>1, <2>2, <2>3, <2>5, <2>6, <2>7 DEF Remains, Waits
  <2>9. Aligned(n, setting.absent)
    BY <1>4 DEF AnswerInv
  <2>10. n.response \in Seq(Line) /\ m.response \in Seq(Line)
    BY <1>2, <2>1
  <2>11. QED
    BY <2>8, <2>9, <2>10, AlignedStays
<1>5. n.op = client.op
  OBVIOUS
<1>6. QED
  BY <1>1, <1>2, <1>4, <1>5, EndAnswer

LEMMA DataKeeps ==
  ASSUME NEW n \in ClientRec, NEW a \in Article, NEW m, m = AsyncReadDataResponse(n, a)
  PROVE  m.life = n.life /\ m.writing = n.writing
<1> DEFINE op == [n.op EXCEPT ![a] = "data"]
<1>1. m = [n EXCEPT !.op = op, !.timer = "armed"]
  BY DEF AsyncReadDataResponse, SetTimeout, ClientRec
<1> HIDE DEF op
<1>2. QED
  BY <1>1 DEF ClientRec

\* The command that reads goes on with the lines of its article.
LEMMA DataAnswer ==
  ASSUME ServiceInv, OrderInv, AnswerInv, NEW a \in Article, client.op[a] \in {"status", "data"},
         client.response # <<>>, NEW n, n = Consumed, client' = AsyncReadDataResponse(n, a),
         setting' = setting, sentTwice' = sentTwice,
         \A d \in Article : /\ article'[d].state = article[d].state
                            /\ article'[d].request = article[d].request,
         Honest => /\ client.socket = "open" /\ client.op[a] = "data" =>
                        Head(client.response).is # "status"
                   /\ \A i \in DOMAIN client.response : ~ Refusal(client.response[i], a)
  PROVE  AnswerInv'
<1> DEFINE m == AsyncReadDataResponse(n, a)
           k == client
<1>1. /\ n \in ClientRec /\ n.op = k.op /\ n.writing = k.writing /\ n.life = k.life
      /\ n.socket = k.socket /\ n.response = Tail(k.response)
      /\ k.response \in Seq(Line) /\ Fits(k) /\ a \in Command /\ k.op \in [Command -> Op]
  BY ReadingState, ArticleUsed, ClientTypes DEF ClientRec
<1>2. ReadsData(m, n, a) /\ m.life = n.life /\ m.writing = n.writing
  BY <1>1, ReadDataEffect, DataKeeps
<1>3. client' = m
  OBVIOUS
<1> HIDE DEF m
<1>4. /\ \A d \in Command : m.op[d] = IF d = a THEN "data" ELSE k.op[d]
      /\ m.socket = k.socket /\ m.response = Tail(k.response)
      /\ m.life = k.life /\ m.writing = k.writing
  BY <1>1, <1>2 DEF ReadsData
<1>5. ASSUME Honest PROVE Aligned(m, setting.absent)
  <2>1. OneAtATime(k, setting.pipeline) /\ Aligned(k, setting.absent)
    BY <1>5 DEF Honest, OrderInv, Ordered, AnswerInv
  <2>2. Others(m, k, a) /\ m.op[a] \in {"none", "data"}
    BY <1>1, <1>4 DEF Others
  <2>3. Busy(m) = Busy(k)
    BY <1>1, <1>4 DEF Busy
  <2>4. Spoiled(k) => Spoiled(m)
    BY <1>4, <2>3 DEF Spoiled
  <2>5. Stray(m)
    BY <1>1, <1>4 DEF Stray
  <2>6. SentFirst(m)
    <3> SUFFICES ASSUME NEW c \in Command, m.op[c] = "sent" PROVE m.op[Head(m.writing)] = "sent"
      BY DEF SentFirst
    <3>1. k.op[c] = "sent"
      BY <1>4
    <3>2. k.op[Head(k.writing)] = "sent" /\ Head(k.writing) \in Command
      BY <1>1, <2>1, <3>1, HeadWriting DEF Aligned, SentFirst
    <3>3. QED
      BY <1>4, <3>2
  <2>7. /\ \A i \in DOMAIN k.response : ~ Refusal(k.response[i], a)
        /\ k.socket = "open" /\ k.op[a] = "data" => Head(k.response).is # "status"
    BY <1>5
  <2>8. k.op[a] \in {"status", "data"} /\ k.response # <<>>
    OBVIOUS
  <2> HIDE DEF k
  <2>9. QED
    BY <1>1, <1>4, <2>1, <2>2, <2>4, <2>5, <2>6, <2>7, <2>8, ReadAligned
<1>6. \A d \in Article : m.op[d] = "write" => article'[d].request > 0
  BY <1>4 DEF AnswerInv, Command
<1>7. QED
  BY <1>3, <1>5, <1>6, AnswerNext

\* The command that reads ends.
LEMMA EndReadAnswer ==
  ASSUME ServiceInv, OrderInv, AnswerInv, NEW a \in Article, client.op[a] \in {"status", "data"},
         client.response # <<>>, NEW n, n = Consumed,
         NEW code \in {"OK", "RetryOther", "ReconnectRetry"}, End(n, a, code),
         Honest => /\ code = "RetryOther" => a \in setting.absent
                   /\ client.socket = "open" /\ client.op[a] = "data" =>
                        Head(client.response).is # "status"
                   /\ \A i \in DOMAIN client.response : i # 1 /\ Refusal(client.response[i], a) =>
                        /\ code = "ReconnectRetry"
                        /\ i = 2 => Busy(client) = {a}
                   /\ \/ code = "ReconnectRetry" \/ Tail(client.response) = <<>>
                      \/ Head(Tail(client.response)).is = "status"
  PROVE  AnswerInv'
<1> DEFINE k == client
<1>1. /\ FitsBut(n, a) /\ n.op = k.op /\ n.life = k.life /\ n.active = k.active
      /\ n.socket = k.socket /\ n.response = Tail(k.response) /\ n.response \in Seq(Line)
      /\ k.response \in Seq(Line) /\ Fits(k) /\ a \in Command
  BY ReadingState, ArticleUsed
<1>2. code \in Code /\ n.op[a] # "none"
  BY <1>1 DEF Code
<1>3. ASSUME NEW m, NEW arrived \in Seq(Line), Honest, Prefix(arrived, n.response),
             Ends(m, n, a, code, arrived)
      PROVE  Aligned(m, setting.absent)
  <2>1. OneAtATime(k, setting.pipeline) /\ Aligned(k, setting.absent)
    BY <1>3 DEF Honest, OrderInv, Ordered, AnswerInv
  <2>2. OneAtATime(n, setting.pipeline)
    BY <1>1, <2>1, SameOrder
  <2>3. /\ \A d, e \in Busy(m) : d = e
        /\ m.op[a] = "none" /\ SentFirst(m)
        /\ code = "ReconnectRetry" => m.life # "up"
        /\ Spoiled(n) => Spoiled(m)
        /\ Others(m, n, a)
    BY <1>1, <1>2, <1>3, <2>2, EndsPlaces
  <2>4. m.socket = k.socket /\ m.response = Tail(k.response)
    BY <1>1, <1>3 DEF Ends
  <2>5. (Spoiled(k) => Spoiled(m)) /\ Others(m, k, a)
    BY <1>1, <2>3 DEF Spoiled, Busy, Others
  <2>6. code = "ReconnectRetry" => Spoiled(m)
    BY <2>3 DEF Spoiled
  <2>7. Stray(m)
    BY <1>3, <2>4, <2>6 DEF Stray
  <2>8. \A i \in DOMAIN k.response : i # 1 /\ Refusal(k.response[i], a) =>
          /\ m.op[a] = "none" /\ Spoiled(m)
          /\ i = 2 => Busy(k) = {a}
    BY <1>3, <2>3, <2>6
  <2>9. /\ k.op[a] \in {"status", "data"} /\ k.response # <<>> /\ m.op[a] \in {"none", "data"}
        /\ k.socket = "open" /\ k.op[a] = "data" => Head(k.response).is # "status"
    BY <1>3, <2>3
  <2> HIDE DEF k
  <2>10. QED
    BY <1>1, <2>1, <2>3, <2>4, <2>5, <2>7, <2>8, <2>9, ReadAligned
<1>4. Honest /\ code = "RetryOther" => a \in setting.absent \cup setting.groupless
  OBVIOUS
<1>5. QED
  BY <1>1, <1>2, <1>3, <1>4, EndAnswer

\* After an answer comes the next one.
LEMMA NextStatus ==
  ASSUME NEW r \in Seq(Line), NEW open, Script(r, open), r # <<>>, Complete(Head(r))
  PROVE  Tail(r) = <<>> \/ Head(Tail(r)).is = "status"
<1>1. /\ Len(r) \in Nat /\ Len(r) > 0 /\ DOMAIN r = 1 .. Len(r) /\ Head(r) = r[1]
      /\ Len(Tail(r)) = Len(r) - 1 /\ \A i \in 1 .. Len(r) - 1 : Tail(r)[i] = r[i + 1]
      /\ Tail(r) \in Seq(Line)
  BY EmptySeq
<1>2. SUFFICES ASSUME Tail(r) # <<>> PROVE Head(Tail(r)).is = "status"
  OBVIOUS
<1>3. Len(Tail(r)) > 0 /\ Head(Tail(r)) = Tail(r)[1]
  BY <1>1, <1>2, EmptySeq
<1>4. 1 \in DOMAIN r /\ 2 \in DOMAIN r /\ 2 = 1 + 1 /\ Head(Tail(r)) = r[2]
  BY <1>1, <1>3
<1>5. Follows(r[2], r[1]) \/ r[2].is = "status"
  BY <1>4 DEF Script
<1>6. QED
  BY <1>1, <1>4, <1>5 DEF Follows, Complete

LEMMA ReadStatusAnswer ==
  ASSUME ServiceInv, OrderInv, AnswerInv, NEW a \in Article, ReadStatus(a)
  PROVE  AnswerInv'
<1> DEFINE n == Consumed
           k == client
           r == k.response
           line == Head(r)
           absent == setting.absent
<1>1. k.op[a] = "status" /\ r # <<>>
  BY DEF ReadStatus, Receives
<1>2. \/ Expected(line, a) /\ Continue(AsyncReadDataResponse(n, a))
      \/ Missing(line) /\ End(n, a, "RetryOther")
      \/ ~ Expected(line, a) /\ ~ Missing(line) /\ End(n, a, "ReconnectRetry")
  BY DEF ReadStatus
<1>3. r \in Seq(Line) /\ line \in Line /\ a \in Command /\ k.op[login] = "none"
  BY <1>1, ReadingState, ArticleUsed
<1>4. 1 \in DOMAIN r /\ line = r[1] /\ DOMAIN r = 1 .. Len(r) /\ Len(r) \in Nat
  BY <1>1, <1>3, EmptySeq
<1>5. a \in Busy(k)
  BY <1>1, <1>3 DEF Busy
<1> HIDE DEF r, line, absent
<1>6. ASSUME Honest
      PROVE  /\ OneAtATime(k, setting.pipeline) /\ Script(r, Live(k))
             /\ Refused(k, absent) /\ Found(k, absent) /\ Stray(k) /\ OddLast(k)
  BY <1>6 DEF Honest, OrderInv, Ordered, AnswerInv, Aligned, absent, r
<1>7. ASSUME Honest, NEW b \in Command, Refusal(line, b)
      PROVE  b = a /\ a \in absent /\ \A i \in DOMAIN r : Refusal(r[i], a) => i = 1
  <2>1. RefusedAt(k, absent, 1, b)
    BY <1>4, <1>6, <1>7 DEF Refused, r
  <2>2. b = a
    <3>1. SUFFICES ASSUME b # a PROVE FALSE
      OBVIOUS
    <3>2. Ahead(k, b, a)
      BY <1>1, <1>3, <2>1, <3>1 DEF RefusedAt, First
    <3>3. QED
      BY <1>1, <3>2 DEF Ahead
  <2>3. QED
    BY <2>1, <2>2 DEF RefusedAt, r
<1>8. CASE Expected(line, a) /\ Continue(AsyncReadDataResponse(n, a))
  <2>1. line.is = "status" /\ line.code = 222 /\ line.of = a
    BY <1>8 DEF Expected, Status
  <2>2. ASSUME Honest, NEW i \in DOMAIN r PROVE ~ Refusal(r[i], a)
    <3>1. a \notin absent
      BY <1>4, <1>6, <2>1, <2>2 DEF Found, r
    <3>2. Refusal(r[i], a) => a \in absent
      BY <1>3, <1>6, <2>2 DEF Refused, RefusedAt, r
    <3>3. QED
      BY <3>1, <3>2
  <2>3. client' = AsyncReadDataResponse(n, a) /\ setting' = setting /\ sentTwice' = sentTwice
        /\ article' = article
    BY <1>8 DEF Continue
  <2>4. client.op[a] \in {"status", "data"} /\ client.op[a] # "data" /\ client.response # <<>>
    BY <1>1 DEF r
  <2>5. Honest => \A i \in DOMAIN client.response : ~ Refusal(client.response[i], a)
    BY <2>2 DEF r
  <2> HIDE DEF n, k
  <2>6. QED
    BY <2>3, <2>4, <2>5, DataAnswer DEF n
<1>9. CASE Missing(line) /\ End(n, a, "RetryOther")
  <2>1. line.is = "status" /\ line.code = 430
    BY <1>9 DEF Missing, Status
  <2>2. line.of \in Command
    BY <1>3, <2>1 DEF Line
  <2>3. Refusal(line, line.of) /\ Complete(line)
    BY <2>1 DEF Refusal, Complete
  <2>4. Honest => a \in absent /\ \A i \in DOMAIN r : Refusal(r[i], a) => i = 1
    BY <1>7, <2>2, <2>3
  <2>5. Honest => Tail(r) = <<>> \/ Head(Tail(r)).is = "status"
    BY <1>1, <1>3, <1>6, <2>3, NextStatus DEF line
  <2>6. client.op[a] \in {"status", "data"} /\ client.op[a] # "data" /\ client.response # <<>>
    BY <1>1 DEF r
  <2> HIDE DEF n, k
  <2>7. QED
    BY <1>9, <2>4, <2>5, <2>6, EndReadAnswer DEF n, r, absent, k
<1>10. CASE ~ Expected(line, a) /\ ~ Missing(line) /\ End(n, a, "ReconnectRetry")
  <2>1. ASSUME Honest, Refusal(r[2], a), 2 \in DOMAIN r PROVE Busy(k) = {a}
    <3>1. RefusedAt(k, absent, 2, a)
      BY <1>3, <1>6, <2>1 DEF Refused, r
    <3>2. Complete(line)
      <4>1. 2 = 1 + 1
        OBVIOUS
      <4>2. QED
        BY <1>4, <3>1, <4>1 DEF RefusedAt, r
    <3>3. CASE line.is # "status"
      <4>1. \A d \in Article : k.op[d] # "data"
        <5> SUFFICES ASSUME NEW d \in Article, k.op[d] = "data" PROVE FALSE
          OBVIOUS
        <5>1. Reader(k, d) /\ Reader(k, a) /\ d \in Command
          BY <1>1 DEF Reader, Reading, Command
        <5>2. d = a
          BY <1>3, <1>6, <2>1, <5>1 DEF OneAtATime
        <5>3. QED
          BY <1>1, <5>2
      <4>2. Spoiled(k)
        BY <1>1, <1>6, <2>1, <3>3, <4>1 DEF Stray, r, line
      <4>3. QED
        BY <1>5, <4>2 DEF Spoiled
    <3>4. CASE line.is = "status"
      <4>1. line.code \notin {222, 430}
        BY <1>10, <3>2, <3>4 DEF Complete, Missing, Status
      <4>2. Odd(r[1])
        BY <1>4, <3>4, <4>1 DEF Odd
      <4>3. 1 = Len(r)
        BY <1>3, <1>4, <1>5, <1>6, <2>1, <4>2 DEF OddLast, r
      <4>4. 2 \in 1 .. Len(r)
        BY <1>4, <2>1
      <4>5. \A u : 1 = u => 2 \notin 1 .. u
        OBVIOUS
      <4>6. FALSE
        BY <4>3, <4>4, <4>5, Zenon
      <4>7. QED
        BY <4>6
    <3>5. QED
      BY <3>3, <3>4
  <2>2. client.op[a] \in {"status", "data"} /\ client.op[a] # "data" /\ client.response # <<>>
    BY <1>1 DEF r
  <2>3. Honest => \A i \in DOMAIN client.response : i # 1 /\ Refusal(client.response[i], a) =>
          (i = 2 => Busy(client) = {a})
    BY <2>1 DEF r
  <2> HIDE DEF n, k
  <2>4. QED
    BY <1>10, <2>2, <2>3, EndReadAnswer DEF n
<1>11. QED
  BY <1>2, <1>8, <1>9, <1>10, Zenon

LEMMA ReadDataAnswer ==
  ASSUME ServiceInv, OrderInv, AnswerInv, NEW a \in Article, ReadData(a)
  PROVE  AnswerInv'
<1> DEFINE n == Consumed
           k == client
           r == k.response
           line == Head(r)
           rec == [article[a] EXCEPT !.got = Append(@, line)]
<1>1. k.op[a] = "data" /\ r # <<>>
  BY DEF ReadData, Receives
<1>2. \/ line.is = "end" /\ End(n, a, "OK")
      \/ /\ client' = AsyncReadDataResponse(n, a)
         /\ article' = [article EXCEPT ![a] = rec] /\ setting' = setting /\ sentTwice' = sentTwice
  BY DEF ReadData
<1>3. r \in Seq(Line) /\ a \in Command
  BY <1>1, ReadingState, ArticleUsed
<1>4. article \in [Article -> ArticleRec]
  BY ArticleUsed
<1> HIDE DEF r
<1>5. ASSUME Honest
      PROVE  /\ Script(r, Live(k)) /\ InData(article[a].got, r, Live(k), a)
             /\ Refused(k, setting.absent)
  <2>1. Script(r, Live(k)) /\ Got(k, a, article[a])
    BY <1>5 DEF Honest, OrderInv, Ordered, r
  <2>2. QED
    BY <1>1, <1>5, <2>1 DEF Got, AnswerInv, Aligned, r
<1>6. ASSUME Honest, NEW i \in DOMAIN r PROVE ~ Refusal(r[i], a)
  BY <1>1, <1>3, <1>5, <1>6 DEF Refused, RefusedAt, Waits, r
<1>7. ASSUME Honest, k.socket = "open" PROVE line.is # "status"
  <2>1. Live(k) = TRUE
    BY <1>7 DEF Live
  <2>2. line \in {DataLine(a), EndLine(a)}
    BY <1>1, <1>5, <1>7, <2>1 DEF InData, Awaits
  <2>3. QED
    BY <2>2 DEF DataLine, EndLine
<1>8. client.op[a] \in {"status", "data"} /\ client.response # <<>>
  BY <1>1 DEF r
<1>9. CASE line.is = "end" /\ End(n, a, "OK")
  <2>1. Complete(line)
    BY <1>9 DEF Complete
  <2>2. Honest => Tail(r) = <<>> \/ Head(Tail(r)).is = "status"
    BY <1>1, <1>3, <1>5, <2>1, NextStatus
  <2>3. Honest => /\ client.socket = "open" => Head(client.response).is # "status"
                  /\ \A i \in DOMAIN client.response : ~ Refusal(client.response[i], a)
                  /\ Tail(client.response) = <<>> \/ Head(Tail(client.response)).is = "status"
    BY <1>6, <1>7, <2>2 DEF r
  <2>4. End(n, a, "OK")
    BY <1>9
  <2> HIDE DEF n, k, line
  <2>5. QED
    BY <1>8, <2>3, <2>4, EndReadAnswer DEF n
<1>10. CASE /\ client' = AsyncReadDataResponse(n, a)
            /\ article' = [article EXCEPT ![a] = rec] /\ setting' = setting /\ sentTwice' = sentTwice
  <2>1. rec.state = article[a].state /\ rec.request = article[a].request
    BY <1>4 DEF ArticleRec
  <2> HIDE DEF rec
  <2>2. \A d \in Article : article'[d].state = article[d].state /\ article'[d].request = article[d].request
    BY <1>4, <1>10, <2>1
  <2>3. Honest => /\ client.socket = "open" => Head(client.response).is # "status"
                  /\ \A i \in DOMAIN client.response : ~ Refusal(client.response[i], a)
    BY <1>6, <1>7 DEF r
  <2> HIDE DEF n, k, line
  <2>4. QED
    BY <1>8, <1>10, <2>2, <2>3, DataAnswer DEF n
<1>11. QED
  BY <1>2, <1>9, <1>10, Zenon

-----------------------------------------------------------------------------
(* All steps.                                                              *)

LEMMA AnswerStarts ==
  ASSUME Init
  PROVE  AnswerInv
<1> DEFINE r == [state |-> "waiting", request |-> 0, got |-> <<>>]
<1>1. client = NewClient /\ article = [a \in Article |-> r]
  BY DEF Init
<1>2. r.state # "missing"
  OBVIOUS
<1> HIDE DEF r
<1>3. \A a \in Article : client.op[a] = "none" /\ article[a].state # "missing"
  BY <1>1, <1>2, NewClientFits
<1>4. Aligned(client, setting.absent)
  BY <1>1, NewClientAligned
<1>5. QED
  BY <1>3, <1>4 DEF AnswerInv

LEMMA AnswerSteps ==
  ASSUME ServiceInv, OrderInv, AnswerInv, [Next]_vars
  PROVE  AnswerInv'
<1>1. CASE Next
  <2>1. CASE Login
    BY <2>1, HandleResolveAnswer, HandleConnectAnswer, HandleAsyncHandshakeAnswer,
       ReadLoginLineAnswer, LoginReadFailsAnswer, WriteLoginAnswer, HandleLoginRequestAnswer
    DEF Login
  <2>2. ASSUME NEW a \in Article, RunGroupless(a) PROVE AnswerInv'
    BY <2>2, RunGrouplessAnswer
  <2>3. ASSUME NEW a \in Article, Run(a) PROVE AnswerInv'
    BY <2>3, RunAnswer
  <2>4. ASSUME NEW a \in Article, Body(a) PROVE AnswerInv'
    BY <2>4, WriteBodyAnswer, HandleBodyResponseAnswer, ReadStatusAnswer, ReadDataAnswer,
       BodyReadFailsAnswer DEF Body
  <2>5. CASE TimerExpires \/ TimerFires \/ Disconnected \/ OnStopped \/ ServerCloses
    BY <2>5, TimerExpiresAnswer, TimerFiresAnswer, DisconnectedAnswer, OnStoppedAnswer,
       ServerClosesAnswer
  <2>6. QED
    BY <1>1, <2>1, <2>2, <2>3, <2>4, <2>5 DEF Next
<1>2. CASE UNCHANGED vars
  <2>1. client.response \in Seq(Line)
    BY ClientTypes
  <2>2. QED
    BY <1>2, <2>1, StillAnswer DEF vars
<1>3. QED
  BY <1>1, <1>2

LEMMA AnswerAlways == Spec => [](ServiceInv /\ OrderInv /\ AnswerInv)
<1>1. Init => ServiceInv /\ OrderInv /\ AnswerInv
  BY ServiceStarts, OrderStarts, AnswerStarts
<1>2. (ServiceInv /\ OrderInv /\ AnswerInv) /\ [Next]_vars => (ServiceInv /\ OrderInv /\ AnswerInv)'
  BY ServiceSteps, OrderSteps, AnswerSteps DEF KeepsService
<1>3. QED
  BY <1>1, <1>2, PTL DEF Spec

\* Where the pipeline has room for one command, or for two that all name their
\* groups, an article is recorded as missing only on a server that does not have
\* it, whatever commands that failed left on the connection; unless a missing
\* article was asked for twice by one write.
THEOREM RefusedIsAbsent == Spec => []MissingIsMissing
<1>1. AnswerInv => MissingIsMissing
  BY DEF AnswerInv, Honest, MissingIsMissing
<1>2. QED
  BY <1>1, AnswerAlways, PTL
==============================================================================
