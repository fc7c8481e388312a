-------------------------- MODULE BinanceWsProofs --------------------------
(***************************************************************************)
(* Theorems of BinanceWs for any PAIRS, any backoff and any traffic.       *)
(***************************************************************************)
EXTENDS BinanceWs, FoldLemmas, TLAPS

(* What the sleep adds to the next reconnect keeps within its bounds.      *)
LEMMA NextBackoffIsBounded ==
    ASSUME NEW b \in BackoffInitial .. BackoffMax
    PROVE  NextBackoff(b) \in BackoffInitial .. BackoffMax
  BY FeedAssumption DEF FeedAssumption, NextBackoff

(* The types hold at the start.                                            *)
LEMMA TypeInit == Init => TypeOK
<1> SUFFICES ASSUME Init PROVE TypeOK
  OBVIOUS
<1>1. symbols \in Seq(Symbols)
  <2>1. PICK env \in Environments : symbols = Subscribed(env)
    BY DEF Init
  <2>2. env \in Seq(Symbols)
    BY FeedAssumption DEF FeedAssumption
  <2>3. <<"solusdc">> \in Seq(Symbols)
    BY FeedAssumption DEF FeedAssumption
  <2>4. QED
    BY <2>1, <2>2, <2>3 DEF Subscribed
<1>2. pairs \in [Range(symbols) -> Classes \cup {NoQuote}]
  BY DEF Init
<1>3. backoff \in BackoffInitial .. BackoffMax /\ 0 \in 0 .. BackoffMax /\ 0 \in 0 .. SessionCap
  BY FeedAssumption DEF Init, FeedAssumption
<1>4. QED
  BY <1>1, <1>2, <1>3 DEF Init, TypeOK

(* The end of a session keeps the types.                                   *)
LEMMA EndKeepsTypes ==
    ASSUME TypeOK, NEW r \in {"Cancelled", "Disconnected", "Error"}, EndSession(r)
    PROVE  TypeOK'
<1>1. pc' \in {"stopped", "backoff"} /\ result' \in {"none", "Cancelled", "Disconnected", "Error"}
  BY DEF EndSession, AfterSession
<1>2. left' \in 0 .. BackoffMax /\ waited' \in 0 .. BackoffMax /\ sessions' \in 0 .. SessionCap
  BY FeedAssumption DEF EndSession, FeedAssumption, TypeOK
<1>3. QED
  BY <1>1, <1>2 DEF EndSession, TypeOK, frames

(* Every sleep is as long as the backoff, and no session owes more than    *)
(* the pong it is sending.                                                 *)
SleepsBackoff == pc = "backoff" => left + waited = backoff
OwesOne == /\ pc \in {"stream", "ping"} => owed = 0
           /\ pc = "pong" => owed = 1

(* A frame read keeps the types.                                           *)
LEMMA TextKeepsTypes ==
    ASSUME TypeOK, OtherText \/ \E s \in Range(symbols), class \in Classes : Ticker(s, class)
    PROVE  TypeOK'
<1>1. CASE OtherText
  BY <1>1 DEF OtherText, Text, TypeOK, retry
<1>2. ASSUME NEW s \in Range(symbols), NEW class \in Classes, Ticker(s, class)
      PROVE  TypeOK'
  <2>1. pairs' \in [Range(symbols) -> Classes \cup {NoQuote}]
    BY <1>2 DEF Ticker, TypeOK
  <2>2. good' \in Nat /\ updates' \in Nat /\ parseErrs' \in Nat /\ texts' \in Nat
    BY <1>2 DEF Ticker, Text, TypeOK
  <2>3. QED
    BY <1>2, <2>1, <2>2 DEF Ticker, Text, TypeOK, retry
<1>3. QED
  BY <1>1, <1>2

(* Every step keeps the types.  A sleep waits no longer than the backoff   *)
(* and there is a pong to send when one is sent.                           *)
LEMMA TypeStep == TypeOK /\ SleepsBackoff /\ OwesOne /\ [Next]_vars => TypeOK'
<1> SUFFICES ASSUME TypeOK, SleepsBackoff, OwesOne, [Next]_vars PROVE TypeOK'
  OBVIOUS
<1>1. CASE LoopStops \/ StartSession \/ CancelSeen \/ Cancel
  BY <1>1 DEF LoopStops, StartSession, CancelSeen, Cancel, TypeOK, retry, frames
<1>2. CASE SleepOver
  BY <1>2, NextBackoffIsBounded DEF SleepOver, TypeOK, frames
<1>3. CASE Tick
  <2>1. left' \in 0 .. BackoffMax /\ waited' \in 0 .. BackoffMax
    BY <1>3, FeedAssumption DEF Tick, TypeOK, SleepsBackoff, FeedAssumption
  <2>2. QED
    BY <1>3, <2>1 DEF Tick, TypeOK, frames
<1>4. CASE ConnectFails \/ Disconnected \/ ReadFails \/ PingFails \/ PongFails \/ Closed
  BY <1>4, EndKeepsTypes
  DEF ConnectFails, Disconnected, ReadFails, PingFails, PongFails, Closed
<1>5. CASE Connected \/ PingDue \/ PingSent
  BY <1>5 DEF Connected, PingDue, PingSent, TypeOK, retry, frames
<1>6. CASE PingReceived \/ PongSent
  BY <1>6 DEF PingReceived, PongSent, TypeOK, OwesOne, retry
<1>7. CASE OtherText \/ \E s \in Range(symbols), class \in Classes : Ticker(s, class)
  BY <1>7, TextKeepsTypes
<1>8. CASE UNCHANGED vars
  BY <1>8 DEF vars, retry, frames, TypeOK
<1>9. QED
  BY <1>1, <1>2, <1>3, <1>4, <1>5, <1>6, <1>7, <1>8 DEF Next, Loop, Session

(* The sleep of a session that ended, step by step.                        *)
LEMMA SleepStep == TypeOK /\ SleepsBackoff /\ [Next]_vars => SleepsBackoff'
<1> SUFFICES ASSUME TypeOK, SleepsBackoff, [Next]_vars PROVE SleepsBackoff'
  OBVIOUS
<1>1. CASE ConnectFails \/ Disconnected \/ ReadFails \/ PingFails \/ PongFails \/ Closed
  BY <1>1
  DEF ConnectFails, Disconnected, ReadFails, PingFails, PongFails, Closed, EndSession, SleepsBackoff, TypeOK
<1>2. CASE Tick
  BY <1>2 DEF Tick, SleepsBackoff, TypeOK
<1>3. CASE Loop /\ ~Tick
  BY <1>3 DEF Loop, LoopStops, StartSession, SleepOver, SleepsBackoff
<1>4. CASE \/ Connected \/ PingDue \/ PingSent \/ PingReceived \/ PongSent
           \/ OtherText \/ \E s \in Range(symbols), class \in Classes : Ticker(s, class)
  BY <1>4 DEF Connected, PingDue, PingSent, PingReceived, PongSent, OtherText,
              Ticker, Text, SleepsBackoff
<1>5. CASE CancelSeen \/ Cancel \/ UNCHANGED vars
  BY <1>5 DEF CancelSeen, Cancel, vars, retry, SleepsBackoff
<1>6. QED
  BY <1>1, <1>2, <1>3, <1>4, <1>5 DEF Next, Session

(* The pongs owed, step by step.                                           *)
LEMMA OwesStep == OwesOne /\ [Next]_vars => OwesOne'
<1> SUFFICES ASSUME OwesOne, [Next]_vars PROVE OwesOne'
  OBVIOUS
<1>1. CASE ConnectFails \/ Disconnected \/ ReadFails \/ PingFails \/ PongFails \/ Closed
  BY <1>1
  DEF ConnectFails, Disconnected, ReadFails, PingFails, PongFails, Closed, EndSession, AfterSession, OwesOne
<1>2. CASE Loop \/ CancelSeen \/ Cancel \/ UNCHANGED vars
  BY <1>2 DEF Loop, LoopStops, StartSession, SleepOver, Tick, CancelSeen, Cancel,
              vars, frames, OwesOne
<1>3. CASE Connected \/ PingDue \/ PingSent \/ PingReceived \/ PongSent
  BY <1>3 DEF Connected, PingDue, PingSent, PingReceived, PongSent, frames, OwesOne
<1>4. CASE OtherText \/ \E s \in Range(symbols), class \in Classes : Ticker(s, class)
  BY <1>4 DEF OtherText, Ticker, Text, OwesOne
<1>5. QED
  BY <1>1, <1>2, <1>3, <1>4 DEF Next, Session

Inv == TypeOK /\ SleepsBackoff /\ OwesOne

(* The three together are inductive.                                       *)
THEOREM FeedInvariant == Spec => []Inv
<1>1. Init => Inv
  BY TypeInit DEF Init, Inv, SleepsBackoff, OwesOne
<1>2. Inv /\ [Next]_vars => Inv'
  BY TypeStep, SleepStep, OwesStep DEF Inv
<1>3. QED
  BY <1>1, <1>2, PTL DEF Spec

(* Every variable keeps its type.                                          *)
THEOREM TypeCorrect == Spec => []TypeOK
<1>1. Inv => TypeOK
  BY DEF Inv
<1>2. QED
  BY <1>1, FeedInvariant, PTL

(* A session that goes on has answered every ping of the server.           *)
THEOREM AnswersPings == Spec => []EveryPingAnswered
<1>1. Inv => EveryPingAnswered
  BY DEF Inv, OwesOne, EveryPingAnswered
<1>2. QED
  BY <1>1, FeedInvariant, PTL

-----------------------------------------------------------------------------


(* Before each connection but the first the feed waits at least the        *)
(* initial backoff, however its sessions end: it never hammers Binance.    *)
NeverHammers ==
    [][pc = "loop" /\ pc' = "connect" /\ sessions > 0 => waited >= BackoffInitial]_vars

(* A connection after the first comes after a whole sleep.                 *)
THEOREM PausesBeforeReconnect == Spec => NeverHammers
<1> DEFINE Slept == pc = "loop" /\ sessions > 0 => waited >= BackoffInitial
<1>1. Init => Slept
  BY DEF Init
<1>2. Inv /\ Slept /\ [Next]_vars => Slept'
  <2> SUFFICES ASSUME Inv, Slept, [Next]_vars PROVE Slept'
    OBVIOUS
  <2>1. CASE SleepOver
    BY <2>1, FeedAssumption DEF SleepOver, Inv, SleepsBackoff, TypeOK, FeedAssumption
  <2>2. CASE LoopStops \/ StartSession \/ Tick \/ CancelSeen \/ Cancel \/ UNCHANGED vars
    BY <2>2 DEF LoopStops, StartSession, Tick, CancelSeen, Cancel, vars, retry
  <2>3. CASE ConnectFails \/ Disconnected \/ ReadFails \/ PingFails \/ PongFails \/ Closed
    BY <2>3
    DEF ConnectFails, Disconnected, ReadFails, PingFails, PongFails, Closed, EndSession, AfterSession
  <2>4. CASE Connected \/ PingDue \/ PingSent \/ PingReceived \/ PongSent
    BY <2>4 DEF Connected, PingDue, PingSent, PingReceived, PongSent
  <2>5. CASE OtherText \/ \E s \in Range(symbols), class \in Classes : Ticker(s, class)
    BY <2>5 DEF OtherText, Ticker, Text
  <2>6. QED
    BY <2>1, <2>2, <2>3, <2>4, <2>5 DEF Next, Loop, Session
<1>3. Slept => (pc = "loop" /\ pc' = "connect" /\ sessions > 0 => waited >= BackoffInitial)
  OBVIOUS
<1>4. QED
  BY <1>1, <1>2, <1>3, FeedInvariant, PTL DEF Spec, NeverHammers

-----------------------------------------------------------------------------
(* The initial backoff doubled n times is what its recursion says.         *)
LEMMA Doubles ==
    /\ Doubled[0] = BackoffInitial
    /\ \A n \in Nat : Doubled[n] \in Nat \ {0} /\ Doubled[n + 1] = 2 * Doubled[n]
<1> DEFINE Obeys(f) == f = [n \in Nat |-> IF n = 0 THEN BackoffInitial ELSE 2 * f[n - 1]]
<1>1. \E f : Obeys(f)
  <2> DEFINE V == Nat  step == [v \in Nat |-> 2 * v]
  <2>1. BackoffInitial \in V /\ step \in [V -> V]
    BY FeedAssumption DEF FeedAssumption
  <2>2. PICK f \in [Nat -> V] : f[0] = BackoffInitial /\ \A n \in Nat : f[n + 1] = step[f[n]]
    <3> HIDE DEF V, step
    <3> QED BY <2>1, IterationExists
  <2>3. ASSUME NEW n \in Nat PROVE f[n] = IF n = 0 THEN BackoffInitial ELSE 2 * f[n - 1]
    <3>1. CASE n = 0
      BY <2>2, <3>1
    <3>2. CASE n # 0
      <4>1. n - 1 \in Nat /\ (n - 1) + 1 = n
        BY <3>2
      <4>2. f[n] = step[f[n - 1]] /\ f[n - 1] \in Nat
        BY <2>2, <4>1
      <4> QED BY <3>2, <4>2
    <3> QED BY <3>1, <3>2
  <2>4. Obeys(f)
    BY <2>3
  <2> QED BY <2>4
<1>2. Doubled = CHOOSE f : Obeys(f)
  BY DEF Doubled
<1>3. Obeys(Doubled)
  BY <1>1, <1>2
<1>4. Doubled[0] = BackoffInitial
  BY <1>3
<1>5. ASSUME NEW n \in Nat PROVE Doubled[n + 1] = 2 * Doubled[n]
  BY <1>3
<1> DEFINE S == {n \in Nat : Doubled[n] \in Nat \ {0}}
<1>6. 0 \in S
  BY <1>4, FeedAssumption DEF FeedAssumption
<1>7. ASSUME NEW n \in Nat, n \in S PROVE n + 1 \in S
  BY <1>5, <1>7
<1>8. Nat \subseteq S
  <2> HIDE DEF S
  <2> QED BY <1>6, <1>7, SetInduction
<1> QED BY <1>4, <1>5, <1>8

(* The pause grows with the sessions, and as the backoff does.             *)
LEMMA DueGrows ==
    ASSUME NEW n \in Nat \ {0}
    PROVE  /\ DueAfter(n) \in Nat /\ DueAfter(n + 1) \in Nat
           /\ DueAfter(n + 1) >= DueAfter(n)
           /\ \A b \in Nat : b >= DueAfter(n) => NextBackoff(b) >= DueAfter(n + 1)
<1>1. n - 1 \in Nat /\ (n - 1) + 1 = n /\ BackoffMax \in Nat
  BY FeedAssumption DEF FeedAssumption
<1> DEFINE d == Doubled[n - 1]  e == Doubled[n]
<1>2. d \in Nat /\ d > 0 /\ e = 2 * d
  BY <1>1, Doubles
<1>3. /\ DueAfter(n) = IF d < BackoffMax THEN d ELSE BackoffMax
      /\ DueAfter(n + 1) = IF e < BackoffMax THEN e ELSE BackoffMax
  <2>1. (n + 1) - 1 = n
    OBVIOUS
  <2> QED BY <2>1 DEF DueAfter
<1> HIDE DEF d, e
<1> QED BY <1>1, <1>2, <1>3 DEF NextBackoff

(* What the next sleep, and the one at hand, are long at least.            *)
Grown ==
    /\ pc \notin {"backoff", "stopped"} => backoff >= DueAfter(sessions + 1)
    /\ pc = "backoff" => sessions > 0 /\ backoff >= DueAfter(sessions)
    /\ pc = "loop" /\ sessions > 0 => waited >= DueAfter(sessions)

(* The first sleep is to be the configured one, at least.                  *)
LEMMA GrownInit == Init => Grown
<1>1. DueAfter(1) <= BackoffInitial
  <2>1. 1 - 1 = 0 /\ BackoffInitial \in Nat /\ BackoffMax \in Nat
    BY FeedAssumption DEF FeedAssumption
  <2> QED BY <2>1, Doubles DEF DueAfter
<1> QED BY <1>1 DEF Init, Grown

(* Each step of the task, of the server or of the clock keeps Grown.       *)
LEMMA GrownStep == Inv /\ Grown /\ [Next]_vars => Grown'
<1> SUFFICES ASSUME Inv, Grown, [Next]_vars PROVE Grown'
  OBVIOUS
<1>1. /\ sessions \in Nat /\ sessions <= SessionCap /\ backoff \in Nat /\ left \in Nat /\ waited \in Nat
      /\ SessionCap \in Nat /\ SessionCap > 0
  BY FeedAssumption DEF Inv, TypeOK, FeedAssumption
<1>2. \A n \in Nat \ {0} : /\ DueAfter(n) \in Nat /\ DueAfter(n + 1) \in Nat
                           /\ DueAfter(n + 1) >= DueAfter(n)
  BY DueGrows
<1>3. CASE ConnectFails \/ Disconnected \/ ReadFails \/ PingFails \/ PongFails \/ Closed
  <2>1. /\ pc \notin {"backoff", "stopped"} /\ pc' \in {"backoff", "stopped"} /\ backoff' = backoff
        /\ sessions' = IF sessions < SessionCap THEN sessions + 1 ELSE sessions
    BY <1>3
    DEF ConnectFails, Disconnected, ReadFails, PingFails, PongFails, Closed, EndSession, AfterSession
  <2>2. backoff >= DueAfter(sessions + 1)
    BY <2>1 DEF Grown
  <2>3. sessions' > 0 /\ backoff' >= DueAfter(sessions')
    <3>1. CASE sessions < SessionCap
      BY <1>1, <2>1, <2>2, <3>1
    <3>2. CASE ~(sessions < SessionCap)
      <4>1. sessions \in Nat \ {0} /\ sessions' = sessions
        BY <1>1, <2>1, <3>2
      <4> QED BY <1>1, <1>2, <2>1, <2>2, <4>1
    <3> QED BY <3>1, <3>2
  <2> QED BY <2>1, <2>3 DEF Grown
<1>4. CASE SleepOver
  <2>1. /\ pc = "backoff" /\ left = 0 /\ pc' = "loop" /\ backoff' = NextBackoff(backoff)
        /\ sessions' = sessions /\ waited' = waited
    BY <1>4 DEF SleepOver
  <2>2. left + waited = backoff
    BY <2>1 DEF Inv, SleepsBackoff
  <2>3. sessions > 0 /\ backoff >= DueAfter(sessions)
    BY <2>1 DEF Grown
  <2>4. NextBackoff(backoff) >= DueAfter(sessions + 1)
    BY <1>1, <2>3, DueGrows
  <2>5. waited >= DueAfter(sessions)
    BY <1>1, <2>1, <2>2, <2>3
  <2> QED BY <2>1, <2>4, <2>5 DEF Grown
<1>5. CASE LoopStops \/ StartSession \/ Tick \/ CancelSeen \/ Cancel \/ UNCHANGED vars
  BY <1>5 DEF LoopStops, StartSession, Tick, CancelSeen, Cancel, vars, retry, Grown
<1>6. CASE Connected \/ PingDue \/ PingSent \/ PingReceived \/ PongSent
  BY <1>6 DEF Connected, PingDue, PingSent, PingReceived, PongSent, retry, Grown
<1>7. CASE OtherText \/ \E s \in Range(symbols), class \in Classes : Ticker(s, class)
  BY <1>7 DEF OtherText, Ticker, Text, retry, Grown
<1> QED BY <1>3, <1>4, <1>5, <1>6, <1>7 DEF Next, Loop, Session

(* Every pause is the initial backoff doubled once for each session before *)
(* the last, up to the cap: nothing on the way sets it back.               *)
THEOREM PausesDouble == Spec => BackoffDoubles
<1> DEFINE Due == pc = "loop" /\ pc' = "connect" /\ sessions > 0 => waited >= DueAfter(sessions)
<1>1. Inv /\ Grown => Due
  BY DEF Grown
<1>2. Inv /\ Grown /\ [Next]_vars => Grown'
  BY GrownStep
<1> QED BY <1>1, <1>2, GrownInit, FeedInvariant, PTL DEF Spec, BackoffDoubles

-----------------------------------------------------------------------------
(* What has to hold around the end of the feed: a session is cancelled     *)
(* only when the token is.                                                 *)
Cancels == /\ pc \in {"closing", "stopped"} => cancelled

(* Only the token stops the feed, whatever becomes of its sessions.        *)
THEOREM FeedStopsOnlyWhenCancelled == Spec => []StopsOnlyWhenCancelled
<1>1. Init => Cancels
  BY DEF Init, Cancels
<1>2. Cancels /\ [Next]_vars => Cancels'
  <2> SUFFICES ASSUME Cancels, [Next]_vars PROVE Cancels'
    OBVIOUS
  <2>1. CASE ConnectFails \/ Disconnected \/ ReadFails \/ PingFails \/ PongFails \/ Closed
    BY <2>1
    DEF ConnectFails, Disconnected, ReadFails, PingFails, PongFails, Closed, EndSession, AfterSession, Cancels
  <2>2. CASE Loop \/ CancelSeen \/ Cancel \/ UNCHANGED vars
    BY <2>2 DEF Loop, LoopStops, StartSession, SleepOver, Tick, CancelSeen, Cancel, vars, Cancels
  <2>3. CASE Connected \/ PingDue \/ PingSent \/ PingReceived \/ PongSent
    BY <2>3 DEF Connected, PingDue, PingSent, PingReceived, PongSent, Cancels
  <2>4. CASE OtherText \/ \E s \in Range(symbols), class \in Classes : Ticker(s, class)
    BY <2>4 DEF OtherText, Ticker, Text, Cancels
  <2>5. QED
    BY <2>1, <2>2, <2>3, <2>4 DEF Next, Session
<1>3. Cancels => StopsOnlyWhenCancelled
  BY DEF Cancels, StopsOnlyWhenCancelled
<1>4. QED
  BY <1>1, <1>2, <1>3, PTL DEF Spec

-----------------------------------------------------------------------------
(* For any PAIRS, one name is parsed as the single endpoint sends it and   *)
(* several as the combined one does; without a name there is no ticker.    *)
LEMMA ParserFits ==
    ASSUME NEW syms \in Seq(Symbols), NEW s \in Range(syms)
    PROVE  Parsed(syms) = Sent(syms)
<1>1. Len(syms) \in Nat /\ DOMAIN syms = 1 .. Len(syms)
  OBVIOUS
<1>2. Len(syms) # 0
  BY <1>1 DEF Range
<1>3. QED
  BY <1>1, <1>2 DEF Parsed, Sent

(* Every valid ticker of a session is an update, every other text frame a  *)
(* parse error, for any PAIRS.                                             *)
THEOREM EveryTickerIsRead == Spec => []TickersAreRead
<1>1. Init => TickersAreRead
  BY DEF Init, TickersAreRead
<1>2. TypeOK /\ TickersAreRead /\ [Next]_vars => TickersAreRead'
  <2> SUFFICES ASSUME TypeOK, TickersAreRead, [Next]_vars PROVE TickersAreRead'
    OBVIOUS
  <2> USE DEF TickersAreRead
  <2>1. CASE ConnectFails \/ Disconnected \/ ReadFails \/ PingFails \/ PongFails \/ Closed
    BY <2>1
    DEF ConnectFails, Disconnected, ReadFails, PingFails, PongFails, Closed, EndSession, frames
  <2>2. CASE Loop \/ CancelSeen \/ Cancel \/ UNCHANGED vars
    BY <2>2 DEF Loop, LoopStops, StartSession, SleepOver, Tick, CancelSeen, Cancel, vars, frames
  <2>3. CASE Connected \/ PingDue \/ PingSent \/ PingReceived \/ PongSent
    BY <2>3 DEF Connected, PingDue, PingSent, PingReceived, PongSent, frames
  <2>4. CASE OtherText
    BY <2>4 DEF OtherText, Text, TypeOK
  <2>5. ASSUME NEW s \in Range(symbols), NEW class \in Classes, Ticker(s, class)
        PROVE  TickersAreRead'
    <3>1. Parsed(symbols) = Sent(symbols)
      BY ParserFits DEF TypeOK
    <3>2. HasPrices(class) <=> class # "crossed"
      BY DEF HasPrices
    <3>3. QED
      BY <2>5, <3>1, <3>2 DEF Ticker, Text, TypeOK
  <2>6. QED
    BY <2>1, <2>2, <2>3, <2>4, <2>5 DEF Next, Session
<1>3. QED
  BY <1>1, <1>2, TypeCorrect, PTL DEF Spec

(* No crossed quote and none out of bounds is ever stored.                 *)
THEOREM StoredQuotesAreSane == Spec => []QuotesAreSane
<1>1. Init => QuotesAreSane
  BY DEF Init, QuotesAreSane
<1>2. TypeOK /\ QuotesAreSane /\ [Next]_vars => QuotesAreSane'
  <2> SUFFICES ASSUME TypeOK, QuotesAreSane, [Next]_vars PROVE QuotesAreSane'
    OBVIOUS
  <2>1. ASSUME NEW s \in Range(symbols), NEW class \in Classes, Ticker(s, class)
        PROVE  QuotesAreSane'
    <3>1. class = "sane" \/ ~(HasPrices(class) /\ InBounds(class))
      BY DEF Classes, HasPrices, InBounds
    <3>2. QED
      BY <2>1, <3>1 DEF Ticker, Text, TypeOK, QuotesAreSane
  <2>2. CASE UNCHANGED <<symbols, pairs>>
    BY <2>2 DEF QuotesAreSane
  <2>3. UNCHANGED <<symbols, pairs>> \/ \E s \in Range(symbols), class \in Classes : Ticker(s, class)
    <3>1. CASE ConnectFails \/ Disconnected \/ ReadFails \/ PingFails \/ PongFails \/ Closed
      BY <3>1
      DEF ConnectFails, Disconnected, ReadFails, PingFails, PongFails, Closed, EndSession, frames
    <3>2. CASE Loop \/ CancelSeen \/ Cancel \/ UNCHANGED vars
      BY <3>2 DEF Loop, LoopStops, StartSession, SleepOver, Tick, CancelSeen, Cancel, vars, frames
    <3>3. CASE Connected \/ PingDue \/ PingSent \/ PingReceived \/ PongSent
      BY <3>3 DEF Connected, PingDue, PingSent, PingReceived, PongSent, frames
    <3>4. CASE OtherText
      BY <3>4 DEF OtherText, Text
    <3>5. QED
      BY <3>1, <3>2, <3>3, <3>4 DEF Next, Session
  <2>4. QED
    BY <2>1, <2>2, <2>3
<1>3. QED
  BY <1>1, <1>2, TypeCorrect, PTL DEF Spec

(* Every frame of every session is handled as it should be.                *)
THEOREM FramesHandled == Spec => []FramesAreHandled
<1>1. TickersAreRead /\ QuotesAreSane /\ EveryPingAnswered => FramesAreHandled
  BY DEF FramesAreHandled
<1>2. QED
  BY <1>1, EveryTickerIsRead, StoredQuotesAreSane, AnswersPings, PTL
=============================================================================
