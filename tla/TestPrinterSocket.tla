------------------------- MODULE TestPrinterSocket --------------------------
(***************************************************************************)
(* TestPrinterSocketStore: the connection test of a printer that is not    *)
(* stored yet.  All tests share this.testSocket.  A test is named by its   *)
(* correlation token, which also is the printer id of its socket.          *)
(***************************************************************************)
CONSTANT Tests

VARIABLES
  testSocket,    \* whose socket this.testSocket is, or NoSocket
  testSockets,   \* the adapter each test made
  testListeners, \* tests whose listeners are on the event bus
  testing,       \* where each call of setupTestPrinter is
  overlap        \* history: tests that ran at once, or even validated their input at once

testVars == <<testSocket, testSockets, testListeners, testing, overlap>>

NoSocket == "none"

TestsTypeOK ==
  /\ testSocket \in Tests \cup {NoSocket}
  /\ testSockets \in [Tests -> {"none", "made", "open", "closed"}]
  /\ testListeners \in SUBSET Tests /\ overlap \in {"none", "running", "validating"}
  /\ testing \in [Tests -> {"idle", "validating", "session", "polling", "waiting", "finally"}]

TestsInit ==
  /\ testSocket = NoSocket /\ testSockets = [t \in Tests |-> "none"]
  /\ testListeners = {} /\ testing = [t \in Tests |-> "idle"] /\ overlap = "none"

Moves(t, s) == testing' = [testing EXCEPT ![t] = s]

\* The sockets once socket t, if there is one, is told to close.
Closing(t) == [s \in Tests |-> IF s = t THEN "closed" ELSE testSockets[s]]

\* A test of before is cut off.  With a slip: its socket is only forgotten.
CutOff_Forgets == testSockets
CutOff == Closing(testSocket)

StartTest(t) ==
  /\ testing[t] = "idle" /\ Moves(t, "validating")
  /\ testSockets' = [CutOff EXCEPT ![t] = IF @ = "closed" THEN "none" ELSE @]
  /\ testSocket' = NoSocket
  /\ overlap' = IF \E o \in Tests : testing[o] = "validating" THEN "validating"
                ELSE IF overlap = "none" /\ \E o \in Tests : testing[o] # "idle" THEN "running"
                ELSE overlap
  /\ UNCHANGED testListeners

CreateTestSocket(t) ==
  /\ testing[t] = "validating"
  /\ \/ /\ Moves(t, "session")
        /\ testSocket' = t /\ testSockets' = [testSockets EXCEPT ![t] = "made"]
        /\ testListeners' = testListeners \cup {t}
     \/ Moves(t, "idle") /\ UNCHANGED <<testSocket, testSockets, testListeners>>   \* invalid
  /\ UNCHANGED overlap

\* setupSocketSession resolved: whatever socket is there now is opened.  With none, or one
\* that is open, open throws in the executor, whose promise then never settles.
OpenTestSocket(t) ==
  /\ testing[t] = "session"
  /\ IF testSocket # NoSocket /\ testSockets[testSocket] # "open"
     THEN Moves(t, "polling") /\ testSockets' = [testSockets EXCEPT ![testSocket] = "open"]
     ELSE Moves(t, "waiting") /\ UNCHANGED testSockets
  /\ UNCHANGED <<testSocket, testListeners, overlap>>

\* Authenticated, no socket any more, the handshake's timeout, or a session refused.
TestEnds(t) ==
  /\ testing[t] \in {"session", "polling", "waiting"} /\ Moves(t, "finally")
  /\ UNCHANGED <<testSocket, testSockets, testListeners, overlap>>

\* With no socket the first line of the block throws, and the listeners stay.
Finally(t) ==
  /\ testing[t] = "finally" /\ Moves(t, "idle")
  /\ IF testSocket = NoSocket THEN UNCHANGED <<testSocket, testSockets, testListeners>>
     ELSE /\ testSockets' = Closing(testSocket)
          /\ testSocket' = NoSocket
          /\ testListeners' = testListeners \ {t}
  /\ UNCHANGED overlap

TestsNext ==
  \E t \in Tests : StartTest(t) \/ CreateTestSocket(t) \/ OpenTestSocket(t) \/ TestEnds(t) \/ Finally(t)

TestsSpec == TestsInit /\ [][TestsNext]_testVars

\* A test that starts while others run leaves no socket open that no test will close,
\* unless it validated its input together with another; and tests one after the other
\* leave no listener on the event bus either.
TestsLeaveNothing ==
  /\ overlap # "validating" =>
       \A t \in Tests : testSockets[t] = "open" => testSocket = t /\ \E o \in Tests : testing[o] # "idle"
  /\ (\A t \in Tests : testing[t] = "idle") /\ overlap = "none" => testListeners = {}

=============================================================================
