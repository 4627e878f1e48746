---------------------------- MODULE TestFramework ----------------------------
(* testk (test.h), and the tests it has of itself (test.cpp). A test is the   *)
(* sequence of its expectations, each a macro on up to two values; an         *)
(* expectation that is not met logs, if logging is on, and returns 1. What    *)
(* values are: true 1, false 0, nullptr 0, and some text a number.            *)
EXTENDS Integers, Sequences

CONSTANTS MaxExtra   \* bound: failing tests added to the suite

(* What holds of the constants. *)
TestAssumption == MaxExtra \in Nat

VARIABLES pending,           \* calls of TEST and FAIL_TEST still to come
          frames,            \* the tests running, the innermost first
          test_logging, successful_tests, failed_tests,
          logged,            \* expectations reported on the console
          extra,             \* failing tests registered so far
          status             \* main's result, as a process reports it

vars == <<pending, frames, test_logging, successful_tests, failed_tests, logged, extra, status>>

Dot == 100      \* "."
Empty == 101    \* ""

E(macro, a, b) == [macro |-> macro, a |-> a, b |-> b]
One(macro, a, b) == <<E(macro, a, b)>>

(* The comparison each EXPECT_ macro makes; the one-argument macros are       *)
(* EXPECT_EQUAL or EXPECT_NOT_EQUAL with a constant.                          *)
Met(e) ==
  CASE e.macro = "EQUAL" -> e.a = e.b        [] e.macro = "NOT_EQUAL" -> e.a # e.b
    [] e.macro = "EMPTY" -> e.a = Empty      [] e.macro = "NOT_EMPTY" -> e.a # Empty
    [] e.macro = "GREATER_THAN" -> e.a > e.b [] e.macro = "NOT_GREATER_THAN" -> ~(e.a > e.b)
    [] e.macro = "LESS_THAN" -> e.a < e.b    [] e.macro = "NOT_LESS_THAN" -> ~(e.a < e.b)
    [] e.macro = "GREATER_THAN_OR_EQUAL" -> e.a >= e.b
    [] e.macro = "LESS_THAN_OR_EQUAL" -> e.a <= e.b
    [] e.macro = "NOT_GREATER_THAN_OR_EQUAL" -> ~(e.a >= e.b)
    [] e.macro = "NOT_LESS_THAN_OR_EQUAL" -> ~(e.a <= e.b)

successful_test == <<>>
failing_test == One("EQUAL", 0, 1)     \* it returns 1 outright

(* A call of another test inside one: EXPECT_FAIL and EXPECT_SUCCESS.         *)
Calls(macro, t) == <<[macro |-> macro, test |-> t]>>
IsCall(e) == e.macro \in {"FAIL", "SUCCESS"}

(* The tests that must fail, in the order of failure_tests().                 *)
failure_tests ==
  << Calls("FAIL", successful_test), Calls("SUCCESS", failing_test),
     One("EQUAL", 1, 0), One("EQUAL", 0, -1), One("NOT_EQUAL", 1, 1), One("NOT_EQUAL", 0, 0),
     One("EMPTY", Dot, 0), One("NOT_EMPTY", Empty, 0), One("EQUAL", Empty, 0),
     One("EQUAL", 1, -1), One("EQUAL", 1, 0), One("EQUAL", -1, 1), One("EQUAL", 0, 1),
     One("EQUAL", 1, 0), One("NOT_EQUAL", 0, 0), One("NOT_EQUAL", -1, -1),
     One("NOT_EQUAL", 0, 0), One("NOT_EQUAL", 1, 1),
     One("GREATER_THAN", 0, 1), One("LESS_THAN", 1, 0), One("GREATER_THAN_OR_EQUAL", 0, 1),
     One("LESS_THAN_OR_EQUAL", 1, 0), One("NOT_GREATER_THAN", 1, 0),
     One("NOT_LESS_THAN", 0, 1), One("NOT_GREATER_THAN_OR_EQUAL", 1, 0),
     One("NOT_LESS_THAN_OR_EQUAL", 0, 1) >>

(* Those that must succeed, in the order of succeeding_tests().               *)
succeeding_tests ==
  << successful_test, Calls("FAIL", failing_test), Calls("SUCCESS", successful_test),
     One("EQUAL", 1, 1), One("EQUAL", 0, 0), One("NOT_EQUAL", 1, 0), One("NOT_EQUAL", 0, 1),
     One("EMPTY", Empty, 0), One("NOT_EMPTY", Dot, 0), One("EQUAL", 0, 0),
     One("EQUAL", -1, -1), One("EQUAL", 0, 0), One("EQUAL", 1, 1), One("EQUAL", 1, 1),
     One("EQUAL", 0, 0), One("NOT_EQUAL", Dot, 0), One("NOT_EQUAL", 0, -1),
     One("NOT_EQUAL", -1, 0), One("NOT_EQUAL", 0, 1),
     One("GREATER_THAN", 1, 0), One("LESS_THAN", 0, 1),
     One("GREATER_THAN_OR_EQUAL", 0, 0) \o One("GREATER_THAN_OR_EQUAL", 1, 0),
     One("LESS_THAN_OR_EQUAL", 0, 1) \o One("LESS_THAN_OR_EQUAL", 1, 1),
     One("NOT_GREATER_THAN", 0, 1) \o One("NOT_GREATER_THAN", 1, 1),
     One("NOT_LESS_THAN", 0, 0) \o One("NOT_LESS_THAN", 1, 0),
     One("NOT_GREATER_THAN_OR_EQUAL", 0, 1), One("NOT_LESS_THAN_OR_EQUAL", 1, 0) >>

Suite == [i \in DOMAIN failure_tests |-> [macro |-> "FAIL_TEST", test |-> failure_tests[i]]]
         \o [i \in DOMAIN succeeding_tests |-> [macro |-> "TEST", test |-> succeeding_tests[i]]]

Init == /\ pending = Suite /\ frames = <<>>
        /\ test_logging = TRUE /\ successful_tests = 0 /\ failed_tests = 0
        /\ logged = 0 /\ extra = 0 /\ status = -1

(* A test starts; FAIL_TEST and EXPECT_FAIL turn logging off while it runs.   *)
Frame(macro, test) == [macro |-> macro, left |-> test, prev |-> test_logging]
LoggingIn(macro) == IF macro \in {"FAIL_TEST", "FAIL"} THEN FALSE ELSE test_logging

Start == /\ frames = <<>> /\ pending # <<>>
         /\ frames' = <<Frame(Head(pending).macro, Head(pending).test)>>
         /\ test_logging' = LoggingIn(Head(pending).macro)
         /\ pending' = Tail(pending)
         /\ UNCHANGED <<successful_tests, failed_tests, logged, extra, status>>

(* Logging stays off after a test that was meant to fail. *)
MutantRestored(frame) == test_logging

(* The test on top returns: TEST and FAIL_TEST count it, EXPECT_FAIL and      *)
(* EXPECT_SUCCESS let the test around it go on or return 1 in its turn. The   *)
(* logging flag is restored where it was turned off.                          *)
Restored(frame) == IF frame.macro \in {"FAIL_TEST", "FAIL"} THEN frame.prev ELSE test_logging
Fulfils(frame, result) == (result = 0) <=> frame.macro \in {"TEST", "SUCCESS"}
Report(logging) == IF logging THEN logged + 1 ELSE logged

Return(result) ==
  LET frame == Head(frames)
      around == Tail(frames)
  IN /\ test_logging' = Restored(frame)
     /\ IF around = <<>>
        THEN /\ frames' = <<>>
             /\ successful_tests' = successful_tests + (IF Fulfils(frame, result) THEN 1 ELSE 0)
             /\ failed_tests' = failed_tests + (IF Fulfils(frame, result) THEN 0 ELSE 1)
        ELSE /\ frames' = IF Fulfils(frame, result) THEN around
                          ELSE <<[Head(around) EXCEPT !.left = failing_test]>> \o Tail(around)
             /\ UNCHANGED <<successful_tests, failed_tests>>
     /\ UNCHANGED <<pending, extra, status>>

Finish == frames # <<>> /\ Head(frames).left = <<>> /\ Return(0) /\ UNCHANGED logged

Expect ==
  /\ frames # <<>> /\ Head(frames).left # <<>>
  /\ LET e == Head(Head(frames).left)
         rest == [Head(frames) EXCEPT !.left = Tail(@)]
     IN \/ /\ IsCall(e)
           /\ frames' = <<Frame(e.macro, e.test), rest>> \o Tail(frames)
           /\ test_logging' = LoggingIn(e.macro)
           /\ UNCHANGED <<pending, successful_tests, failed_tests, logged, extra, status>>
        \/ /\ ~IsCall(e) /\ Met(e)
           /\ frames' = <<rest>> \o Tail(frames)
           /\ UNCHANGED <<pending, test_logging, successful_tests, failed_tests, logged,
                          extra, status>>
        \/ ~IsCall(e) /\ ~Met(e) /\ Return(1) /\ logged' = Report(test_logging)

(* One more test with a failure in it is registered.                          *)
Register == /\ extra < MaxExtra /\ extra' = extra + 1 /\ status = -1
            /\ pending' = Append(pending, [macro |-> "TEST", test |-> failing_test])
            /\ UNCHANGED <<frames, test_logging, successful_tests, failed_tests, logged, status>>

(* main returns the number of failures, of which a process reports 8 bits.    *)
Exit == /\ pending = <<>> /\ frames = <<>> /\ status = -1
        /\ status' = failed_tests % 256
        /\ UNCHANGED <<pending, frames, test_logging, successful_tests, failed_tests,
                       logged, extra>>

Next == Start \/ Finish \/ Expect \/ Register \/ Exit
Spec == Init /\ [][Next]_vars

------------------------------------------------------------------------------
FrameworkTypeOK ==
  /\ Len(frames) <= 2 /\ test_logging \in BOOLEAN
  /\ successful_tests \in Nat /\ failed_tests \in Nat /\ status \in -1 .. 255

(* The tests of the framework come out as they should: none of its own fails, *)
(* every one registered besides does and is reported, none that is meant to   *)
(* fail is, and logging is on again whenever no test runs.                    *)
VerdictsRight ==
  /\ frames = <<>> => test_logging
  /\ status # -1 => /\ failed_tests = extra /\ logged = extra
                    /\ successful_tests = Len(Suite)

=============================================================================
