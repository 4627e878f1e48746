----------------------------- MODULE CoreLibrary -----------------------------
(* The components of the core library side by side: each behaviour exercises  *)
(* one of them, named by part, and the variables of the others stay as they   *)
(* are.  They share no state in the code either.                              *)
EXTENDS Integers, Sequences, OwningPointer

CONSTANTS
  Off,                                          \* of a component not exercised
  Values, Default, Initial, Reserves, MaxSize,  \* of GrowableVector
  Strings, Letters, kMaxShortLen, MaxText,        \* of SmallString
  Results, Items, Moved, Failures,              \* of StatusResult
  Bits,                                         \* of TextStream and FormatString
  FlagNames, buf_chrs, Numbers, Widths, Fills,  \* of TextStream
  Formats, Arguments, LevelOrder,               \* of FormatString
  rows_, cols_, TabStop, Glyphs, Colors, MaxRow,  \* of TextConsole
  MaxExtra                                      \* of TestFramework

VARIABLES part,
  size_, initial_capacity_, capacity_, elems_, list, stretched, reentered,
  s, text, overlapped, fault,
  hasT_, status_, item_, alive, described, assigned, trapped,
  flags_, width_, fill_, field,
  directives, c_, formatFlags, formatWidth, formatSize, used, out, number, pc,
  row_, col_, bg_, fg_, screen, drawn,
  pending, frames, test_logging, successful_tests, failed_tests, logged, extra, status

Vector == INSTANCE GrowableVector
Text == INSTANCE SmallString WITH Chars <- Letters, MaxLen <- MaxText
Result == INSTANCE StatusResult
Stream == INSTANCE TextStream
Format == INSTANCE FormatString WITH
  flags_ <- formatFlags, width_ <- formatWidth, size_ <- formatSize
Console == INSTANCE TextConsole
Tests == INSTANCE TestFramework
-----------------------------------------------------------------------------
vectorVars == <<size_, initial_capacity_, capacity_, elems_, list, stretched, reentered>>
stringVars == <<s, text, overlapped, fault>>
statusVars == <<hasT_, status_, item_, alive, described, assigned, trapped>>
streamVars == <<flags_, width_, fill_, field>>
formatVars == <<directives, c_, formatFlags, formatWidth, formatSize, used, out, number, pc>>
consoleVars == <<row_, col_, bg_, fg_, screen, drawn>>
testVars == <<pending, frames, test_logging, successful_tests, failed_tests, logged,
              extra, status>>

NoVector == /\ size_ = Off /\ initial_capacity_ = Off /\ capacity_ = Off /\ elems_ = Off
            /\ list = Off /\ stretched = Off /\ reentered = Off
NoText == s = Off /\ text = Off /\ overlapped = Off /\ fault = Off
NoResult == /\ hasT_ = Off /\ status_ = Off /\ item_ = Off /\ alive = Off
            /\ described = Off /\ assigned = Off /\ trapped = Off
NoStream == flags_ = Off /\ width_ = Off /\ fill_ = Off /\ field = Off
NoFormat == /\ directives = Off /\ c_ = Off /\ formatFlags = Off /\ formatWidth = Off
            /\ formatSize = Off /\ used = Off /\ out = Off /\ number = Off /\ pc = Off
NoConsole == /\ row_ = Off /\ col_ = Off /\ bg_ = Off /\ fg_ = Off /\ screen = Off
             /\ drawn = Off
NoTests == /\ pending = Off /\ frames = Off /\ test_logging = Off /\ successful_tests = Off
           /\ failed_tests = Off /\ logged = Off /\ extra = Off /\ status = Off

Is(p) == part = p
OthersOff ==
  /\ IF Is("vector") THEN TRUE ELSE NoVector
  /\ IF Is("string") THEN TRUE ELSE NoText
  /\ IF Is("status") THEN TRUE ELSE NoResult
  /\ IF Is("stream") THEN TRUE ELSE NoStream
  /\ IF Is("format") THEN TRUE ELSE NoFormat
  /\ IF Is("console") THEN TRUE ELSE NoConsole
  /\ IF Is("tests") THEN TRUE ELSE NoTests

CoreInit ==
  /\ Init   \* of the pointers
  /\ \/ Is("pointers")
     \/ Is("vector") /\ Vector!Init
     \/ Is("string") /\ Text!Init
     \/ Is("status") /\ Result!Init
     \/ Is("stream") /\ Stream!Init
     \/ Is("format") /\ Format!Init
     \/ Is("console") /\ Console!Init
     \/ Is("tests") /\ Tests!Init
  /\ OthersOff

CoreNext ==
  /\ UNCHANGED part
  /\ \/ Is("pointers") /\ Next
     \/ Is("vector") /\ Vector!Next
     \/ Is("string") /\ Text!Next
     \/ Is("status") /\ Result!Next
     \/ Is("stream") /\ Stream!Next
     \/ Is("format") /\ Format!Next
     \/ Is("console") /\ Console!Next
     \/ Is("tests") /\ Tests!Next
  /\ IF Is("pointers") THEN TRUE ELSE UNCHANGED vars
  /\ IF Is("vector") THEN TRUE ELSE UNCHANGED vectorVars
  /\ IF Is("string") THEN TRUE ELSE UNCHANGED stringVars
  /\ IF Is("status") THEN TRUE ELSE UNCHANGED statusVars
  /\ IF Is("stream") THEN TRUE ELSE UNCHANGED streamVars
  /\ IF Is("format") THEN TRUE ELSE UNCHANGED formatVars
  /\ IF Is("console") THEN TRUE ELSE UNCHANGED consoleVars
  /\ IF Is("tests") THEN TRUE ELSE UNCHANGED testVars

coreVars == <<part, vars, vectorVars, stringVars, statusVars, streamVars,
          formatVars, consoleVars, testVars>>

CoreSpec == CoreInit /\ [][CoreNext]_coreVars

ASSUME CoreAssumption ==
  /\ Vector!VectorAssumption /\ Text!StringAssumption /\ Result!StatusAssumption
  /\ Stream!StreamAssumption /\ Format!FormatAssumption /\ Console!ConsoleAssumption
  /\ Tests!TestAssumption
-----------------------------------------------------------------------------
(* The type invariants of the components. *)
CoreTypeOK ==
  /\ PointersTypeOK
  /\ Is("vector") => Vector!VectorTypeOK
  /\ Is("string") => Text!StringTypeOK
  /\ Is("status") => Result!ResultTypeOK
  /\ Is("stream") => Stream!StreamTypeOK
  /\ Is("format") => Format!FormatTypeOK
  /\ Is("console") => Console!ConsoleTypeOK
  /\ Is("tests") => Tests!FrameworkTypeOK

(* What the core types hold is what their calls describe, however they grow,
   shrink, are copied, moved or mapped: a vector its list, in living elements
   (vector.h:36-163), a string its text, inside itself or not (string.h:34-153),
   and a StatusOr its status or its item, reachable only while it is alive
   (status.h:87-200).                                                     *)
ContainersKeepValues ==
  /\ Is("vector") => Vector!HoldsList /\ Vector!ElementsAlive
  /\ Is("string") => Text!HoldsText
  /\ Is("status") => Result!ResultDescribed

(* What an ostream prints reads back as the number, in a field no shorter
   than asked, and its buffer holds the digits but in octal (ostream.cpp). *)
FieldReadsBack == Is("stream") => Stream!FieldReadsBack /\ Stream!BufferSufficesButForOctal

(* vparsef prints what the directives say and takes the arguments they take,
   and numbers fill their width (format.cpp).                             *)
FormatObeyed == Is("format") => Format!FormatObeyed /\ Format!NumberInField

(* Printing touches no row but the cursor's, except to scroll all of them
   (simpletext.h:80-138).                                                 *)
OtherRowsKept == [][Is("console") => Console!KeepsOtherRows]_coreVars

(* A test passes or fails for its own expectations only, however tests that
   are meant to fail are nested in it (test.cpp, test.h).                 *)
VerdictsRight == Is("tests") => Tests!VerdictsRight
===============================================================================
