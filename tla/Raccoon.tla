------------------------------ MODULE Raccoon ------------------------------
(***************************************************************************)
(* master/ast_raccoon.go: the code of an oracle is patched before it is    *)
(* sent to the nodes: each records.Find(p) call, p being a parameter of    *)
(* the oracle, becomes the record itself.  Code is a sequence of symbols;  *)
(* a call stands at a place of it, in the order in which the syntax tree   *)
(* is walked.                                                              *)
(***************************************************************************)
EXTENDS Integers, Sequences, SequencesExt

CONSTANTS
    NoRecord,       \* a nil entry of records: nothing to patch
    NotFound        \* recordNotFound: patched with null

(* parseAst: the first function is the oracle, and the first other one     *)
(* whose name starts with merge and which has one parameter the merger     *)
(* (none: 0).  No function at all is an error.                             *)
MergerFunction(functions) ==
    LET mergers == {i \in 2 .. Len(functions) : functions[i].merge /\ functions[i].params = 1}
    IN  IF mergers = {} THEN 0 ELSE CHOOSE i \in mergers : \A j \in mergers : i <= j

(* Enter: calls of records.Find with one argument, an identifier that is   *)
(* a parameter.  callNodes keeps them, parametersToLookup the positions.   *)
CallNodes(calls, parameters) ==
    SelectSeq(calls, LAMBDA c : c.find /\ c.arg \in ToSet(parameters))

IsParameterPositionARecordLookup(calls, parameters, i) ==
    \E c \in ToSet(CallNodes(calls, parameters)) :
        i = CHOOSE k \in DOMAIN parameters :
                /\ parameters[k] = c.arg
                /\ \A j \in 1 .. k - 1 : parameters[j] # c.arg

(* Run, first step: the record of each argument that is looked up, by what *)
(* ReadRecord answers.  Anything but "not found" ends the call.            *)
ResolvedRecords(calls, parameters, args, answers) ==
    [i \in DOMAIN parameters |->
        IF i \in DOMAIN args /\ IsParameterPositionARecordLookup(calls, parameters, i)
        THEN answers[args[i]] ELSE NoRecord]

Serialised(record) == IF record = NotFound THEN <<"new", "null">> ELSE <<"new">> \o record

(* newCode[:idx0] + newRecord + newCode[idx1:], as far as Go lets one: a   *)
(* place outside the code is a panic.                                      *)
Splice(code, at, len, text) ==
    IF at < 1 \/ at + len - 1 > Len(code) THEN <<"panic">>
    ELSE SubSeq(code, 1, at - 1) \o text \o SubSeq(code, at + len, Len(code))

(* Mutant: the calls keep their places.                                    *)
PatchCallUnshifted(state, call, text) ==
    [code |-> Splice(state.code, call.at, call.len, text), shift |-> 0]

(* One call: shift is what earlier replacements added.                     *)
PatchCall(state, call, text) ==
    [code |-> Splice(state.code, call.at + state.shift, call.len, text),
     shift |-> state.shift + Len(text) - call.len]

(* Parameter by parameter, and for each one its calls in order.            *)
PatchCode(src, calls, parameters, records) ==
    LET patchParameter(state, i) ==
            IF records[i] = NoRecord THEN state
            ELSE FoldLeft(LAMBDA s, c : PatchCall(s, c, Serialised(records[i])), state,
                          SelectSeq(CallNodes(calls, parameters),
                                    LAMBDA c : c.arg = parameters[i]))
    IN  FoldLeft(patchParameter, [code |-> src, shift |-> 0],
                 [i \in DOMAIN parameters |-> i]).code

=============================================================================
