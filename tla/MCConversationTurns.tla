------------------------- MODULE MCConversationTurns -------------------------
(* Small instances of ConversationTurns: the run of the transfer asks for an  *)
(* input, the run that the operator starts asks for an approval.              *)
EXTENDS ConversationTurns

CONSTANTS s1, u1

OneQuestionEach == {<<s1, "input">>, <<u1, "approval">>}
NoQuestions == {}
==============================================================================
