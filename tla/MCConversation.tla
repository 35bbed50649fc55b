------------------------ MODULE MCConversation ------------------------
(* Instances of Conversation for TLC.                                    *)
EXTENDS Conversation, TLC

CONSTANTS i1, i2, r1

OneInstance  == [r \in Requests |-> i1]
\* The requests are spread over two instances.
TwoInstances == [r \in Requests |-> IF r = r1 THEN i1 ELSE i2]

Card       == {<<"card">>}
ServerTool == {<<"server">>}

NoEndpoints == {}

\* The requests on the second instance.
Interchangeable == Permutations(Requests \ {r1})

=======================================================================
