------------------------------ MODULE MCLlmClient ------------------------------
EXTENDS LlmClient

DetectorOrder == <<"credit_card", "email", "phone">>

\* A card number that the phone pattern would match as well, two addresses and
\* a service name.
MatchingDetectors == [card  |-> {"credit_card", "phone"},
                      alice |-> {"email"},
                      bob   |-> {"email"},
                      tel   |-> {"phone"},
                      svc   |-> {}]

Text(t) == <<>> \o [i \in DOMAIN t |-> Value(t[i])]

\* One question has any text of two values or some of three, the others one.
Texts == {Text(t) : t \in [1..2 -> DOMAIN MatchingDetectors]} \cup
         {Text(<<"bob", "alice", "bob">>), Text(<<"card", "tel", "card">>)}

TextsOf == [intake   |-> Texts,
            rca      |-> {Text(<<"alice">>)},
            unmapped |-> {Text(<<"svc">>)}]

SystemPrompt == Text(<<"svc", "bob">>)
===============================================================================
