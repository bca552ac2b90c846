----------------------------- MODULE MCDecoder -----------------------------
(* Instances of Decoder: what the client asks for, in order.               *)
EXTENDS Decoder

Asks == <<3, 1, -1>>
AsksAgain == <<1, 2, 1>>

=============================================================================
