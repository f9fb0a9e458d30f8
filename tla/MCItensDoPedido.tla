--------------------------- MODULE MCItensDoPedido ---------------------------
(* A burger whose name begins another's, and two sizes of fries: names that *)
(* contain each other, and names that are only similar.                     *)
EXTENDS ItensDoPedido

Burger == [id |-> 1, nome |-> "x-burger", preco |-> 20]
Duplo  == [id |-> 2, nome |-> "x-burger duplo", preco |-> 28]
Grande == [id |-> 3, nome |-> "batata frita g", preco |-> 15]
Media  == [id |-> 4, nome |-> "batata frita m", preco |-> 11]

MCCardapios == {<<Burger, Duplo, Grande>>, <<Burger, Duplo, Media>>, <<Duplo, Media>>}

MCPalavras == [n \in {"x-burger", "x-burger duplo", "batata frita g",
                      "batata frita m", "batata"} |->
  CASE n = "x-burger" -> <<"x-burger">>
    [] n = "x-burger duplo" -> <<"x-burger", "duplo">>
    [] n = "batata frita g" -> <<"batata", "frita", "g">>
    [] n = "batata frita m" -> <<"batata", "frita", "m">>
    [] n = "batata" -> <<"batata">>]

MCDentro == {<<"x-burger", "x-burger duplo">>, <<"batata", "batata frita g">>,
             <<"batata", "batata frita m">>}

MCLongas == {"x-burger", "duplo", "batata", "frita"}

MCKeywords == {[nome |-> "x-burger duplo", unidade |-> ""],
               [nome |-> "batata", unidade |-> "duplo"]}

MCQuantidades == {-1, 0, 1, 2}
=============================================================================
