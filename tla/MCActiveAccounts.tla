-------------------------- MODULE MCActiveAccounts --------------------------
(* TLC instance of ActiveAccounts: five blocks, of which the last is too    *)
(* recent and the range has three, so that the last batch is not full; five *)
(* accounts, one of them a contract; calls of no value, to oneself, to the  *)
(* zero address, without a recipient, and that are no transfers.            *)
EXTENDS ActiveAccounts

Call(method, from, owner, to, token, value) ==
  [method |-> method, from |-> from, owner |-> owner, to |-> to,
   token |-> token, value |-> value]

Transfer(from, to, token) == Call("transfer", from, NoAddress, to, token, 1)

Common ==
  <<  <<Transfer(1, 4, 7)>>,
      <<Transfer(1, 2, 7), Transfer(3, 1, 7), Transfer(1, 1, 8)>>,
      <<Call("transferFrom", 5, 2, 3, 8, 1), Transfer(2, 1, 7),
        Call("transfer", 1, NoAddress, 2, 7, 0)>>,
      <<Transfer(3, 4, 8), Transfer(3, 1, 7), Transfer(4, ZeroAddress, 7),
        Call("transferFrom", 5, NoAddress, 3, 8, 1)>>,
      <<Transfer(4, 2, 7)>>  >>

\* In the second one the blocks are of one sender.
MCChains ==
  {Common,
   <<  <<>>, <<Transfer(2, 3, 7), Transfer(2, 4, 8)>>, <<Transfer(2, 3, 7)>>,
       <<Call("other", 2, 1, 3, 7, 1), Transfer(2, 3, NoAddress), Transfer(2, 5, 8)>>, <<>>  >>}

Switches(zero, oneWay, contracts) ==
  [include_zero_value |-> zero, one_way |-> oneWay, allow_contract_victims |-> contracts]

MCOptions == {Switches(FALSE, FALSE, FALSE), Switches(TRUE, FALSE, TRUE),
              Switches(FALSE, TRUE, FALSE)}

MCNoAddress == -1
=============================================================================
