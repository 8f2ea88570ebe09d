----------------------------- MODULE MCPayloads -----------------------------
EXTENDS Payloads

MCPath == <<"origin", "relay", "destination">>
MCSkews == {0, 2}
MCSigner == {"EdDSA", "EdDSA pubkey"}
=============================================================================
