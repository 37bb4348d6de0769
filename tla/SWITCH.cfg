SPECIFICATION Spec
CONSTANTS
  BtHosts = {1, 2}
  P24G = 24
INVARIANTS TypeOK PairingAsked
PROPERTY SwitchObeyed
