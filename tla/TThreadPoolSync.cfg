\* Jobs may end while others are being started.
SPECIFICATION Spec
CONSTANT Setups <- OneFrame
PROPERTY SynchronizeBlocks
